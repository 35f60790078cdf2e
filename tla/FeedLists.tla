------------------------------ MODULE FeedLists ------------------------------
(***************************************************************************)
(* The lists of feeds, comments and notifications one user is shown.       *)
(* row[f] is what their queries join of a feed: its date, its writer, why  *)
(* the user may see it, whether he has hidden it and whether it is deleted.*)
(***************************************************************************)
EXTENDS Pages

Feed(dates) ==
    [at : dates, writer : {"me", "active", "withdrawn"}, deleted : BOOLEAN,
     hidden : BOOLEAN, reach : {"none", "gathering", "tagged"}]

Of(row, feeds) == {RowAt(row[f].at, f) : f \in feeds}

\* findFeeds joins the writers after the limit: a page may lose rows.
FindFeeds(row, page) == {e \in page : row[e.id].writer # "withdrawn"}

\* Seen: host or participant of the feed's gathering, writer, or tagged by an
\* active writer.
Seen(row) ==
    {f \in DOMAIN row :
        /\ ~row[f].deleted /\ ~row[f].hidden
        /\ \/ row[f].writer = "me" \/ row[f].reach = "gathering"
           \/ row[f].reach = "tagged" /\ row[f].writer # "withdrawn"}

FindAllFeeds(row, order, cursor, limit) ==
    FindFeeds(row, After(Of(row, Seen(row)), order, cursor, limit))

Own(row) == {f \in DOMAIN row : row[f].writer = "me" /\ ~row[f].deleted}

FindOwnFeeds(row, order, cursor, limit) ==
    FindFeeds(row, After(Of(row, {f \in Own(row) : ~row[f].hidden}),
                         order, cursor, limit))

FindBlockedFeedsByUserId(row, cursor, limit) ==
    FindFeeds(row, After(Of(row, {f \in DOMAIN row : row[f].hidden /\ ~row[f].deleted}),
                         "DESC", cursor, limit))

\* The common body of readAll and readOwn.
GetFeeds(row, type, order, cursor, limit) ==
    DatedPages(IF type = "ALL" THEN FindAllFeeds(row, order, cursor, limit)
                               ELSE FindOwnFeeds(row, order, cursor, limit), order, limit)

GetBlockedFeeds(row, cursor, limit) ==
    DatedPages(FindBlockedFeedsByUserId(row, cursor, limit), "DESC", limit)

\* findDetailById counts what the user has written.
FeedCount(row) == Cardinality(Own(row))

HasFeed(row) == Own(row) # {}

-----------------------------------------------------------------------------
(* Comments: one page *)

Comment(dates) ==
    [at : dates, writer : {"active", "withdrawn"}, deleted : BOOLEAN,
     hidden : BOOLEAN]

FindByFeedId(comment) ==
    LET found == {c \in DOMAIN comment :
                    ~comment[c].deleted /\ comment[c].writer = "active" /\ ~comment[c].hidden}
    IN  Of(comment, found)

ReadComments(comment) == {Answer(FindByFeedId(comment), None)}

\* Beside a feed in a list.
CommentCount(comment) == Cardinality({c \in DOMAIN comment : ~comment[c].deleted})

\* Beside the feed's details: deletion only marks a row.
CommentCountOfDetail(comment) == Cardinality(DOMAIN comment)

-----------------------------------------------------------------------------

\* notification[n]: its date and whether it is the user's.
Notification(dates) == [at : dates, stored : BOOLEAN]

\* Mutant: the cursor's own row comes again.
FindNotificationsFromCursor(notification, cursor, limit) ==
    AfterOrAt(Of(notification, {n \in DOMAIN notification : notification[n].stored}),
              cursor.at, cursor, limit)

FindNotifications(notification, cursor, limit) ==
    After(Of(notification, {n \in DOMAIN notification : notification[n].stored}),
          "DESC", cursor, limit)

ReadNotifications(notification, cursor, limit) ==
    DatedPages(FindNotifications(notification, cursor, limit), "DESC", limit)

=============================================================================
