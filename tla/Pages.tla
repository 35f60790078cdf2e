-------------------------------- MODULE Pages --------------------------------
(***************************************************************************)
(* Cursors and pages.  A listed row is reduced to what its list is ordered *)
(* by: at, a date or a name, and id, which settles ties.  A page is the    *)
(* set of its rows: their order is that of the list, and what depends on   *)
(* it is which of them is the last.                                        *)
(***************************************************************************)
EXTENDS Naturals, FiniteSets

CONSTANT None  \* "no cursor": the page was the last

ASSUME NoneAssumption == None \notin [at : Nat, id : Nat]

RowAt(at, id) == [at |-> at, id |-> id]

\* The order of a list, "ASC" or "DESC"; ties are settled by the id, upwards.
Before(order, a, b) ==
    \/ IF order = "ASC" THEN a.at < b.at ELSE a.at > b.at
    \/ a.at = b.at /\ a.id < b.id

\* ORDER BY and LIMIT: the rows with fewer than limit others before them.
Limited(rows, order, limit) ==
    {e \in rows : Cardinality({d \in rows : Before(order, d, e)}) < limit}

\* The strict cursor: rows after it in the order of the list.
After(rows, order, cursor, limit) ==
    Limited({e \in rows : Before(order, cursor, e)}, order, limit)

\* The cursor of a list whose first page asks for createdAt = maxDate and any id:
\* to it, rows at that date are all still to come.
AfterOrAt(rows, maxDate, cursor, limit) ==
    Limited({e \in rows : Before("DESC", cursor, e)
                            \/ (cursor.at = maxDate /\ e.at = maxDate)},
            "DESC", limit)

\* Of the rows of a page in its order, the one at limit - 1: there is none if they are
\* fewer, for that page is the last.
Last(page, order) == CHOOSE e \in page : \A d \in page : d = e \/ Before(order, d, e)

\* Mutant: a full page is taken for the last.
CursorOfLongerPage(page, order, limit) ==
    IF Cardinality(page) <= limit THEN None ELSE Last(page, order)

NextCursor(page, order, limit) ==
    IF Cardinality(page) < limit THEN None ELSE Last(page, order)

\* Users and friend requests continue by name and account id; rows are what the page
\* is made of, in the search more than the users on it.
UserCursor(rows, page, limit) == IF Cardinality(rows) < limit THEN None ELSE Last(page, "ASC")

\* Mutant: the day before, lest the group comes again.
EarlierGroupCursor(page, limit) ==
    IF Cardinality(page) < limit THEN None ELSE [at |-> Last(page, "DESC").at - 1, id |-> 0]

\* Groups continue by a date alone.
GroupCursor(page, limit) ==
    IF Cardinality(page) < limit THEN None ELSE [at |-> Last(page, "DESC").at, id |-> 0]

\* What a reader answers: a page and the cursor to ask for the next one with.  There
\* is more than one answer where the query leaves the order open.
Answer(page, next) == [page |-> page, next |-> next]
UserPages(page, limit) == {Answer(page, UserCursor(page, page, limit))}
DatedPages(page, order, limit) == {Answer(page, NextCursor(page, order, limit))}

=============================================================================
