---------------------------- MODULE GatheringLists ----------------------------
(***************************************************************************)
(* The lists of gatherings, invitations and groups one user is shown.      *)
(* row[g] is what their queries join of a gathering: its date (of creation *)
(* in the lists of invitations), the user's participation and whether he   *)
(* has marked it read, whether the gathering is open, ended or deleted,    *)
(* whether the user has an active feed about it, whether its host is       *)
(* active, and, in the list of sent invitations, whether an active guest   *)
(* has not answered.                                                       *)
(***************************************************************************)
EXTENDS Pages

Gathering(dates) ==
    [at : dates, status : {"NONE", "PENDING", "ACCEPTED"},
     state : {"open", "ended", "deleted"}, posted : BOOLEAN, host : {"active", "withdrawn"},
     unanswered : BOOLEAN, read : BOOLEAN]

Dated(row, ids) == {RowAt(row[g].at, g) : g \in ids}

Joined(row, states) ==
    {g \in DOMAIN row : row[g].status = "ACCEPTED" /\ row[g].state \in states}

FindByUserId(row, maxDate, cursor, limit) ==
    AfterOrAt(Dated(row, Joined(row, {"open"})), maxDate, cursor, limit)

\* From the first date on, ended gatherings among them.
FindAllByUserId(row, minDate, cursor, limit) ==
    Limited({e \in Dated(row, Joined(row, {"open", "ended"})) :
                Before("ASC", cursor, e) \/ (cursor.at = minDate /\ e.at = minDate)},
            "ASC", limit)

FindEndedGatheringsByUserId(row, maxDate, cursor, limit) ==
    AfterOrAt(Dated(row, Joined(row, {"ended"})), maxDate, cursor, limit)

IsFeedPosted(row) == {g \in DOMAIN row : row[g].posted}

FindGatheringsWithoutFeedByUserId(row, cursor, limit) ==
    After(Dated(row, {g \in Joined(row, {"ended"}) : ~row[g].posted}),
          "DESC", cursor, limit)

ReadGatherings(row, maxDate, cursor, limit) ==
    DatedPages(FindByUserId(row, maxDate, cursor, limit), "DESC", limit)

ReadAllGatherings(row, minDate, cursor, limit) ==
    DatedPages(FindAllByUserId(row, minDate, cursor, limit), "ASC", limit)

ReadEnded(row, maxDate, cursor, limit) ==
    DatedPages(FindEndedGatheringsByUserId(row, maxDate, cursor, limit), "DESC", limit)

ReadUnwrittenFeed(row, cursor, limit) ==
    DatedPages(FindGatheringsWithoutFeedByUserId(row, cursor, limit), "DESC", limit)

-----------------------------------------------------------------------------

\* The participation's own id, in another order than the gathering's.
ParticipationId(row, g) == Cardinality(DOMAIN row) + 1 - g

\* Ordered by the participation's id, continued by the gathering's.
FindReceivedByParticipantId(row, maxDate, cursor, limit) ==
    LET pending == {g \in DOMAIN row :
                        row[g].status = "PENDING" /\ row[g].state # "deleted"
                            /\ row[g].host = "active"}
        rest == {g \in pending :
                    \/ row[g].at < cursor.at
                    \/ row[g].at = cursor.at /\ (cursor.at = maxDate \/ g > cursor.id)}
    IN  Limited({RowAt(row[g].at, ParticipationId(row, g)) : g \in rest}, "DESC", limit)

FindSentBySenderId(row, maxDate, cursor, limit) ==
    AfterOrAt(Dated(row, {g \in DOMAIN row : row[g].unanswered /\ row[g].state # "deleted"}),
              maxDate, cursor, limit)

ReadReceived(row, maxDate, cursor, limit) ==
    DatedPages(FindReceivedByParticipantId(row, maxDate, cursor, limit), "DESC", limit)

\* The outer query settles no ties: of the rows at the page's earliest date any one
\* may be the last.
ReadSent(row, maxDate, cursor, limit) ==
    LET page == FindSentBySenderId(row, maxDate, cursor, limit)
    IN  IF Cardinality(page) < limit
        THEN {Answer(page, None)}
        ELSE {Answer(page, e) : e \in {d \in page : \A other \in page : d.at <= other.at}}

\* findProfileById joins neither the gathering nor its host.
NewInvitationCount(row) ==
    Cardinality({g \in DOMAIN row : row[g].status = "PENDING" /\ ~row[g].read})

-----------------------------------------------------------------------------
(* Groups: the user's join date orders and continues the list, but the date
   shown, and taken for the cursor, is that of whoever joined last. *)

Group(dates) ==
    [at : dates, status : {"NONE", "ACCEPTED", "REPORTED"}, owner : {"active", "withdrawn"},
     latest : dates]

MyGroups(group) ==
    {g \in DOMAIN group : group[g].status = "ACCEPTED" /\ group[g].owner = "active"}

FindGroupsByUserId(group, cursor, limit) ==
    LET before == {g \in MyGroups(group) : group[g].at < cursor.at}
    IN  {RowAt(group[e.id].latest, e.id) : e \in Limited(Dated(group, before), "DESC", limit)}

ReadGroups(group, cursor, limit) ==
    LET page == FindGroupsByUserId(group, cursor, limit)
    IN  {Answer(page, GroupCursor(page, limit))}

GroupCount(group) == Cardinality(MyGroups(group))

=============================================================================
