------------------------------ MODULE UserLists ------------------------------
(***************************************************************************)
(* The lists of users one user is shown: friends, friend requests, users   *)
(* found by a search, and the counts shown beside them.  peer[u] is what   *)
(* their queries join of another user: his name, whether he is active, the *)
(* friend row from the user to him (mine) and from him (theirs), and       *)
(* whether the user has blocked him; u is his account id.                  *)
(***************************************************************************)
EXTENDS Pages

FriendStatus == {"NONE", "PENDING", "ACCEPTED"}
Peer(names) ==
    [at : names, active : BOOLEAN, mine : FriendStatus, theirs : FriendStatus,
     blocked : BOOLEAN]

Named(peer, users) == {RowAt(peer[u].at, u) : u \in users}

IsFriend(p) == "ACCEPTED" \in {p.mine, p.theirs}

FindFriendsByUserId(peer, cursor, limit) ==
    After(Named(peer, {u \in DOMAIN peer : peer[u].active /\ IsFriend(peer[u])}),
          "ASC", cursor, limit)

\* Mutant: the cursor compares the account id before the name.
FindReceivedById(peer, cursor, limit) ==
    Limited({e \in Named(peer, {u \in DOMAIN peer :
                    peer[u].active /\ peer[u].theirs = "PENDING"}) : e.id > cursor.id},
            "ASC", limit)

FindReceivedRequestsByUserId(peer, cursor, limit) ==
    After(Named(peer, {u \in DOMAIN peer : peer[u].active /\ peer[u].theirs = "PENDING"}),
          "ASC", cursor, limit)

FindSentRequestsByUserId(peer, cursor, limit) ==
    After(Named(peer, {u \in DOMAIN peer : peer[u].active /\ peer[u].mine = "PENDING"}),
          "ASC", cursor, limit)

\* Each pending row joined to a user makes a row of its own: who has asked and was
\* asked is there twice, and the page is cut among the copies.
Copies(peer, entries) ==
    {c \in entries \X {1, 2} :
        c[2] = 2 => peer[c[1].id].mine = "PENDING" /\ peer[c[1].id].theirs = "PENDING"}
FindByAccountIdContaining(peer, cursor, limit) ==
    LET found == {u \in DOMAIN peer :
                    peer[u].active /\ ~peer[u].blocked /\ ~IsFriend(peer[u])}
        after == {e \in Named(peer, found) : Before("ASC", cursor, e)}
    IN  {e \in after :
            Cardinality({c \in Copies(peer, after) : Before("ASC", c[1], e)}) < limit}

-----------------------------------------------------------------------------

ReadFriends(peer, cursor, limit) ==
    UserPages(FindFriendsByUserId(peer, cursor, limit), limit)

ReadReceivedRequests(peer, cursor, limit) ==
    UserPages(FindReceivedRequestsByUserId(peer, cursor, limit), limit)

ReadSentRequests(peer, cursor, limit) ==
    UserPages(FindSentRequestsByUserId(peer, cursor, limit), limit)

SearchUsers(peer, cursor, limit) ==
    LET page == FindByAccountIdContaining(peer, cursor, limit)
    IN  {Answer(page, UserCursor(Copies(peer, page), page, limit))}

-----------------------------------------------------------------------------
(* Counts *)

\* Pending rows either way whose other side is active.
CountRequest(peer) ==
    Cardinality({u \in DOMAIN peer : peer[u].active /\ peer[u].mine = "PENDING"})
        + Cardinality({u \in DOMAIN peer : peer[u].active /\ peer[u].theirs = "PENDING"})

\* Mutant: friends who have withdrawn are counted.
FriendCountOfAll(peer) ==
    Cardinality({u \in DOMAIN peer : peer[u].mine = "ACCEPTED"})
        + Cardinality({u \in DOMAIN peer : peer[u].theirs = "ACCEPTED"})

\* findDetailById counts rows, not users.
FriendCount(peer) ==
    Cardinality({u \in DOMAIN peer : peer[u].active /\ peer[u].mine = "ACCEPTED"})
        + Cardinality({u \in DOMAIN peer : peer[u].active /\ peer[u].theirs = "ACCEPTED"})

=============================================================================
