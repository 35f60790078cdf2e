-------------------------------- MODULE Groups --------------------------------
(***************************************************************************)
(* Groups and their members: GroupsService and GroupReportsWriteService    *)
(* over the tables group and group_participation.  No statement of theirs  *)
(* holds a lock while it asks for another, so a transaction is one step.   *)
(* Who is a friend of whom is SocialGraph's: here the check of friends may *)
(* pass for any users.                                                     *)
(***************************************************************************)
EXTENDS Naturals, FiniteSets

CONSTANTS
    User,         \* users
    GroupId,      \* ids a group may get: a bound on groups ever made
    Request,      \* HTTP requests in flight at a time
    MemberLimit,  \* 10 in the code
    None          \* "no value"

ASSUME GroupsAssumption ==
    /\ IsFiniteSet(User) /\ IsFiniteSet(Request)
    /\ MemberLimit \in Nat \ {0}
    /\ None \notin User \cup GroupId

VARIABLES
    owner,    \* owner[g]: who made the group g, None if nobody has yet
    deleted,  \* the groups deleted again
    member,   \* member[<<g, u>>]: status of u's row for g, or "NONE"
    req       \* req[r]: the next statement of request r, with its locals

vars == <<owner, deleted, member, req>>

Row == GroupId \X User
Idle == [pc |-> "idle", group |-> None, users |-> {}]

RequestState ==
    [pc : {"idle", "countMembers", "saveMembers", "leave", "delete"},
     group : GroupId \cup {None}, users : SUBSET User]

\* Rows and requests are well formed.
TypeOK ==
    /\ owner \in [GroupId -> User \cup {None}]
    /\ deleted \subseteq GroupId
    /\ member \in [Row -> {"NONE", "ACCEPTED", "REPORTED"}]
    /\ req \in [Request -> RequestState]

Init ==
    /\ owner = [g \in GroupId |-> None]
    /\ deleted = {}
    /\ member = [p \in Row |-> "NONE"]
    /\ req = [r \in Request |-> Idle]

\* findOneByGroupAndOwnerId
Owns(u, g) == owner[g] = u /\ g \notin deleted

\* countMember: the owner is one of them, who has reported the group is not.
Members(g) == {u \in User : member[<<g, u>>] = "ACCEPTED"}

Begin(r, pc, g, users) ==
    /\ req[r].pc = "idle"
    /\ req' = [req EXCEPT ![r] = [pc |-> pc, group |-> g, users |-> users]]
    /\ UNCHANGED <<owner, deleted, member>>

Finish(r) == req' = [req EXCEPT ![r] = Idle]

-----------------------------------------------------------------------------
(* GroupsService *)

\* createTransaction: the group, its owner and one to MemberLimit friends, all
\* rows with fresh keys.  A list naming somebody twice, or the owner, violates
\* the unique index on (group_id, participant_id) and leaves nothing.
CreateGroup(u, friends, g) ==
    /\ Cardinality(friends) \in 1..MemberLimit /\ u \notin friends
    /\ owner[g] = None
    /\ \A p \in Row : p[1] = g => member[p] = "NONE"
    /\ \A r \in Request : req[r].group # g
    /\ owner' = [owner EXCEPT ![g] = u]
    /\ member' = [p \in Row |->
            IF p[1] = g /\ p[2] \in friends \cup {u} THEN "ACCEPTED" ELSE member[p]]
    /\ UNCHANGED <<deleted, req>>

\* addMembers, up to checkExisting: none of the users has a row.  Neither the
\* group nor the inviter is looked at.
AddMembers(r, g, users) ==
    /\ Cardinality(users) \in 1..(MemberLimit - 1)
    /\ \A u \in users : member[<<g, u>>] = "NONE"
    /\ Begin(r, "countMembers", g, users)

\* Mutant: forgets the users to be added.
CountBeforeAdding(r) ==
    LET g == req[r].group
    IN  /\ req[r].pc = "countMembers"
        /\ IF Cardinality(Members(g)) > MemberLimit
           THEN Finish(r)
           ELSE req' = [req EXCEPT ![r].pc = "saveMembers"]
        /\ UNCHANGED <<owner, deleted, member>>

\* checkMemberCount
CheckMemberCount(r) ==
    LET g == req[r].group
    IN  /\ req[r].pc = "countMembers"
        /\ IF Cardinality(Members(g)) + Cardinality(req[r].users) > MemberLimit
           THEN Finish(r)
           ELSE req' = [req EXCEPT ![r].pc = "saveMembers"]
        /\ UNCHANGED <<owner, deleted, member>>

\* Mutant: replaces the rows that exist.
UpsertMembers(r) ==
    /\ req[r].pc = "saveMembers"
    /\ member' = [p \in Row |->
            IF p[1] = req[r].group /\ p[2] \in req[r].users THEN "ACCEPTED" ELSE member[p]]
    /\ Finish(r)
    /\ UNCHANGED <<owner, deleted>>

\* createMany: one insert; a row with one of its keys by now refuses it all.
SaveMembers(r) ==
    LET added == {req[r].group} \X req[r].users
    IN  /\ req[r].pc = "saveMembers"
        /\ \/ /\ \A p \in added : member[p] = "NONE"
              /\ member' = [p \in Row |-> IF p \in added THEN "ACCEPTED" ELSE member[p]]
           \/ (\E p \in added : member[p] # "NONE") /\ UNCHANGED member
        /\ Finish(r)
        /\ UNCHANGED <<owner, deleted>>

\* Mutant: everybody may leave.
AnyoneLeaves(r, u, g) == Begin(r, "leave", g, {u})

\* leaveGroup: no group that exists is the user's own.
LeaveGroup(r, u, g) ==
    /\ ~Owns(u, g)
    /\ Begin(r, "leave", g, {u})

\* Mutant: the row is only marked.
MarkMember(r) ==
    /\ req[r].pc = "leave"
    /\ member' = [p \in Row |->
            IF p[1] = req[r].group /\ p[2] \in req[r].users THEN "DELETED" ELSE member[p]]
    /\ Finish(r)
    /\ UNCHANGED <<owner, deleted>>

\* The row is deleted by its key; without it, P2025 and nothing changes.
DeleteMember(r) ==
    /\ req[r].pc = "leave"
    /\ member' = [p \in Row |->
            IF p[1] = req[r].group /\ p[2] \in req[r].users THEN "NONE" ELSE member[p]]
    /\ Finish(r)
    /\ UNCHANGED <<owner, deleted>>

DeleteGroup(r, u, g) ==
    /\ Owns(u, g)
    /\ Begin(r, "delete", g, {})

\* relationMode = "prisma": Prisma deletes the group's rows of members with it,
\* in one transaction (and takes the group's id out of its gatherings).  If the
\* statement fails, or the group is gone, the error is swallowed.
DeleteCascade(r) ==
    LET g == req[r].group
    IN  /\ req[r].pc = "delete"
        /\ \/ /\ deleted' = deleted \cup {g}
              /\ member' = [p \in Row |->
                    IF p[1] = g /\ g \notin deleted THEN "NONE" ELSE member[p]]
           \/ UNCHANGED <<deleted, member>>
        /\ Finish(r)
        /\ UNCHANGED owner

\* GroupReportsWriteService.report: without a row of the reporter the report is
\* rolled back.
ReportGroup(u, g) ==
    /\ member[<<g, u>>] # "NONE"
    /\ member' = [member EXCEPT ![<<g, u>>] = "REPORTED"]
    /\ UNCHANGED <<owner, deleted, req>>

\* A request fails or the process stops: its next statement is never sent.
Vanish(r) ==
    /\ req[r].pc # "idle"
    /\ Finish(r)
    /\ UNCHANGED <<owner, deleted, member>>

-----------------------------------------------------------------------------

Next ==
    \/ \E u \in User, g \in GroupId :
        \/ \E friends \in SUBSET User : CreateGroup(u, friends, g)
        \/ ReportGroup(u, g)
    \/ \E r \in Request, g \in GroupId :
        \/ \E users \in SUBSET User : AddMembers(r, g, users)
        \/ \E u \in User : LeaveGroup(r, u, g) \/ DeleteGroup(r, u, g)
    \/ \E r \in Request :
        \/ CheckMemberCount(r)
        \/ SaveMembers(r)
        \/ DeleteMember(r)
        \/ DeleteCascade(r)
        \/ Vanish(r)

Spec == Init /\ [][Next]_vars

-----------------------------------------------------------------------------

\* A group has its owner among its members as long as it exists: he cannot leave
\* it, nor can a stale leave or deletion take him out.
OwnerStays ==
    \A g \in GroupId :
        owner[g] # None /\ g \notin deleted => member[<<g, owner[g]>>] # "NONE"

\* Nobody who has reported a group is made a member again while his row is there,
\* not even by an invitation that was checked before he joined and reported.
ReportersStayOut ==
    [][\A p \in Row : member[p] = "REPORTED" => member'[p] # "ACCEPTED"]_vars

\* What a creation adds beyond the limit, or the other requests in flight, each of
\* which inserts all but one of the limit at most.
Overshoot ==
    LET overlap == (Cardinality(Request) - 1) * (MemberLimit - 1)
    IN  IF overlap > 1 THEN overlap ELSE 1

\* The limit can be exceeded by one at creation, and by what requests that have
\* overlapped with the last one to pass the check may add: no more piles up.
OvershootBounded == \A g \in GroupId : Cardinality(Members(g)) <= MemberLimit + Overshoot

\* "A group has ten members at most", its owner not counted.
MembersWithinLimit ==
    \A g \in GroupId :
        owner[g] # None /\ g \notin deleted
            => Cardinality(Members(g) \ {owner[g]}) <= MemberLimit

=============================================================================
