---------------------------- MODULE GroupsProofs ----------------------------
(***************************************************************************)
(* Theorems about Groups: types, and that no request, however stale, makes *)
(* a group lose its owner or lets back in who reported it.                 *)
(***************************************************************************)
EXTENDS Groups, FiniteSetTheorems, TLAPS

\* A request in flight is about some group.
RequestsHaveGroup == \A r \in Request : req[r].pc # "idle" => req[r].group \in GroupId

\* A request about to delete somebody's row does not delete the owner's of a
\* group that exists: leaveGroup looked when the group was already what it is.
LeavesAreNotOwners ==
    \A r \in Request, g \in GroupId :
        req[r].pc = "leave" /\ req[r].group = g /\ g \notin deleted
            => owner[g] \notin req[r].users

IInv == TypeOK /\ RequestsHaveGroup /\ LeavesAreNotOwners /\ OwnerStays

\* Rows of another group, or of other users, keep their keys apart.
LEMMA RowKeys ==
    \A g \in GroupId, u \in User :
        <<g, u>> \in Row /\ <<g, u>>[1] = g /\ <<g, u>>[2] = u
  BY DEF Row

\* The empty tables satisfy the invariant.
LEMMA InitHolds == Init => IInv
  BY DEF Init, IInv, TypeOK, OwnerStays, RequestsHaveGroup, LeavesAreNotOwners, Idle,
         RequestState

\* Every step keeps the types.
LEMMA TypeStep == TypeOK /\ RequestsHaveGroup /\ [Next]_vars => TypeOK'
  <1> SUFFICES ASSUME TypeOK, RequestsHaveGroup, [Next]_vars PROVE TypeOK'
    OBVIOUS
  <1> USE DEF TypeOK, RequestState, Row
  <1>1. ASSUME NEW u \in User, NEW g \in GroupId,
               NEW friends \in SUBSET User, CreateGroup(u, friends, g)
        PROVE  TypeOK'
    BY <1>1 DEF CreateGroup
  <1>2. ASSUME NEW u \in User, NEW g \in GroupId, ReportGroup(u, g)
        PROVE  TypeOK'
    BY <1>2 DEF ReportGroup
  <1>3. ASSUME NEW r \in Request, NEW g \in GroupId, NEW users \in SUBSET User,
               NEW pc \in {"countMembers", "leave", "delete"}, Begin(r, pc, g, users)
        PROVE  TypeOK'
    BY <1>3 DEF Begin
  <1>4. ASSUME NEW r \in Request, CheckMemberCount(r)
        PROVE  TypeOK'
    BY <1>4 DEF CheckMemberCount, Finish, Idle
  <1>5. ASSUME NEW r \in Request, SaveMembers(r)
        PROVE  TypeOK'
    BY <1>5 DEF SaveMembers, Finish, Idle
  <1>6. ASSUME NEW r \in Request, DeleteMember(r)
        PROVE  TypeOK'
    BY <1>6 DEF DeleteMember, Finish, Idle
  <1>7. ASSUME NEW r \in Request, DeleteCascade(r)
        PROVE  TypeOK'
    <2>1. req[r].group \in GroupId
      BY <1>7 DEF DeleteCascade, RequestsHaveGroup
    <2>2. QED
      BY <1>7, <2>1 DEF DeleteCascade, Finish, Idle
  <1>8. ASSUME NEW r \in Request, Vanish(r)
        PROVE  TypeOK'
    BY <1>8 DEF Vanish, Finish, Idle
  <1>9. CASE UNCHANGED vars
    BY <1>9 DEF vars
  <1>10. QED
    BY <1>1, <1>2, <1>3, <1>4, <1>5, <1>6, <1>7, <1>8, <1>9
       DEF Next, AddMembers, LeaveGroup, DeleteGroup

\* Every request stays about the group it arrived for, until it is answered.
LEMMA RequestsHaveGroupStep == IInv /\ [Next]_vars => RequestsHaveGroup'
  <1> SUFFICES ASSUME TypeOK, RequestsHaveGroup, [Next]_vars PROVE RequestsHaveGroup'
    BY DEF IInv
  <1> USE DEF TypeOK, RequestState, RequestsHaveGroup
  <1>1. ASSUME NEW r \in Request, NEW g \in GroupId, NEW users \in SUBSET User,
               NEW pc \in {"countMembers", "leave", "delete"}, Begin(r, pc, g, users)
        PROVE  RequestsHaveGroup'
    BY <1>1 DEF Begin
  <1>2. ASSUME NEW r \in Request, Finish(r) \/ CheckMemberCount(r)
        PROVE  RequestsHaveGroup'
    BY <1>2 DEF CheckMemberCount, Finish, Idle
  <1>3. CASE UNCHANGED req
    BY <1>3
  <1>4. QED
    BY <1>1, <1>2, <1>3
       DEF Next, vars, AddMembers, LeaveGroup, DeleteGroup, CreateGroup, ReportGroup,
           SaveMembers, DeleteMember, DeleteCascade, Vanish

\* A group gets its owner once, when no request is about it, and nobody owns a
\* group he was not the owner of when he asked to leave.
LEMMA LeavesAreNotOwnersStep == IInv /\ [Next]_vars => LeavesAreNotOwners'
  <1> SUFFICES ASSUME TypeOK, LeavesAreNotOwners, [Next]_vars PROVE LeavesAreNotOwners'
    BY DEF IInv
  <1> USE DEF TypeOK, RequestState, LeavesAreNotOwners
  <1>1. ASSUME NEW u \in User, NEW g \in GroupId,
               NEW friends \in SUBSET User, CreateGroup(u, friends, g)
        PROVE  LeavesAreNotOwners'
    BY <1>1 DEF CreateGroup
  <1>2. ASSUME NEW r \in Request, NEW u \in User, NEW g \in GroupId, LeaveGroup(r, u, g)
        PROVE  LeavesAreNotOwners'
    BY <1>2 DEF LeaveGroup, Begin, Owns
  <1>3. ASSUME NEW r \in Request, NEW g \in GroupId, NEW users \in SUBSET User,
               NEW pc \in {"countMembers", "delete"}, Begin(r, pc, g, users)
        PROVE  LeavesAreNotOwners'
    BY <1>3 DEF Begin
  <1>4. ASSUME NEW r \in Request, Finish(r) \/ CheckMemberCount(r), UNCHANGED owner,
               deleted \subseteq deleted'
        PROVE  LeavesAreNotOwners'
    BY <1>4 DEF CheckMemberCount, Finish, Idle
  <1>5. CASE UNCHANGED <<owner, deleted, req>>
    BY <1>5
  <1>6. QED
    BY <1>1, <1>2, <1>3, <1>4, <1>5
       DEF Next, vars, AddMembers, DeleteGroup, ReportGroup, CheckMemberCount, SaveMembers,
           DeleteMember, DeleteCascade, Vanish

\* No step takes the owner's row out of a group that exists.
LEMMA OwnerStaysStep == IInv /\ [Next]_vars => OwnerStays'
  <1> SUFFICES ASSUME IInv, [Next]_vars PROVE OwnerStays'
    OBVIOUS
  <1> USE DEF IInv, TypeOK, RequestState, OwnerStays
  <1>1. ASSUME NEW u \in User, NEW g \in GroupId,
               NEW friends \in SUBSET User, CreateGroup(u, friends, g)
        PROVE  OwnerStays'
    BY <1>1, RowKeys, GroupsAssumption DEF CreateGroup
  <1>2. ASSUME NEW u \in User, NEW g \in GroupId, ReportGroup(u, g)
        PROVE  OwnerStays'
    BY <1>2, RowKeys DEF ReportGroup
  <1>3. ASSUME NEW r \in Request, SaveMembers(r)
        PROVE  OwnerStays'
    BY <1>3, RowKeys DEF SaveMembers
  <1>4. ASSUME NEW r \in Request, DeleteMember(r)
        PROVE  OwnerStays'
    BY <1>4, RowKeys DEF DeleteMember, LeavesAreNotOwners
  <1>5. ASSUME NEW r \in Request, DeleteCascade(r)
        PROVE  OwnerStays'
    BY <1>5, RowKeys DEF DeleteCascade
  <1>6. CASE UNCHANGED <<owner, deleted, member>>
    BY <1>6
  <1>7. QED
    BY <1>1, <1>2, <1>3, <1>4, <1>5, <1>6
       DEF Next, vars, AddMembers, LeaveGroup, DeleteGroup, Begin, CheckMemberCount, Vanish

\* A row of a member who has reported the group is deleted, or stays as it is: the
\* unique index keeps inserts away from it, and no statement sets ACCEPTED.
LEMMA ReportedStep ==
    ASSUME TypeOK, [Next]_vars, NEW p \in Row, member[p] = "REPORTED"
    PROVE  member'[p] # "ACCEPTED"
  <1>1. ASSUME NEW u \in User, NEW g \in GroupId,
               NEW friends \in SUBSET User, CreateGroup(u, friends, g)
        PROVE  member'[p] = member[p]
    BY <1>1 DEF CreateGroup
  <1>2. ASSUME NEW u \in User, NEW g \in GroupId, ReportGroup(u, g)
        PROVE  member'[p] = "REPORTED"
    BY <1>2 DEF ReportGroup, TypeOK
  <1>3. ASSUME NEW r \in Request, SaveMembers(r)
        PROVE  member'[p] = "REPORTED"
    BY <1>3 DEF SaveMembers
  <1>4. ASSUME NEW r \in Request, DeleteMember(r) \/ DeleteCascade(r)
        PROVE  member'[p] \in {"NONE", "REPORTED"}
    BY <1>4 DEF DeleteMember, DeleteCascade
  <1>5. CASE UNCHANGED member
    BY <1>5
  <1>6. QED
    BY <1>1, <1>2, <1>3, <1>4, <1>5
       DEF Next, vars, AddMembers, LeaveGroup, DeleteGroup, Begin, CheckMemberCount, Vanish

\* An insert on its way has one to MemberLimit - 1 rows.
InsertsAreSmall ==
    \A r \in Request : req[r].pc \in {"countMembers", "saveMembers"} =>
        Cardinality(req[r].users) \in 1..(MemberLimit - 1)

\* The requests that have passed the check and not inserted yet.
Saving(g) == {r \in Request : req[r].pc = "saveMembers" /\ req[r].group = g}

\* Even if all of them insert, one of them counted the members before the others.
RoomForAll(g) ==
    \E r \in Saving(g) :
        Cardinality(Members(g)) + Cardinality(req[r].users)
            + (Cardinality(Saving(g)) - 1) * (MemberLimit - 1) <= MemberLimit + Overshoot
OvershootInv ==
    OvershootBounded /\ \A g \in GroupId : Saving(g) # {} => RoomForAll(g)

\* Every insert stays as small as AddMembers has found it.
LEMMA InsertsAreSmallStep ==
    ASSUME TypeOK, InsertsAreSmall, [Next]_vars PROVE InsertsAreSmall'
  <1> USE DEF TypeOK, InsertsAreSmall, RequestState
  <1>1. ASSUME NEW r \in Request, NEW g \in GroupId, NEW users \in SUBSET User,
               AddMembers(r, g, users)
        PROVE  InsertsAreSmall'
    BY <1>1 DEF AddMembers, Begin
  <1>2. ASSUME NEW r \in Request, NEW g \in GroupId, NEW users \in SUBSET User,
               NEW pc \in {"leave", "delete"}, Begin(r, pc, g, users)
        PROVE  InsertsAreSmall'
    BY <1>2 DEF Begin
  <1>3. ASSUME NEW r \in Request, Finish(r) \/ CheckMemberCount(r)
        PROVE  InsertsAreSmall'
    BY <1>3 DEF CheckMemberCount, Finish, Idle
  <1>4. CASE UNCHANGED req
    BY <1>4
  <1>5. QED
    BY <1>1, <1>2, <1>3, <1>4
       DEF Next, vars, LeaveGroup, DeleteGroup, CreateGroup, ReportGroup,
           SaveMembers, DeleteMember, DeleteCascade, Vanish

\* The arithmetic of room: m members, s inserts of at most k rows, one with w.
LEMMA RoomLeft ==
    ASSUME NEW m \in Nat, NEW n \in Nat, NEW u \in Nat, NEW w \in Nat, NEW s \in Nat,
           NEW k \in Nat, NEW b \in Nat, s >= 2,
           u <= k, n <= m + u, m + w + (s - 1) * k <= b
    PROVE  n <= b /\ n + w + (s - 2) * k <= b
  <1>1. (s - 1) * k = (s - 2) * k + k /\ (s - 2) * k >= 0
    OBVIOUS
  <1>2. QED
    BY <1>1

\* An overlap of as many inserts as there are other requests is allowed for.
LEMMA OvershootIsRoom ==
    LET k == MemberLimit - 1
        c == Cardinality(Request)
    IN  /\ c \in Nat /\ k \in Nat /\ Overshoot \in Nat /\ Overshoot >= 1
        /\ \A s \in Nat : s <= c /\ s >= 1 => (s - 1) * k <= Overshoot
  <1> DEFINE k == MemberLimit - 1
             c == Cardinality(Request)
  <1>1. c \in Nat /\ k \in Nat
    BY GroupsAssumption, FS_CardinalityType
  <1>2. (c - 1) * k \in Int
    BY <1>1
  <1>3. Overshoot = IF (c - 1) * k > 1 THEN (c - 1) * k ELSE 1
    BY DEF Overshoot
  <1>4. Overshoot \in Nat /\ Overshoot >= 1 /\ Overshoot >= (c - 1) * k
    BY <1>2, <1>3
  <1> HIDE DEF k, c
  <1>5. ASSUME NEW s \in Nat, s <= c, s >= 1 PROVE (s - 1) * k <= (c - 1) * k
    BY <1>1, <1>5
  <1>6. ASSUME NEW s \in Nat, s <= c, s >= 1 PROVE (s - 1) * k <= Overshoot
    <2>1. (s - 1) * k \in Int
      BY <1>1
    <2>2. QED
      BY <1>2, <1>4, <1>5, <1>6, <2>1
  <1>7. QED
    BY <1>1, <1>4, <1>6 DEF k, c

\* What a step does to the members of a group and to the inserts on their way: no
\* more of either, a check that has counted them, a creation, or an insert.
LEMMA GroupSteps ==
    ASSUME TypeOK, RequestsHaveGroup, [Next]_vars, NEW g \in GroupId
    PROVE  \/ /\ Members(g)' \subseteq Members(g)
              /\ Saving(g)' = Saving(g) /\ \A r \in Saving(g) : req'[r] = req[r]
           \/ \E r \in Request \ Saving(g) :
                /\ CheckMemberCount(r) /\ req[r].group = g
                /\ Cardinality(Members(g)) + Cardinality(req[r].users) <= MemberLimit
                /\ req'[r].users = req[r].users
                /\ Saving(g)' = Saving(g) \cup {r} /\ Members(g)' = Members(g)
           \/ \E u \in User, friends \in SUBSET User :
                /\ Cardinality(friends) \in 1..MemberLimit
                /\ Members(g)' \subseteq friends \cup {u}
                /\ Saving(g)' = {}
           \/ \E r \in Saving(g) :
                /\ Saving(g)' = Saving(g) \ {r}
                /\ Members(g)' \subseteq Members(g) \cup req[r].users
                /\ \A q \in Saving(g) \ {r} : req'[q] = req[q]
  <1> DEFINE Goal ==
           \/ /\ Members(g)' \subseteq Members(g)
              /\ Saving(g)' = Saving(g) /\ \A r \in Saving(g) : req'[r] = req[r]
           \/ \E r \in Saving(g) :
                /\ Saving(g)' = Saving(g) \ {r}
                /\ Members(g)' \subseteq Members(g) \cup req[r].users
                /\ \A q \in Saving(g) \ {r} : req'[q] = req[q]
  <1> USE DEF TypeOK, RequestState
  <1>1. ASSUME NEW r \in Request, Finish(r), Members(g)' \subseteq Members(g) PROVE Goal
    BY <1>1 DEF Finish, Idle, Saving
  <1>2. ASSUME NEW r \in Request, NEW h \in GroupId, NEW users \in SUBSET User,
               NEW pc \in {"countMembers", "leave", "delete"}, Begin(r, pc, h, users)
        PROVE  Goal
    BY <1>2 DEF Begin, Saving, Members
  <1>3. ASSUME NEW u \in User, NEW h \in GroupId, ReportGroup(u, h) PROVE Goal
    <2>1. Members(g)' \subseteq Members(g)
      BY <1>3, RowKeys DEF ReportGroup, Members
    <2>2. QED
      BY <1>3, <2>1 DEF ReportGroup, Saving
  <1>4. ASSUME NEW r \in Request, DeleteMember(r) \/ DeleteCascade(r) PROVE Goal
    <2>1. Members(g)' \subseteq Members(g)
      BY <1>4, RowKeys DEF DeleteMember, DeleteCascade, Members
    <2>2. QED
      BY <1>1, <1>4, <2>1 DEF DeleteMember, DeleteCascade
  <1>5. ASSUME NEW r \in Request, Vanish(r) PROVE Goal
    BY <1>1, <1>5 DEF Vanish, Members
  <1>6. ASSUME NEW r \in Request, SaveMembers(r) PROVE Goal
    <2>1. req[r].group # g => Members(g)' \subseteq Members(g)
      BY <1>6, RowKeys DEF SaveMembers, Members
    <2>2. req[r].group = g => Members(g)' \subseteq Members(g) \cup req[r].users
      BY <1>6, RowKeys DEF SaveMembers, Members
    <2>3. Finish(r) /\ req[r].pc = "saveMembers"
      BY <1>6 DEF SaveMembers
    <2>4. req[r].group = g => r \in Saving(g) /\ Saving(g)' = Saving(g) \ {r}
                            /\ \A q \in Saving(g) \ {r} : req'[q] = req[q]
      BY <2>3 DEF Finish, Idle, Saving
    <2>5. QED
      BY <1>1, <2>1, <2>2, <2>3, <2>4
  <1>7. CASE UNCHANGED vars
    BY <1>7 DEF vars, Members, Saving
  <1>8. ASSUME NEW r \in Request, CheckMemberCount(r)
        PROVE  \/ Goal
               \/ /\ r \notin Saving(g) /\ req[r].group = g
                  /\ Cardinality(Members(g)) + Cardinality(req[r].users) <= MemberLimit
                  /\ req'[r].users = req[r].users
                  /\ Saving(g)' = Saving(g) \cup {r} /\ Members(g)' = Members(g)
    <2>1. Members(g)' = Members(g)
      BY <1>8 DEF CheckMemberCount, Members
    <2>2. CASE Finish(r)
      BY <1>1, <2>1, <2>2
    <2>3. CASE /\ req' = [req EXCEPT ![r].pc = "saveMembers"]
               /\ ~(Cardinality(Members(req[r].group)) + Cardinality(req[r].users) > MemberLimit)
      <3>1. /\ req'[r].users = req[r].users /\ req'[r].group = req[r].group
            /\ req'[r].pc = "saveMembers" /\ req[r].pc = "countMembers"
            /\ \A q \in Request \ {r} : req'[q] = req[q]
        BY <1>8, <2>3 DEF CheckMemberCount
      <3>2. CASE req[r].group = g
        <4>1. Cardinality(Members(g)) \in Nat /\ Cardinality(req[r].users) \in Nat
          BY GroupsAssumption, FS_Subset, FS_CardinalityType DEF Members
        <4>2. Cardinality(Members(g)) + Cardinality(req[r].users) <= MemberLimit
          BY <2>3, <3>2, <4>1, GroupsAssumption
        <4>3. QED
          BY <2>1, <3>1, <3>2, <4>2 DEF Saving
      <3>3. CASE req[r].group # g
        BY <2>1, <3>1, <3>3 DEF Saving
      <3>4. QED
        BY <3>2, <3>3
    <2>4. QED
      BY <1>8, <2>2, <2>3 DEF CheckMemberCount
  <1>9. ASSUME NEW u \in User, NEW h \in GroupId, NEW friends \in SUBSET User,
               CreateGroup(u, friends, h)
        PROVE  \/ Goal
               \/ /\ Cardinality(friends) \in 1..MemberLimit
                  /\ Members(g)' \subseteq friends \cup {u}
                  /\ Saving(g)' = {}
    <2>1. CASE h = g
      BY <1>9, <2>1, RowKeys DEF CreateGroup, Members, Saving
    <2>2. CASE h # g
      BY <1>9, <2>2, RowKeys DEF CreateGroup, Members, Saving
    <2>3. QED
      BY <2>1, <2>2
  <1>10. QED
    BY <1>2, <1>3, <1>4, <1>5, <1>6, <1>7, <1>8, <1>9
       DEF Next, AddMembers, LeaveGroup, DeleteGroup

\* The number of members stays within the limit and the overshoot, and there stays
\* room for the inserts on their way.
LEMMA OvershootStep ==
    ASSUME TypeOK, RequestsHaveGroup, InsertsAreSmall, OvershootInv, [Next]_vars
    PROVE  OvershootInv'
  <1> DEFINE k == MemberLimit - 1
             b == MemberLimit + Overshoot
             Fits(g) == /\ Cardinality(Members(g)) <= b
                        /\ Saving(g) # {} => RoomForAll(g)
  <1> SUFFICES ASSUME NEW g \in GroupId PROVE Fits(g)'
    BY DEF OvershootInv, OvershootBounded
  <1>1. k \in Nat /\ b \in Nat /\ MemberLimit \in Nat /\ Overshoot \in Nat /\ Overshoot >= 1
    BY OvershootIsRoom, GroupsAssumption
  <1>2. /\ IsFiniteSet(Members(g)) /\ Cardinality(Members(g)) \in Nat
        /\ IsFiniteSet(Members(g)') /\ Cardinality(Members(g)') \in Nat
    BY GroupsAssumption, FS_Subset, FS_CardinalityType DEF Members
  <1>3. /\ Saving(g) \subseteq Request
        /\ IsFiniteSet(Saving(g)) /\ Cardinality(Saving(g)) \in Nat
    BY GroupsAssumption, FS_Subset, FS_CardinalityType DEF Saving
  <1>4. \A r \in Saving(g) :
            /\ req[r].users \subseteq User /\ IsFiniteSet(req[r].users)
            /\ Cardinality(req[r].users) \in Nat /\ Cardinality(req[r].users) <= k
    <2> TAKE r \in Saving(g)
    <2>1. req[r].users \subseteq User /\ Cardinality(req[r].users) \in 1..(MemberLimit - 1)
      BY DEF TypeOK, RequestState, InsertsAreSmall, Saving
    <2>2. QED
      BY <1>1, <2>1, GroupsAssumption, FS_Subset
  <1>5. Fits(g)
    BY DEF OvershootInv, OvershootBounded
  <1>6. CASE /\ Members(g)' \subseteq Members(g)
             /\ Saving(g)' = Saving(g) /\ \A r \in Saving(g) : req'[r] = req[r]
    <2>1. Cardinality(Members(g)') <= Cardinality(Members(g))
      BY <1>2, <1>6, FS_Subset
    <2>2. ASSUME NEW r \in Saving(g),
                 Cardinality(Members(g)) + Cardinality(req[r].users)
                    + (Cardinality(Saving(g)) - 1) * k <= b
          PROVE  Cardinality(Members(g)') + Cardinality(req'[r].users)
                    + (Cardinality(Saving(g)') - 1) * k <= b
      <3>1. (Cardinality(Saving(g)) - 1) * k \in Int
        BY <1>1, <1>3
      <3>2. req'[r] = req[r] /\ Cardinality(Saving(g)') = Cardinality(Saving(g))
        BY <1>6
      <3>3. QED
        BY <1>1, <1>2, <1>4, <2>1, <2>2, <3>1, <3>2
    <2>3. Saving(g) # {} => RoomForAll(g)'
      BY <1>5, <1>6, <2>2 DEF RoomForAll
    <2>4. QED
      BY <1>1, <1>2, <1>5, <1>6, <2>1, <2>3
  <1>7. ASSUME NEW r \in Request \ Saving(g),
               Cardinality(Members(g)) + Cardinality(req[r].users) <= MemberLimit,
               req'[r].users = req[r].users,
               Saving(g)' = Saving(g) \cup {r}, Members(g)' = Members(g)
        PROVE  Fits(g)'
    <2>1. Cardinality(Saving(g)') \in Nat /\ Cardinality(Saving(g)') >= 1
          /\ Cardinality(Saving(g)') <= Cardinality(Request)
      <3>1. IsFiniteSet(Saving(g)') /\ Saving(g)' \subseteq Request /\ Saving(g)' # {}
        BY <1>3, <1>7, GroupsAssumption, FS_Subset
      <3>2. Cardinality(Saving(g)') # 0
        BY <3>1, FS_EmptySet
      <3>3. QED
        BY <3>1, <3>2, GroupsAssumption, FS_Subset, FS_CardinalityType
    <2>2. (Cardinality(Saving(g)') - 1) * k <= Overshoot
      BY <2>1, OvershootIsRoom
    <2>3. (Cardinality(Saving(g)') - 1) * k \in Int
      BY <1>1, <2>1
    <2>4. Cardinality(req[r].users) \in Nat
      BY GroupsAssumption, FS_Subset, FS_CardinalityType DEF TypeOK, RequestState
    <2>5. RoomForAll(g)'
      <3>1. Cardinality(Members(g)') + Cardinality(req'[r].users)
                + (Cardinality(Saving(g)') - 1) * k <= b
        BY <1>1, <1>2, <1>7, <2>2, <2>3, <2>4
      <3>2. QED
        BY <1>7, <3>1 DEF RoomForAll
    <2>6. QED
      BY <1>5, <1>7, <2>5
  <1>8. ASSUME NEW u \in User, NEW friends \in SUBSET User,
               Cardinality(friends) \in 1..MemberLimit,
               Members(g)' \subseteq friends \cup {u}, Saving(g)' = {}
        PROVE  Fits(g)'
    <2>1. IsFiniteSet(friends)
      BY GroupsAssumption, FS_Subset
    <2>2. /\ IsFiniteSet(friends \cup {u})
          /\ Cardinality(friends \cup {u}) =
                IF u \in friends THEN Cardinality(friends) ELSE Cardinality(friends) + 1
      BY <2>1, FS_AddElement
    <2>3. Cardinality(Members(g)') <= Cardinality(friends \cup {u})
      BY <1>8, <2>2, FS_Subset
    <2>4. QED
      BY <1>1, <1>2, <1>8, <2>2, <2>3
  <1>9. ASSUME NEW r \in Saving(g),
               Saving(g)' = Saving(g) \ {r},
               Members(g)' \subseteq Members(g) \cup req[r].users,
               \A q \in Saving(g) \ {r} : req'[q] = req[q]
        PROVE  Fits(g)'
    <2> DEFINE m == Cardinality(Members(g))
               n == Cardinality(Members(g)')
               s == Cardinality(Saving(g))
               w(q) == Cardinality(req[q].users)
    <2>1. n <= m + w(r) /\ m \in Nat /\ n \in Nat
      <3>1. /\ IsFiniteSet(Members(g) \cup req[r].users)
            /\ Cardinality(Members(g) \cup req[r].users) <= m + w(r)
            /\ Cardinality(Members(g) \cup req[r].users) \in Nat
        <4>1. IsFiniteSet(req[r].users) /\ w(r) \in Nat
          BY <1>4
        <4>2. /\ IsFiniteSet(Members(g) \cup req[r].users)
              /\ Cardinality(Members(g) \cup req[r].users) =
                    m + w(r) - Cardinality(Members(g) \cap req[r].users)
          BY <1>2, <4>1, FS_Union
        <4>3. Cardinality(Members(g) \cap req[r].users) \in Nat
          BY <1>2, FS_Subset, FS_CardinalityType
        <4>4. QED
          BY <1>2, <4>1, <4>2, <4>3, FS_CardinalityType
      <3>2. n <= Cardinality(Members(g) \cup req[r].users)
        BY <1>9, <3>1, FS_Subset
      <3>3. QED
        BY <1>2, <1>4, <3>1, <3>2
    <2>2. s \in Nat /\ s >= 1 /\ Cardinality(Saving(g)') = s - 1
      <3>1. Cardinality(Saving(g) \ {r}) = s - 1 /\ IsFiniteSet(Saving(g) \ {r})
        BY <1>3, FS_RemoveElement
      <3>2. QED
        BY <1>3, <1>9, <3>1, FS_CardinalityType
    <2>3. PICK v \in Saving(g) : m + w(v) + (s - 1) * k <= b
      BY <1>5 DEF RoomForAll
    <2>4. w(v) \in Nat /\ w(r) \in Nat /\ w(v) <= k /\ w(r) <= k
      BY <1>4
    <2>5. CASE Saving(g)' = {}
      <3>1. v = r /\ s = 1
        <4>1. Cardinality(Saving(g)') = 0 /\ Saving(g) \ {r} = {}
          BY <1>9, <2>5, FS_EmptySet
        <4> HIDE DEF s
        <4>2. QED
          BY <2>2, <2>3, <4>1
      <3>2. m + w(r) <= b
        BY <1>1, <2>1, <2>3, <2>4, <3>1
      <3>3. QED
        BY <1>1, <2>1, <2>4, <2>5, <3>2
    <2>6. CASE Saving(g)' # {}
      <3>1. PICK q \in Saving(g)' : v # r => q = v
        BY <1>9, <2>6
      <3>2. q \in Saving(g) /\ q # r /\ req'[q] = req[q] /\ w(q) \in Nat /\ w(q) <= k
        BY <1>4, <1>9, <3>1
      <3>3. s >= 2
        <4>1. IsFiniteSet(Saving(g)') /\ Cardinality(Saving(g)') # 0
          BY <1>3, <1>9, <3>1, FS_Subset, FS_EmptySet
        <4>2. QED
          BY <2>2, <4>1
      <3>4. n <= b /\ n + w(q) + (s - 2) * k <= b
        <4> HIDE DEF m, n, s, w, k, b
        <4>1. CASE v = r
          <5>1. w(q) <= k /\ m + w(q) + w(r) + (s - 2) * k <= b
            <6>1. (s - 1) * k = (s - 2) * k + k /\ (s - 2) * k \in Nat
              BY <1>1, <2>2, <3>3
            <6>2. QED
              BY <1>1, <2>1, <2>3, <2>4, <3>2, <4>1, <6>1
          <5>2. (s - 2) * k \in Nat
            BY <1>1, <2>2, <3>3
          <5>3. QED
            BY <1>1, <2>1, <2>4, <3>2, <5>1, <5>2
        <4>2. CASE v # r
          BY <1>1, <2>1, <2>2, <2>3, <2>4, <3>1, <3>3, <4>2, RoomLeft
        <4>3. QED
          BY <4>1, <4>2
      <3>5. RoomForAll(g)'
        <4>1. Cardinality(Members(g)') + Cardinality(req'[q].users)
                + (Cardinality(Saving(g)') - 1) * k <= b
          BY <2>1, <2>2, <3>2, <3>4
        <4>2. QED
          BY <3>1, <4>1 DEF RoomForAll
      <3>6. QED
        BY <3>4, <3>5
    <2>7. QED
      BY <2>5, <2>6
  <1>10. QED
    BY <1>6, <1>7, <1>8, <1>9, GroupSteps

\* Types and the owner's row are kept by every reachable state.
THEOREM Invariance == Spec => []IInv
  <1>1. IInv /\ [Next]_vars => IInv'
    BY TypeStep, RequestsHaveGroupStep, LeavesAreNotOwnersStep, OwnerStaysStep DEF IInv
  <1>2. QED
    BY InitHolds, <1>1, PTL DEF Spec

\* Rows and requests stay well formed, whatever requests overlap.
THEOREM TypesHold == Spec => []TypeOK
  <1>1. IInv => TypeOK
    BY DEF IInv
  <1>2. QED
    BY <1>1, Invariance, PTL

\* However late a leave or a deletion runs, a group that exists has its owner's row.
THEOREM OwnerHolds == Spec => []OwnerStays
  <1>1. IInv => OwnerStays
    BY DEF IInv
  <1>2. QED
    BY <1>1, Invariance, PTL

\* However many requests overlap, one round of them is all that exceeds the limit.
THEOREM OvershootHolds == Spec => []OvershootBounded
  <1>1. Init => InsertsAreSmall /\ OvershootInv
    <2> SUFFICES ASSUME Init PROVE InsertsAreSmall /\ OvershootInv
      OBVIOUS
    <2>1. InsertsAreSmall
      BY DEF Init, Idle, InsertsAreSmall
    <2>2. \A g \in GroupId : Members(g) = {} /\ Saving(g) = {}
      BY DEF Init, Idle, Members, Saving, Row
    <2>3. Cardinality({}) = 0 /\ MemberLimit + Overshoot \in Nat
      BY FS_EmptySet, OvershootIsRoom, GroupsAssumption
    <2>4. QED
      BY <2>1, <2>2, <2>3 DEF OvershootInv, OvershootBounded
  <1>2. IInv /\ InsertsAreSmall /\ OvershootInv /\ [Next]_vars
            => InsertsAreSmall' /\ OvershootInv'
    BY InsertsAreSmallStep, OvershootStep DEF IInv
  <1>3. OvershootInv => OvershootBounded
    BY DEF OvershootInv
  <1>4. QED
    BY <1>1, <1>2, <1>3, Invariance, PTL DEF Spec

\* However late an invitation that was checked is written, it does not bring
\* back a member who has reported the group.
THEOREM ReportersHold == Spec => ReportersStayOut
  <1>1. TypeOK /\ [Next]_vars
            => [\A p \in Row : member[p] = "REPORTED" => member'[p] # "ACCEPTED"]_vars
    BY ReportedStep
  <1>2. QED
    BY <1>1, TypesHold, PTL DEF Spec, ReportersStayOut

=============================================================================
