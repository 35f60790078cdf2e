--------------------------- MODULE SocialGraphProofs ---------------------------
(***************************************************************************)
(* SocialGraph's safety, for any number of users, requests and ids, and    *)
(* that it implements InvitationContract.                                  *)
(***************************************************************************)
EXTENDS SocialGraphInv, TLAPS

(* Types: what each step does to the requests in flight and to their transactions,
   and that every step keeps the rows well typed. *)

\* The requests' steps by what they are about, with no nesting left.
LEMMA NextCases ==
    ASSUME Next
    PROVE  \/ \E r \in Request, u, v \in User :
                \/ RequestFriend(r, u, v)
                \/ AcceptFriend(r, u, v)
                \/ RejectFriend(r, u, v)
                \/ Unfriend(r, u, v)
                \/ ReportFriend(r, u, v)
           \/ \E r \in Request, u \in User, g \in GatheringId :
                \/ \E invitees \in SUBSET User : CreateFriendGathering(r, u, g, invitees)
                \/ CreateGroupGathering(r, u, g)
                \/ AcceptInvitation(r, u, g)
                \/ RejectInvitation(r, u, g)
                \/ DeleteGathering(r, u, g)
           \/ \E r \in Request :
                \/ SaveFriend(r)
                \/ UpdateFriend(r)
                \/ DeleteFriend(r)
                \/ UnfriendStatement(r)
                \/ ReportStatement(r)
                \/ \E v \in User : CheckInvitee(r, v)
                \/ SaveGathering(r)
                \/ AnswerInvitation(r)
                \/ DropStatement(r)
                \/ Commit(r)
                \/ Rollback(r)
           \/ \E g \in GatheringId : EndGathering(g)
           \/ Crash
  BY DEF Next, FriendshipArrival, InvitationArrival, Progress, FriendshipStep,
         InvitationStep, ReportRefused, DeadlockVictim, Timeout

-----------------------------------------------------------------------------
(* Types *)

TypeInv == TypeOK /\ ArgumentsOK

\* The rows a statement names are rows of its table.
LEMMA QueriesTyped ==
    /\ \A u, v : RowsBetween(u, v) \subseteq FriendId /\ SameKey(u, v) \subseteq FriendId
    /\ \A u, v : PendingBetween(u, v) \subseteq GatheringId \X User
    /\ \A g : RowsOfGathering(g) \subseteq GatheringId \X User
  BY DEF RowsBetween, SameKey, PendingBetween, RowsOfGathering

GatheringRow ==
    [host : User, type : {"FRIEND", "GROUP"}, ended : BOOLEAN, deleted : BOOLEAN]

\* A row that exists stays a row when it ends or is deleted.
LEMMA GatheringRowUpdates ==
    ASSUME TypeOK, NEW g \in GatheringId, gathering[g].host # None
    PROVE  /\ [gathering[g] EXCEPT !.deleted = TRUE] \in GatheringRow
           /\ [gathering[g] EXCEPT !.ended = TRUE] \in GatheringRow
  <1>1. gathering[g] \in GatheringRow
    <2>1. gathering[g] \in GatheringRow \cup {NoGathering}
      BY DEF TypeOK, GatheringRow
    <2>2. NoGathering.host = None
      BY DEF NoGathering
    <2>3. QED
      BY <2>1, <2>2
  <1>2. QED
    BY <1>1 DEF GatheringRow

\* A statement of a transaction keeps the types when it writes rows of its
\* tables and its next step is one of a transaction.
LEMMA ExecuteTyped ==
    ASSUME TypeInv, NEW r \in Request, NEW W \in SUBSET Write, NEW next \in Steps,
           Execute(r, W, next),
           next \in UserSteps => req[r].pc \in UserSteps,
           next \in GatheringSteps => req[r].pc \in GatheringSteps,
           next # "acceptFriend"
    PROVE  TypeInv'
  <1>1. req \in [Request -> RequestState] /\ req' = [req EXCEPT ![r].pc = next]
    BY DEF TypeInv, TypeOK, Execute
  <1>2. /\ req' \in [Request -> RequestState]
        /\ \A q \in Request :
            /\ req'[q].pc = IF q = r THEN next ELSE req[q].pc
            /\ req'[q].user = req[q].user /\ req'[q].peer = req[q].peer
            /\ req'[q].gathering = req[q].gathering /\ req'[q].row = req[q].row
    BY <1>1 DEF RequestState
  <1>3. TypeOK'
    BY <1>2 DEF TypeInv, TypeOK, tables, Execute
  <1>4. ArgumentsOK'
    BY <1>2 DEF TypeInv, ArgumentsOK
  <1>5. QED
    BY <1>3, <1>4 DEF TypeInv

\* Answering a request keeps the types.
LEMMA FinishTyped ==
    ASSUME TypeInv, NEW r \in Request, Finish(r)
    PROVE  /\ ArgumentsOK'
           /\ req' \in [Request -> RequestState]
  BY DEF Finish, Idle, TypeInv, TypeOK, ArgumentsOK, GatheringSteps, CreatingSteps, UserSteps,
         Steps, TransactionSteps, RequestState

\* Every step of every handler keeps the types.
LEMMA TypeStep == TypeInv /\ DroppedExist /\ [Next]_vars => TypeInv'
  <1> SUFFICES ASSUME TypeInv, DroppedExist, [Next]_vars PROVE TypeInv'
    OBVIOUS
  <1>1. ASSUME NEW r \in Request, NEW u \in User, NEW v \in User,
               \/ RequestFriend(r, u, v)
               \/ AcceptFriend(r, u, v)
               \/ RejectFriend(r, u, v)
               \/ Unfriend(r, u, v)
               \/ ReportFriend(r, u, v)
        PROVE  TypeInv'
    <2>1. PICK step \in [pc : {"saveFriend", "acceptFriend", "rejectFriend", "unfriendRows",
                               "reportInvitations"},
                         user : {u}, peer : {v}, gathering : {None},
                         row : FriendId \cup {None}, invitees : {{}}, todo : {{}}] :
                /\ req' = [req EXCEPT ![r] = step]
                /\ step.pc = "acceptFriend" => step.row \in FriendId
                /\ UNCHANGED <<tables, pending>>
      BY <1>1, Zenon
         DEF RequestFriend, AcceptFriend, RejectFriend, Unfriend,
             ReportFriend, ReadPendingRequest, ReadAcceptedFriend, Begin, About, Idle, RowsBetween
    <2> QED
      BY <2>1
         DEF TypeInv, TypeOK, ArgumentsOK, tables,
             RequestState, Steps, TransactionSteps, GatheringSteps, CreatingSteps, UserSteps
  <1>2. ASSUME NEW r \in Request, NEW u \in User, NEW g \in GatheringId,
               \/ \E invitees \in SUBSET User : CreateFriendGathering(r, u, g, invitees)
               \/ CreateGroupGathering(r, u, g)
               \/ AcceptInvitation(r, u, g)
               \/ RejectInvitation(r, u, g)
               \/ DeleteGathering(r, u, g)
        PROVE  TypeInv'
    <2>1. PICK step \in [pc : {"checkInvitees", "saveGroupGathering", "acceptInvitation",
                               "rejectInvitation", "dropGathering"},
                         user : {u}, peer : {None}, gathering : {g}, row : {None},
                         invitees : SUBSET User, todo : SUBSET User] :
                req' = [req EXCEPT ![r] = step] /\ UNCHANGED <<tables, pending>>
      BY <1>2, StoreAssumption, Zenon
         DEF CreateFriendGathering, CreateGroupGathering, AcceptInvitation, RejectInvitation,
             DeleteGathering, ReadInvitation, Begin, Idle
    <2> QED
      BY <2>1
         DEF TypeInv, TypeOK, ArgumentsOK, tables,
             RequestState, Steps, TransactionSteps, GatheringSteps, CreatingSteps, UserSteps
  <1>3. ASSUME NEW r \in Request, SaveFriend(r) \/ UpdateFriend(r) \/ DeleteFriend(r)
        PROVE  TypeInv'
    <2>1. friend' \in [FriendId ->
            [sender : User, receiver : User, status : {"PENDING", "ACCEPTED"}] \cup {NoFriend}]
      BY <1>3, SMTT(30) DEF TypeInv, TypeOK, ArgumentsOK, UserSteps, SaveFriend, UpdateFriend, DeleteFriend,
                  NoFriend
    <2>2. Finish(r) /\ UNCHANGED <<gathering, participation, report, blocked, pending>>
      BY <1>3 DEF SaveFriend, UpdateFriend, DeleteFriend
    <2>3. QED
      BY <2>1, <2>2, FinishTyped DEF TypeInv, TypeOK
  <1>4. ASSUME NEW r \in Request, UnfriendStatement(r) \/ ReportStatement(r) \/ DropStatement(r)
        PROVE  TypeInv'
    <2>1. /\ FriendLocks(r) \subseteq Write
          /\ InvitationLocks(r) \subseteq Write
          /\ req[r].pc = "dropInvitations" =>
                {"participation"} \X RowsOfGathering(req[r].gathering) \subseteq Write
      BY QueriesTyped DEF FriendLocks, InvitationLocks, Write
    <2>2. CASE UnfriendStatement(r)
      BY <2>1, <2>2, ExecuteTyped
         DEF UnfriendStatement, UserSteps, GatheringSteps, CreatingSteps, Steps, TransactionSteps
    <2>3. CASE ReportStatement(r)
      <3>1. CASE req[r].pc = "reportSave"
        <4>1. <<"report", ReportedPair(r)>> \in Write
          BY <3>1 DEF ReportedPair, Write, TypeInv, ArgumentsOK, UserSteps
        <4>2. /\ req \in [Request -> RequestState]
              /\ req' = [req EXCEPT ![r].pc = "reportBlock"]
              /\ pending' = [pending EXCEPT ![r] = @ \cup {<<"report", ReportedPair(r)>>}]
              /\ UNCHANGED tables
          BY <2>3, <3>1 DEF ReportStatement, Execute, TypeInv, TypeOK
        <4>3. /\ req' \in [Request -> RequestState]
              /\ \A q \in Request :
                    /\ req'[q].pc = IF q = r THEN "reportBlock" ELSE req[q].pc
                    /\ req'[q].user = req[q].user /\ req'[q].peer = req[q].peer
                    /\ req'[q].gathering = req[q].gathering /\ req'[q].row = req[q].row
          BY <4>2 DEF RequestState, Steps, TransactionSteps
        <4>4. TypeOK'
          BY <4>1, <4>2, <4>3 DEF TypeInv, TypeOK, tables
        <4>5. ArgumentsOK'
          BY <3>1, <4>3 DEF TypeInv, ArgumentsOK, UserSteps, GatheringSteps, CreatingSteps
        <4>6. QED
          BY <4>4, <4>5 DEF TypeInv
      <3>2. CASE req[r].pc # "reportSave"
        <4>1. {"reportBlock", "reportRows", "commit", "reportSave"} \subseteq Steps
          BY DEF Steps, TransactionSteps
        <4>2. "commit" \notin UserSteps /\ "reportRows" \in UserSteps /\ "reportSave" \in UserSteps
              /\ {"reportRows", "reportSave", "commit"} \cap GatheringSteps = {}
          BY DEF UserSteps, GatheringSteps, CreatingSteps
        <4>3. CASE req[r].pc = "reportInvitations"
          <5>1. Execute(r, InvitationLocks(r), "reportSave") /\ req[r].pc \in UserSteps
            BY <2>3, <4>3 DEF ReportStatement, UserSteps
          <5>2. QED
            BY <2>1, <4>1, <4>2, <5>1, ExecuteTyped
        <4>4. CASE req[r].pc = "reportBlock"
          <5>1. {<<"blocked", ReportedPair(r)>>} \subseteq Write /\ req[r].pc \in UserSteps
            BY <4>4 DEF ReportedPair, Write, TypeInv, ArgumentsOK, UserSteps
          <5>2. Execute(r, {<<"blocked", ReportedPair(r)>>}, "reportRows")
            BY <2>3, <4>4 DEF ReportStatement
          <5>3. QED
            BY <4>1, <4>2, <5>1, <5>2, ExecuteTyped
        <4>5. CASE req[r].pc = "reportRows"
          <5>1. Execute(r, FriendLocks(r), "commit")
            BY <2>3, <4>5 DEF ReportStatement
          <5>2. QED
            BY <2>1, <4>1, <4>2, <5>1, ExecuteTyped
        <4>6. QED
          BY <2>3, <3>2, <4>3, <4>4, <4>5 DEF ReportStatement
      <3>3. QED
        BY <3>1, <3>2
    <2>4. CASE DropStatement(r)
      BY <2>1, <2>4, ExecuteTyped
         DEF DropStatement, UserSteps, GatheringSteps, CreatingSteps, Steps, TransactionSteps,
             Write, TypeInv, ArgumentsOK
    <2>5. QED
      BY <1>4, <2>2, <2>3, <2>4
  <1>5. ASSUME NEW r \in Request, NEW v \in User, CheckInvitee(r, v)
        PROVE  TypeInv'
    <2>1. UNCHANGED <<tables, pending>>
      BY <1>5 DEF CheckInvitee
    <2>2. CASE Finish(r)
      BY <2>1, <2>2, FinishTyped DEF TypeInv, TypeOK, tables
    <2>3. CASE ~Finish(r)
      <3>1. PICK step \in RequestState :
                /\ req' = [req EXCEPT ![r] = step]
                /\ step.pc \in {"checkInvitees", "saveFriendGathering"}
                /\ step.user \in User /\ step.gathering \in GatheringId
        <4>1. req \in [Request -> RequestState] /\ req[r].pc = "checkInvitees"
          BY <1>5 DEF CheckInvitee, TypeInv, TypeOK
        <4>2. req[r].user \in User /\ req[r].gathering \in GatheringId
          BY <4>1 DEF TypeInv, ArgumentsOK, GatheringSteps, CreatingSteps
        <4>3. CASE req' = [req EXCEPT ![r].todo = req[r].todo \ {v}]
          <5>1. [req[r] EXCEPT !.todo = req[r].todo \ {v}] \in RequestState
            BY <4>1 DEF RequestState
          <5>2. QED
            BY <4>1, <4>2, <4>3, <5>1 DEF RequestState
        <4>4. CASE req' = [req EXCEPT ![r] =
                        [Idle EXCEPT !.pc = "saveFriendGathering",
                                     !.user = req[r].user,
                                     !.gathering = req[r].gathering,
                                     !.invitees = req[r].invitees \cup {req[r].user}]]
          <5> DEFINE step == [Idle EXCEPT !.pc = "saveFriendGathering",
                                          !.user = req[r].user,
                                          !.gathering = req[r].gathering,
                                          !.invitees = req[r].invitees \cup {req[r].user}]
          <5>1. req[r].invitees \subseteq User
            BY <4>1 DEF RequestState
          <5>2. /\ step \in RequestState
                /\ step.pc = "saveFriendGathering"
                /\ step.user = req[r].user /\ step.gathering = req[r].gathering
            BY <4>2, <5>1 DEF RequestState, Idle, Steps
          <5>3. req' = [req EXCEPT ![r] = step]
            BY <4>4
          <5>4. QED
            BY <4>2, <5>2, <5>3
        <4>5. QED
          BY <1>5, <2>3, <4>3, <4>4 DEF CheckInvitee
      <3>2. QED
        BY <2>1, <3>1
           DEF TypeInv, TypeOK, ArgumentsOK, tables, UserSteps
    <2>4. QED
      BY <2>2, <2>3
  <1>6. ASSUME NEW r \in Request, SaveGathering(r)
        PROVE  TypeInv'
    <2>1. /\ gathering' \in [GatheringId ->
                [host : User, type : {"FRIEND", "GROUP"}, ended : BOOLEAN, deleted : BOOLEAN]
                    \cup {NoGathering}]
          /\ participation' \in [GatheringId \X User -> {"NONE", "PENDING", "ACCEPTED"}]
      BY <1>6 DEF SaveGathering, TypeInv, TypeOK, ArgumentsOK, GatheringSteps, CreatingSteps
    <2>2. QED
      BY <1>6, <2>1, FinishTyped DEF SaveGathering, TypeInv, TypeOK
  <1>7. ASSUME NEW r \in Request, AnswerInvitation(r)
        PROVE  TypeInv'
    <2>1. participation' \in [GatheringId \X User -> {"NONE", "PENDING", "ACCEPTED"}]
      BY <1>7 DEF AnswerInvitation, TypeInv, TypeOK, ArgumentsOK, GatheringSteps
    <2>2. QED
      BY <1>7, <2>1, FinishTyped DEF AnswerInvitation, TypeInv, TypeOK
  <1>8. ASSUME NEW r \in Request, Commit(r)
        PROVE  TypeInv'
    <2>1. gathering' \in [GatheringId ->
            [host : User, type : {"FRIEND", "GROUP"}, ended : BOOLEAN, deleted : BOOLEAN]
                \cup {NoGathering}]
      <3>1. \A g \in GatheringId : <<"gathering", g>> \in pending[r] =>
                [gathering[g] EXCEPT !.deleted = TRUE] \in GatheringRow
        BY GatheringRowUpdates DEF TypeInv, DroppedExist
      <3>2. gathering \in [GatheringId -> GatheringRow \cup {NoGathering}]
        BY DEF TypeInv, TypeOK, GatheringRow
      <3>3. gathering' = [g \in GatheringId |->
                IF <<"gathering", g>> \in pending[r]
                THEN [gathering[g] EXCEPT !.deleted = TRUE] ELSE gathering[g]]
        BY <1>8 DEF Commit
      <3>4. gathering' \in [GatheringId -> GatheringRow \cup {NoGathering}]
        BY <3>1, <3>2, <3>3
      <3>5. QED
        BY <3>4 DEF GatheringRow
    <2>2. friend' \in [FriendId ->
            [sender : User, receiver : User, status : {"PENDING", "ACCEPTED"}] \cup {NoFriend}]
      BY <1>8 DEF Commit, TypeInv, TypeOK
    <2>3. participation' \in [GatheringId \X User -> {"NONE", "PENDING", "ACCEPTED"}]
      BY <1>8 DEF Commit, TypeInv, TypeOK
    <2>4. report' \in [User \X User -> Nat]
      BY <1>8 DEF Commit, TypeInv, TypeOK
    <2>5. blocked' \subseteq User \X User
      BY <1>8 DEF Commit, TypeInv, TypeOK
    <2>6. pending' \in [Request -> SUBSET Write]
      BY <1>8 DEF Commit, TypeInv, TypeOK
    <2>7. ArgumentsOK' /\ req' \in [Request -> RequestState]
      BY <1>8, FinishTyped DEF Commit
    <2>8. QED
      BY <2>1, <2>2, <2>3, <2>4, <2>5, <2>6, <2>7 DEF TypeInv, TypeOK
  <1>9. ASSUME NEW r \in Request, Rollback(r)
        PROVE  TypeInv'
    BY <1>9, FinishTyped DEF Rollback, tables, TypeInv, TypeOK
  <1>10. ASSUME NEW g \in GatheringId, EndGathering(g)
         PROVE  TypeInv'
    <2>1. gathering' \in [GatheringId ->
            [host : User, type : {"FRIEND", "GROUP"}, ended : BOOLEAN, deleted : BOOLEAN]
                \cup {NoGathering}]
      <3>1. [gathering[g] EXCEPT !.ended = TRUE] \in GatheringRow
        BY <1>10, GatheringRowUpdates DEF EndGathering, Active, TypeInv
      <3>2. gathering \in [GatheringId -> GatheringRow \cup {NoGathering}]
        BY DEF TypeInv, TypeOK, GatheringRow
      <3>3. gathering' = [gathering EXCEPT ![g] = [gathering[g] EXCEPT !.ended = TRUE]]
        BY <1>10, <3>2 DEF EndGathering
      <3>4. gathering' \in [GatheringId -> GatheringRow \cup {NoGathering}]
        BY <3>1, <3>2, <3>3
      <3>5. QED
        BY <3>4 DEF GatheringRow
    <2>2. UNCHANGED <<friend, participation, report, blocked, pending, req>>
      BY <1>10 DEF EndGathering
    <2>3. TypeOK'
      BY <2>1, <2>2 DEF TypeInv, TypeOK
    <2>4. ArgumentsOK'
      BY <2>2 DEF TypeInv, ArgumentsOK
    <2>5. QED
      BY <2>3, <2>4 DEF TypeInv
  <1>11. CASE Crash
    BY <1>11 DEF Crash, Idle, tables, TypeInv, TypeOK, ArgumentsOK, RequestState, Steps,
                 GatheringSteps, CreatingSteps, UserSteps
  <1>12. CASE UNCHANGED vars
    BY <1>12 DEF vars, TypeInv, TypeOK, ArgumentsOK
  <1>13. QED
    BY <1>1, <1>2, <1>3, <1>4, <1>5, <1>6, <1>7, <1>8, <1>9, <1>10, <1>11, <1>12, NextCases

-----------------------------------------------------------------------------
(* What a step does to the requests and their transactions *)

Others(r) == Request \ {r}

\* A handler of friendships that has arrived: its next statement and the
\* arguments it reads, the other requests and the tables untouched.
LEMMA AfterFriendshipArrival ==
    ASSUME TypeOK, NEW r \in Request, NEW u \in User, NEW v \in User,
           \/ RequestFriend(r, u, v)
           \/ AcceptFriend(r, u, v)
           \/ RejectFriend(r, u, v)
           \/ Unfriend(r, u, v)
           \/ ReportFriend(r, u, v)
    PROVE  /\ UNCHANGED <<tables, pending>>
           /\ req[r].pc = "idle"
           /\ \A q \in Others(r) : req'[q] = req[q]
           /\ req'[r].pc \in {"saveFriend", "acceptFriend", "rejectFriend", "unfriendRows",
                              "reportInvitations"}
           /\ req'[r].gathering = None
  <1>1. PICK step \in [pc : {"saveFriend", "acceptFriend", "rejectFriend", "unfriendRows",
                             "reportInvitations"},
                       user : {u}, peer : {v}, gathering : {None},
                       row : FriendId \cup {None}, invitees : {{}}, todo : {{}}] :
              /\ req[r].pc = "idle"
              /\ req' = [req EXCEPT ![r] = step]
              /\ UNCHANGED <<tables, pending>>
    BY Zenon DEF RequestFriend, AcceptFriend, RejectFriend, Unfriend, ReportFriend,
                 ReadPendingRequest, ReadAcceptedFriend, Begin, About, Idle, RowsBetween
  <1>2. QED
    BY <1>1 DEF TypeOK, Others

\* The same for the handlers of gatherings; a gathering about to be created has
\* a fresh id.
LEMMA AfterInvitationArrival ==
    ASSUME TypeOK, NEW r \in Request, NEW u \in User, NEW g \in GatheringId,
           \/ \E invitees \in SUBSET User : CreateFriendGathering(r, u, g, invitees)
           \/ CreateGroupGathering(r, u, g)
           \/ AcceptInvitation(r, u, g)
           \/ RejectInvitation(r, u, g)
           \/ DeleteGathering(r, u, g)
    PROVE  /\ UNCHANGED <<tables, pending>>
           /\ req[r].pc = "idle"
           /\ \A q \in Others(r) : req'[q] = req[q]
           /\ req'[r].gathering = g /\ req'[r].user = u
           /\ \/ /\ req'[r].pc \in {"checkInvitees", "saveGroupGathering"}
                 /\ FreshGathering(g)
              \/ /\ req'[r].pc \in {"acceptInvitation", "rejectInvitation"}
                 /\ participation[<<g, u>>] # "NONE"
              \/ req'[r].pc = "dropGathering" /\ Active(g)
  <1>1. /\ UNCHANGED <<tables, pending>>
        /\ req[r].pc = "idle"
    BY Zenon DEF CreateFriendGathering, CreateGroupGathering, AcceptInvitation, RejectInvitation,
                 DeleteGathering, ReadInvitation, Begin
  <1>2. PICK step : /\ req' = [req EXCEPT ![r] = step]
                    /\ step.gathering = g /\ step.user = u
                    /\ \/ /\ step.pc \in {"checkInvitees", "saveGroupGathering"}
                          /\ FreshGathering(g)
                       \/ /\ step.pc \in {"acceptInvitation", "rejectInvitation"}
                          /\ participation[<<g, u>>] # "NONE"
                       \/ step.pc = "dropGathering" /\ Active(g)
    <2>1. CASE \E invitees \in SUBSET User : CreateFriendGathering(r, u, g, invitees)
      <3>0. PICK invitees \in SUBSET User : CreateFriendGathering(r, u, g, invitees)
        BY <2>1
      <3> DEFINE step == [Idle EXCEPT !.pc = "checkInvitees", !.user = u, !.gathering = g,
                                      !.invitees = invitees, !.todo = invitees]
      <3>1. step.gathering = g /\ step.user = u /\ step.pc = "checkInvitees"
        BY DEF Idle
      <3>2. req' = [req EXCEPT ![r] = step] /\ FreshGathering(g)
        BY <3>0 DEF CreateFriendGathering, Begin
      <3>3. QED
        BY <3>1, <3>2
    <2>2. CASE CreateGroupGathering(r, u, g)
      <3> DEFINE step == [Idle EXCEPT !.pc = "saveGroupGathering", !.user = u,
                                      !.gathering = g, !.invitees = GroupMember]
      <3>1. step.gathering = g /\ step.user = u /\ step.pc = "saveGroupGathering"
        BY DEF Idle
      <3>2. req' = [req EXCEPT ![r] = step] /\ FreshGathering(g)
        BY <2>2 DEF CreateGroupGathering, Begin
      <3>3. QED
        BY <3>1, <3>2
    <2>3. CASE AcceptInvitation(r, u, g)
      <3> DEFINE step == [Idle EXCEPT !.pc = "acceptInvitation", !.user = u, !.gathering = g]
      <3>1. step.gathering = g /\ step.user = u /\ step.pc = "acceptInvitation"
        BY DEF Idle
      <3>2. req' = [req EXCEPT ![r] = step] /\ participation[<<g, u>>] # "NONE"
        BY <2>3 DEF AcceptInvitation, ReadInvitation, Begin
      <3>3. QED
        BY <3>1, <3>2
    <2>4. CASE RejectInvitation(r, u, g)
      <3> DEFINE step == [Idle EXCEPT !.pc = "rejectInvitation", !.user = u, !.gathering = g]
      <3>1. step.gathering = g /\ step.user = u /\ step.pc = "rejectInvitation"
        BY DEF Idle
      <3>2. req' = [req EXCEPT ![r] = step] /\ participation[<<g, u>>] # "NONE"
        BY <2>4 DEF RejectInvitation, ReadInvitation, Begin
      <3>3. QED
        BY <3>1, <3>2
    <2>5. CASE DeleteGathering(r, u, g)
      <3> DEFINE step == [Idle EXCEPT !.pc = "dropGathering", !.user = u, !.gathering = g]
      <3>1. step.gathering = g /\ step.user = u /\ step.pc = "dropGathering"
        BY DEF Idle
      <3>2. req' = [req EXCEPT ![r] = step] /\ Active(g)
        BY <2>5 DEF DeleteGathering, Begin
      <3>3. QED
        BY <3>1, <3>2
    <2>6. QED
      BY <2>1, <2>2, <2>3, <2>4, <2>5
  <1>3. QED
    BY <1>1, <1>2 DEF TypeOK, Others

\* An answered request is idle; the others are as they were.
LEMMA AfterFinish ==
    ASSUME TypeOK, NEW r \in Request, Finish(r)
    PROVE  /\ \A q \in Others(r) : req'[q] = req[q]
           /\ req'[r].pc = "idle" /\ req'[r].gathering = None
  BY DEF TypeOK, Finish, Idle, Others

\* A checked invitee leaves the list of those to check, or the request fails.
LEMMA AfterCheckInvitee ==
    ASSUME TypeInv, NEW r \in Request, NEW v \in User, CheckInvitee(r, v)
    PROVE  /\ UNCHANGED <<tables, pending>>
           /\ req[r].pc = "checkInvitees"
           /\ \A q \in Others(r) : req'[q] = req[q]
           /\ \/ /\ req'[r].pc \in {"checkInvitees", "saveFriendGathering"}
                 /\ req'[r].gathering = req[r].gathering
              \/ req'[r].pc = "idle" /\ req'[r].gathering = None
  <1>1. UNCHANGED <<tables, pending>> /\ req[r].pc = "checkInvitees"
    BY DEF CheckInvitee
  <1>2. PICK step : /\ req' = [req EXCEPT ![r] = step]
                    /\ \/ /\ step.pc \in {"checkInvitees", "saveFriendGathering"}
                          /\ step.gathering = req[r].gathering
                       \/ step.pc = "idle" /\ step.gathering = None
    <2>1. CASE req' = [req EXCEPT ![r].todo = req[r].todo \ {v}]
      <3>1. req' = [req EXCEPT ![r] = [req[r] EXCEPT !.todo = req[r].todo \ {v}]]
        BY <2>1 DEF TypeInv, TypeOK
      <3>2. req[r] \in RequestState
        BY DEF TypeInv, TypeOK
      <3> DEFINE step == [req[r] EXCEPT !.todo = req[r].todo \ {v}]
      <3>3. step.pc = "checkInvitees" /\ step.gathering = req[r].gathering
        BY <1>1, <3>2 DEF RequestState
      <3>4. QED
        BY <3>1, <3>3
    <2>2. CASE req' = [req EXCEPT ![r] =
                  [Idle EXCEPT !.pc = "saveFriendGathering",
                               !.user = req[r].user,
                               !.gathering = req[r].gathering,
                               !.invitees = req[r].invitees \cup {req[r].user}]]
      <3> DEFINE step == [Idle EXCEPT !.pc = "saveFriendGathering",
                                      !.user = req[r].user,
                                      !.gathering = req[r].gathering,
                                      !.invitees = req[r].invitees \cup {req[r].user}]
      <3>1. step.pc = "saveFriendGathering" /\ step.gathering = req[r].gathering
        BY DEF Idle
      <3>2. req' = [req EXCEPT ![r] = step]
        BY <2>2
      <3>3. QED
        BY <3>1, <3>2
    <2>3. CASE Finish(r)
      <3>1. Idle.pc = "idle" /\ Idle.gathering = None
        BY DEF Idle
      <3>2. QED
        BY <2>3, <3>1 DEF Finish
    <2>4. QED
      BY <2>1, <2>2, <2>3 DEF CheckInvitee
  <1>3. QED
    BY <1>1, <1>2 DEF TypeInv, TypeOK, Others

\* A statement of a transaction adds its writes, which no other transaction
\* holds, and moves to the next statement.
LEMMA AfterExecute ==
    ASSUME TypeOK, NEW r \in Request, NEW W, NEW next,
           pending' = [pending EXCEPT ![r] = @ \cup W],
           req' = [req EXCEPT ![r].pc = next]
    PROVE  /\ \A q \in Others(r) : req'[q] = req[q] /\ pending'[q] = pending[q]
           /\ pending'[r] = pending[r] \cup W
           /\ req'[r].pc = next
           /\ req'[r].user = req[r].user /\ req'[r].peer = req[r].peer
           /\ req'[r].gathering = req[r].gathering
  <1>1. req \in [Request -> RequestState] /\ pending \in [Request -> SUBSET Write]
    BY DEF TypeOK
  <1>2. QED
    BY <1>1 DEF RequestState, Others

\* The statements of the three transactions, the writes each adds and the step
\* that follows it.
Statement(r, pc, W, next) ==
    /\ \/ pc = "unfriendRows" /\ W = FriendLocks(r) /\ next = "unfriendInvitations"
       \/ pc = "unfriendInvitations" /\ W = InvitationLocks(r) /\ next = "commit"
       \/ pc = "reportInvitations" /\ W = InvitationLocks(r) /\ next = "reportSave"
       \/ pc = "reportSave" /\ W = {<<"report", ReportedPair(r)>>} /\ next = "reportBlock"
       \/ /\ pc = "reportBlock" /\ W = {<<"blocked", ReportedPair(r)>>}
          /\ ReportedPair(r) \notin blocked /\ next = "reportRows"
       \/ pc = "reportRows" /\ W = FriendLocks(r) /\ next = "commit"
       \/ pc = "dropGathering" /\ W = {<<"gathering", req[r].gathering>>}
          /\ next = "dropInvitations"
       \/ /\ pc = "dropInvitations" /\ next = "commit"
          /\ W = {"participation"} \X RowsOfGathering(req[r].gathering)
    /\ pc # "reportSave" => Unlocked(r, W)

\* Which statement of which transaction runs, what it writes and what follows.
LEMMA AfterStatement ==
    ASSUME TypeOK, NEW r \in Request, UnfriendStatement(r) \/ ReportStatement(r) \/ DropStatement(r)
    PROVE  \E W, next :
              /\ Statement(r, req[r].pc, W, next)
              /\ UNCHANGED tables
              /\ \A q \in Others(r) : req'[q] = req[q] /\ pending'[q] = pending[q]
              /\ pending'[r] = pending[r] \cup W
              /\ req'[r].pc = next
              /\ req'[r].user = req[r].user /\ req'[r].peer = req[r].peer
              /\ req'[r].gathering = req[r].gathering
  <1>1. PICK W, next :
              /\ Statement(r, req[r].pc, W, next)
              /\ UNCHANGED tables
              /\ pending' = [pending EXCEPT ![r] = @ \cup W]
              /\ req' = [req EXCEPT ![r].pc = next]
    BY Zenon DEF UnfriendStatement, ReportStatement, DropStatement, Execute, Statement
  <1>2. QED
    BY <1>1, AfterExecute, ZenonT(60)

\* A rolled back transaction leaves no write and no lock, and its request is idle.
LEMMA AfterRollback ==
    ASSUME TypeOK, NEW r \in Request, Rollback(r)
    PROVE  /\ UNCHANGED tables
           /\ \A q \in Others(r) : req'[q] = req[q] /\ pending'[q] = pending[q]
           /\ pending'[r] = {}
           /\ req'[r].pc = "idle" /\ req'[r].gathering = None
  BY AfterFinish DEF Rollback, TypeOK, Others

-----------------------------------------------------------------------------
(* The inductive invariant *)

\* The empty tables satisfy the invariant.
LEMMA InitHolds == Init => IInv
  BY DEF Init, IInv, TypeOK, TransactionsConsistent, ReportsMatchBlocks, ArgumentsOK, DroppedExist,
         WritesInTransactions, WritesExclude, ReportsInFlight, GatheringsInFlight,
         InvitationsInFlight, InvitationsHaveGathering, Idle, NoFriend, NoGathering,
         RequestState, Steps, TransactionSteps, GatheringSteps, CreatingSteps, UserSteps,
         tables

\* What a step does to the transactions: it is a step of a request outside of
\* one, or one statement, or the end of one or of all.
Outside(r) ==
    /\ UNCHANGED <<pending, report, blocked>>
    /\ req[r].pc \notin TransactionSteps
    /\ \A q \in Others(r) : req'[q] = req[q]
    /\ req'[r].pc \notin
            TransactionSteps \ {"unfriendRows", "reportInvitations", "dropGathering"}
Inside(r) ==
    \E W, next :
        /\ Statement(r, req[r].pc, W, next)
        /\ UNCHANGED tables
        /\ \A q \in Others(r) : req'[q] = req[q] /\ pending'[q] = pending[q]
        /\ pending'[r] = pending[r] \cup W
        /\ req'[r].pc = next
        /\ req'[r].user = req[r].user /\ req'[r].peer = req[r].peer
        /\ req'[r].gathering = req[r].gathering
Ended(r) ==
    /\ \A q \in Others(r) : req'[q] = req[q] /\ pending'[q] = pending[q]
    /\ pending'[r] = {}
    /\ req'[r].pc = "idle" /\ req'[r].gathering = None

\* The steps by what they do to the uncommitted writes: leave them, drop those of
\* some requests, or add those of one statement.
LEMMA TransactionShapes ==
    ASSUME IInv, [Next]_vars
    PROVE  \/ \E r \in Request : Outside(r) \/ Inside(r)
           \/ \E r \in Request : Ended(r) /\ (Commit(r) \/ UNCHANGED tables)
           \/ UNCHANGED <<pending, req, report, blocked>>
           \/ /\ \A r \in Request : pending'[r] = {} /\ req'[r] = Idle
              /\ UNCHANGED tables
  <1> USE DEF Outside, Ended
  <1>0. TypeInv /\ TypeOK
    BY DEF IInv, TransactionsConsistent, TypeInv
  <1>1. ASSUME NEW r \in Request, NEW u \in User, NEW v \in User,
               \/ RequestFriend(r, u, v)
               \/ AcceptFriend(r, u, v)
               \/ RejectFriend(r, u, v)
               \/ Unfriend(r, u, v)
               \/ ReportFriend(r, u, v)
        PROVE  Outside(r)
    BY <1>0, <1>1, AfterFriendshipArrival DEF TransactionSteps, tables
  <1>2. ASSUME NEW r \in Request, NEW u \in User, NEW g \in GatheringId,
               \/ \E invitees \in SUBSET User : CreateFriendGathering(r, u, g, invitees)
               \/ CreateGroupGathering(r, u, g)
               \/ AcceptInvitation(r, u, g)
               \/ RejectInvitation(r, u, g)
               \/ DeleteGathering(r, u, g)
        PROVE  Outside(r)
    BY <1>0, <1>2, AfterInvitationArrival DEF TransactionSteps, tables
  <1>3. ASSUME NEW r \in Request,
               \/ SaveFriend(r)
               \/ UpdateFriend(r)
               \/ DeleteFriend(r)
               \/ SaveGathering(r)
               \/ AnswerInvitation(r)
        PROVE  Outside(r)
    BY <1>0, <1>3, AfterFinish
       DEF SaveFriend, UpdateFriend, DeleteFriend, SaveGathering, AnswerInvitation,
           TransactionSteps
  <1>4. ASSUME NEW r \in Request, UnfriendStatement(r) \/ ReportStatement(r) \/ DropStatement(r)
        PROVE  Inside(r)
    BY <1>0, <1>4, AfterStatement DEF Inside
  <1>5. ASSUME NEW r \in Request, NEW v \in User, CheckInvitee(r, v)
        PROVE  Outside(r)
    BY <1>0, <1>5, AfterCheckInvitee DEF TransactionSteps, tables
  <1>6. ASSUME NEW r \in Request, Commit(r)
        PROVE  Ended(r)
    BY <1>0, <1>6, AfterFinish DEF Commit, TypeOK, Others
  <1>7. ASSUME NEW r \in Request, Rollback(r)
        PROVE  Ended(r) /\ UNCHANGED tables
    BY <1>0, <1>7, AfterRollback
  <1>8. ASSUME NEW g \in GatheringId, EndGathering(g)
        PROVE  UNCHANGED <<pending, req, report, blocked>>
    BY <1>8 DEF EndGathering
  <1>9. CASE Crash
    BY <1>9 DEF Crash
  <1>10. CASE UNCHANGED vars
    BY <1>10 DEF vars
  <1>11. QED
    BY <1>1, <1>2, <1>3, <1>4, <1>5, <1>6, <1>7, <1>8, <1>9, <1>10, NextCases

-----------------------------------------------------------------------------
(* Transactions exclude one another *)

\* Only transactions have uncommitted writes.
LEMMA WritesInTransactionsStep == IInv /\ [Next]_vars => WritesInTransactions'
  <1> SUFFICES ASSUME IInv, [Next]_vars PROVE WritesInTransactions'
    OBVIOUS
  <1>1. WritesInTransactions
    BY DEF IInv, TransactionsConsistent
  <1>2. ASSUME NEW r \in Request, Outside(r) PROVE WritesInTransactions'
    BY <1>1, <1>2 DEF Outside, Others, WritesInTransactions
  <1>3. ASSUME NEW r \in Request, Inside(r) PROVE WritesInTransactions'
    BY <1>1, <1>3 DEF Inside, Statement, Others, WritesInTransactions, TransactionSteps
  <1>4. ASSUME NEW r \in Request, Ended(r) PROVE WritesInTransactions'
    BY <1>1, <1>4 DEF Ended, Others, WritesInTransactions
  <1>5. CASE UNCHANGED <<pending, req>>
    BY <1>1, <1>5 DEF WritesInTransactions
  <1>6. QED
    BY <1>2, <1>3, <1>4, <1>5, TransactionShapes DEF WritesInTransactions

\* The row locks keep two transactions from writing the same row.
LEMMA WritesExcludeStep == IInv /\ [Next]_vars => WritesExclude'
  <1> SUFFICES ASSUME IInv, [Next]_vars PROVE WritesExclude'
    OBVIOUS
  <1>1. WritesExclude
    BY DEF IInv, TransactionsConsistent
  <1>2. ASSUME NEW r \in Request, Outside(r) PROVE WritesExclude'
    BY <1>1, <1>2 DEF Outside, WritesExclude
  <1>3. ASSUME NEW r \in Request, Inside(r) PROVE WritesExclude'
    <2>1. PICK W : /\ \A q \in Others(r) : pending'[q] = pending[q]
                   /\ pending'[r] = pending[r] \cup W
                   /\ \A w \in W : w[1] = "report" \/ \A q \in Others(r) : w \notin pending[q]
      BY <1>3 DEF Inside, Statement, Unlocked, Others
    <2>2. QED
      BY <1>1, <2>1 DEF WritesExclude, Others
  <1>4. ASSUME NEW r \in Request, Ended(r) PROVE WritesExclude'
    BY <1>1, <1>4 DEF Ended, Others, WritesExclude
  <1>5. CASE UNCHANGED pending
    BY <1>1, <1>5 DEF WritesExclude
  <1>6. QED
    BY <1>2, <1>3, <1>4, <1>5, TransactionShapes DEF WritesExclude

-----------------------------------------------------------------------------
(* Reports and blocks *)

\* A transaction adds a report and its block together or not at all.
LEMMA ReportsInFlightStep == IInv /\ [Next]_vars => ReportsInFlight'
  <1> SUFFICES ASSUME IInv, [Next]_vars PROVE ReportsInFlight'
    OBVIOUS
  <1>1. ReportsInFlight /\ WritesInTransactions /\ WritesExclude
    BY DEF IInv, TransactionsConsistent
  <1>2. ASSUME NEW r \in Request, Outside(r) PROVE ReportsInFlight'
    BY <1>1, <1>2, ZenonT(60)
       DEF Outside, Others, ReportsInFlight, ReportedPair, WritesInTransactions, TransactionSteps
  <1>3. ASSUME NEW r \in Request, Inside(r) PROVE ReportsInFlight'
    <2>1. PICK W, next :
              /\ Statement(r, req[r].pc, W, next)
              /\ UNCHANGED tables
              /\ \A q \in Others(r) : req'[q] = req[q] /\ pending'[q] = pending[q]
              /\ pending'[r] = pending[r] \cup W
              /\ req'[r].pc = next
              /\ req'[r].user = req[r].user /\ req'[r].peer = req[r].peer
      BY <1>3 DEF Inside
    <2>2. /\ blocked' = blocked
          /\ ReportedPair(r)' = ReportedPair(r)
          /\ \A q \in Others(r) : ReportedPair(q)' = ReportedPair(q)
      BY <2>1 DEF tables, ReportedPair
    <2>3. \A p : /\ <<"report", p>> \in W <=> req[r].pc = "reportSave" /\ p = ReportedPair(r)
                 /\ <<"blocked", p>> \in W <=> req[r].pc = "reportBlock" /\ p = ReportedPair(r)
      BY <2>1 DEF Statement, FriendLocks, InvitationLocks
    <2>4. ASSUME NEW q \in Others(r), NEW p \in User \X User
          PROVE
            /\ <<"report", p>> \in pending'[q] =>
                /\ req'[q].pc \in {"reportBlock", "reportRows", "commit"}
                /\ req'[q].pc = "reportBlock" => p = ReportedPair(q)'
                /\ req'[q].pc # "reportBlock" => <<"blocked", p>> \in pending'[q]
            /\ req'[q].pc = "reportBlock" => <<"report", ReportedPair(q)'>> \in pending'[q]
            /\ <<"blocked", p>> \in pending'[q] => <<"report", p>> \in pending'[q] /\ p \notin blocked'
      <3>1. q \in Request /\ req'[q] = req[q] /\ pending'[q] = pending[q]
        BY <2>1 DEF Others
      <3>2. QED
        BY <1>1, <2>2, <3>1 DEF ReportsInFlight
    <2>5. ASSUME NEW p \in User \X User
          PROVE
            /\ <<"report", p>> \in pending'[r] =>
                /\ req'[r].pc \in {"reportBlock", "reportRows", "commit"}
                /\ req'[r].pc = "reportBlock" => p = ReportedPair(r)'
                /\ req'[r].pc # "reportBlock" => <<"blocked", p>> \in pending'[r]
            /\ req'[r].pc = "reportBlock" => <<"report", ReportedPair(r)'>> \in pending'[r]
            /\ <<"blocked", p>> \in pending'[r] => <<"report", p>> \in pending'[r] /\ p \notin blocked'
      BY <1>1, <2>1, <2>2, <2>3 DEF ReportsInFlight, Statement
    <2>6. QED
      BY <2>4, <2>5 DEF ReportsInFlight, Others
  <1>4. ASSUME NEW r \in Request, Ended(r), UNCHANGED tables PROVE ReportsInFlight'
    BY <1>1, <1>4, ZenonT(60) DEF Ended, Others, ReportsInFlight, ReportedPair, tables
  <1>5. ASSUME NEW r \in Request, Ended(r), Commit(r) PROVE ReportsInFlight'
    <2>1. \A q \in Others(r), p \in User \X User :
              <<"blocked", p>> \in pending[q] => p \notin blocked'
      <3> SUFFICES ASSUME NEW q \in Others(r), NEW p \in User \X User,
                          <<"blocked", p>> \in pending[q]
                   PROVE  p \notin blocked'
        OBVIOUS
      <3>1. q \in Request /\ q # r
        BY DEF Others
      <3>2. p \notin blocked
        BY <1>1, <3>1 DEF ReportsInFlight
      <3>3. <<"blocked", p>> \notin pending[r]
        <4>1. <<"blocked", p>> \in pending[r] => r = q \/ <<"blocked", p>>[1] = "report"
          BY <1>1, <3>1 DEF WritesExclude
        <4>2. QED
          BY <3>1, <4>1
      <3>4. blocked' = blocked \cup {x \in User \X User : <<"blocked", x>> \in pending[r]}
        BY <1>5 DEF Commit
      <3>5. QED
        BY <3>2, <3>3, <3>4
    <2>2. QED
      BY <1>1, <1>5, <2>1, ZenonT(60) DEF Ended, Others, ReportsInFlight, ReportedPair
  <1>6. CASE UNCHANGED <<pending, req, report, blocked>>
    BY <1>1, <1>6 DEF ReportsInFlight, ReportedPair
  <1>7. CASE /\ \A r \in Request : pending'[r] = {} /\ req'[r] = Idle
             /\ UNCHANGED tables
    BY <1>7 DEF ReportsInFlight, Idle
  <1>8. QED
    BY <1>2, <1>3, <1>4, <1>5, <1>6, <1>7, TransactionShapes

\* Only a commit adds reports or blocks, and it adds them in pairs.
LEMMA ReportsMatchBlocksStep == IInv /\ [Next]_vars => ReportsMatchBlocks'
  <1> SUFFICES ASSUME IInv, [Next]_vars PROVE ReportsMatchBlocks'
    OBVIOUS
  <1>1. ReportsMatchBlocks /\ ReportsInFlight /\ TypeOK
    BY DEF IInv, TransactionsConsistent
  <1>2. CASE UNCHANGED <<report, blocked>>
    BY <1>1, <1>2 DEF ReportsMatchBlocks
  <1>3. ASSUME NEW r \in Request, Commit(r) PROVE ReportsMatchBlocks'
    <2>1. \A p \in User \X User :
            /\ <<"report", p>> \in pending[r] <=> <<"blocked", p>> \in pending[r]
            /\ <<"blocked", p>> \in pending[r] => p \notin blocked
      BY <1>1, <1>3 DEF Commit, ReportsInFlight
    <2>2. \A p \in User \X User :
            /\ report'[p] = IF <<"report", p>> \in pending[r] THEN report[p] + 1 ELSE report[p]
            /\ p \in blocked' <=> p \in blocked \/ <<"blocked", p>> \in pending[r]
      BY <1>3 DEF Commit
    <2>3. QED
      <3> SUFFICES ASSUME NEW p \in User \X User
                   PROVE  report'[p] = IF p \in blocked' THEN 1 ELSE 0
        BY DEF ReportsMatchBlocks
      <3>1. report[p] = IF p \in blocked THEN 1 ELSE 0
        BY <1>1 DEF ReportsMatchBlocks
      <3>2. CASE <<"blocked", p>> \in pending[r]
        <4>1. report[p] = 0 /\ p \in blocked' /\ report'[p] = report[p] + 1
          BY <2>1, <2>2, <3>1, <3>2
        <4>2. QED
          BY <4>1
      <3>3. CASE <<"blocked", p>> \notin pending[r]
        <4>1. report'[p] = report[p] /\ (p \in blocked' <=> p \in blocked)
          BY <2>1, <2>2, <3>3
        <4>2. QED
          BY <3>1, <4>1
      <3>4. QED
        BY <3>2, <3>3
  <1>4. QED
    BY <1>2, <1>3, TransactionShapes DEF Outside, Inside, tables

-----------------------------------------------------------------------------
(* Gatherings and invitations *)

Row == GatheringId \X User

\* The steps that change a gathering or an invitation, and the locks they wait for.
LEMMA TableShapes ==
    ASSUME [Next]_vars
    PROVE  \/ UNCHANGED <<gathering, participation>>
           \/ \E r \in Request : SaveGathering(r) \/ AnswerInvitation(r) \/ Commit(r)
           \/ \E g \in GatheringId : EndGathering(g)
  <1>1. ASSUME NEW r \in Request, NEW u \in User, NEW v \in User,
               \/ RequestFriend(r, u, v)
               \/ AcceptFriend(r, u, v)
               \/ RejectFriend(r, u, v)
               \/ Unfriend(r, u, v)
               \/ ReportFriend(r, u, v)
        PROVE  UNCHANGED <<gathering, participation>>
    <2>1. CASE RequestFriend(r, u, v)
      BY <2>1, ZenonT(30) DEF RequestFriend, tables
    <2>2. CASE AcceptFriend(r, u, v) \/ RejectFriend(r, u, v)
      BY <2>2, ZenonT(30) DEF AcceptFriend, RejectFriend, ReadPendingRequest, tables
    <2>3. CASE Unfriend(r, u, v) \/ ReportFriend(r, u, v)
      BY <2>3, ZenonT(30) DEF Unfriend, ReportFriend, ReadAcceptedFriend, tables
    <2>4. QED
      BY <1>1, <2>1, <2>2, <2>3
  <1>2. ASSUME NEW r \in Request, NEW u \in User, NEW g \in GatheringId,
               \/ \E invitees \in SUBSET User : CreateFriendGathering(r, u, g, invitees)
               \/ CreateGroupGathering(r, u, g)
               \/ AcceptInvitation(r, u, g)
               \/ RejectInvitation(r, u, g)
               \/ DeleteGathering(r, u, g)
        PROVE  UNCHANGED <<gathering, participation>>
    <2>1. CASE \E invitees \in SUBSET User : CreateFriendGathering(r, u, g, invitees)
      BY <2>1, ZenonT(30) DEF CreateFriendGathering, tables
    <2>2. CASE CreateGroupGathering(r, u, g)
      BY <2>2, ZenonT(30) DEF CreateGroupGathering, tables
    <2>3. CASE AcceptInvitation(r, u, g) \/ RejectInvitation(r, u, g)
      BY <2>3, ZenonT(30) DEF AcceptInvitation, RejectInvitation, ReadInvitation, tables
    <2>4. CASE DeleteGathering(r, u, g)
      BY <2>4, ZenonT(30) DEF DeleteGathering, tables
    <2>5. QED
      BY <1>2, <2>1, <2>2, <2>3, <2>4
  <1>3. ASSUME NEW r \in Request,
               SaveFriend(r) \/ UpdateFriend(r) \/ DeleteFriend(r)
        PROVE  UNCHANGED <<gathering, participation>>
    BY <1>3 DEF SaveFriend, UpdateFriend, DeleteFriend
  <1>4. ASSUME NEW r \in Request,
               \/ UnfriendStatement(r)
               \/ ReportStatement(r)
               \/ \E v \in User : CheckInvitee(r, v)
               \/ DropStatement(r)
               \/ Rollback(r)
        PROVE  UNCHANGED <<gathering, participation>>
    <2>1. CASE UnfriendStatement(r) \/ DropStatement(r)
      BY <2>1 DEF UnfriendStatement, DropStatement, Execute, tables
    <2>2. CASE ReportStatement(r)
      BY <2>2 DEF ReportStatement, Execute, tables
    <2>3. CASE \E v \in User : CheckInvitee(r, v)
      BY <2>3, ZenonT(30) DEF CheckInvitee, tables
    <2>4. CASE Rollback(r)
      BY <2>4 DEF Rollback, tables
    <2>5. QED
      BY <1>4, <2>1, <2>2, <2>3, <2>4
  <1>5. Crash \/ UNCHANGED vars => UNCHANGED <<gathering, participation>>
    BY DEF Crash, vars, tables
  <1>6. CASE Next
    BY <1>1, <1>2, <1>3, <1>4, <1>5, <1>6, NextCases
  <1>7. QED
    BY <1>5, <1>6

\* The effect of each of these steps, row by row.
LEMMA AfterSaveGathering ==
    ASSUME IInv, NEW r \in Request, SaveGathering(r)
    PROVE  /\ req[r].gathering \in GatheringId /\ req[r].user \in User
           /\ gathering[req[r].gathering].host = None
           /\ gathering'[req[r].gathering].host = req[r].user
           /\ gathering'[req[r].gathering].deleted = FALSE
           /\ \A g \in GatheringId \ {req[r].gathering} : gathering'[g] = gathering[g]
           /\ \A p \in Row : p[1] # req[r].gathering => participation'[p] = participation[p]
  <1>1. /\ req[r].gathering \in GatheringId /\ req[r].user \in User
        /\ gathering[req[r].gathering].host = None
    BY DEF SaveGathering, IInv, TransactionsConsistent, ArgumentsOK, GatheringsInFlight,
           GatheringSteps, CreatingSteps
  <1>2. /\ gathering'[req[r].gathering].host = req[r].user
        /\ gathering'[req[r].gathering].deleted = FALSE
        /\ \A g \in GatheringId \ {req[r].gathering} : gathering'[g] = gathering[g]
    BY <1>1 DEF SaveGathering, IInv, TypeOK
  <1>3. \A p \in Row : p[1] # req[r].gathering => participation'[p] = participation[p]
    BY DEF SaveGathering, Row
  <1>4. QED
    BY <1>1, <1>2, <1>3

\* An answer changes one invitation, and only one that still exists.
LEMMA AfterAnswerInvitation ==
    ASSUME IInv, NEW r \in Request, AnswerInvitation(r)
    PROVE  /\ <<req[r].gathering, req[r].user>> \in Row
           /\ gathering' = gathering
           /\ \A p \in Row : participation'[p] # "NONE" => participation[p] # "NONE"
           /\ \A p \in Row : p # <<req[r].gathering, req[r].user>> =>
                participation'[p] = participation[p]
           /\ \A q \in Others(r) :
                <<"participation", <<req[r].gathering, req[r].user>>>> \notin pending[q]
  <1>1. /\ req[r].gathering \in GatheringId /\ req[r].user \in User
        /\ participation \in [Row -> {"NONE", "PENDING", "ACCEPTED"}]
    BY DEF AnswerInvitation, IInv, TypeOK, TransactionsConsistent, ArgumentsOK, GatheringSteps, Row
  <1>2. QED
    BY <1>1 DEF AnswerInvitation, Unlocked, Row, Others

\* What a commit leaves of gatherings and invitations.
LEMMA AfterCommit ==
    ASSUME IInv, NEW r \in Request, Commit(r)
    PROVE  /\ \A g \in GatheringId :
                /\ gathering'[g].host = gathering[g].host
                /\ <<"gathering", g>> \notin pending[r] => gathering'[g] = gathering[g]
           /\ \A p \in Row :
                /\ <<"participation", p>> \in pending[r] => participation'[p] = "NONE"
                /\ <<"participation", p>> \notin pending[r] => participation'[p] = participation[p]
  <1>1. \A p \in Row :
            /\ <<"participation", p>> \in pending[r] => participation'[p] = "NONE"
            /\ <<"participation", p>> \notin pending[r] => participation'[p] = participation[p]
    BY DEF Commit, Row
  <1>2. ASSUME NEW g \in GatheringId
        PROVE  /\ gathering'[g].host = gathering[g].host
               /\ <<"gathering", g>> \notin pending[r] => gathering'[g] = gathering[g]
    <2>1. gathering[g] \in GatheringRow \cup {NoGathering}
      BY DEF IInv, TypeOK, GatheringRow
    <2>2. [gathering[g] EXCEPT !.deleted = TRUE].host = gathering[g].host
      BY <2>1 DEF GatheringRow, NoGathering
    <2>3. QED
      BY <2>2 DEF Commit
  <1>3. QED
    BY <1>1, <1>2

\* The end of a gathering changes nothing else about it.
LEMMA AfterEndGathering ==
    ASSUME IInv, NEW g \in GatheringId, EndGathering(g)
    PROVE  /\ UNCHANGED <<participation, pending, req>>
           /\ gathering[g].host # None
           /\ \A h \in GatheringId :
                /\ gathering'[h].host = gathering[h].host
                /\ gathering'[h].deleted <=> gathering[h].deleted
  <1>1. UNCHANGED <<participation, pending, req>> /\ gathering[g].host # None
    BY DEF EndGathering, Active
  <1>2. gathering[g] \in GatheringRow \cup {NoGathering}
    BY DEF IInv, TypeOK, GatheringRow
  <1>3. /\ [gathering[g] EXCEPT !.ended = TRUE].host = gathering[g].host
        /\ [gathering[g] EXCEPT !.ended = TRUE].deleted = gathering[g].deleted
    BY <1>2 DEF GatheringRow, NoGathering
  <1>4. gathering \in [GatheringId -> GatheringRow \cup {NoGathering}]
    BY DEF IInv, TypeOK, GatheringRow
  <1>5. gathering' = [gathering EXCEPT ![g] = [gathering[g] EXCEPT !.ended = TRUE]]
    BY <1>4 DEF EndGathering
  <1>6. QED
    BY <1>1, <1>3, <1>4, <1>5

\* A gathering that exists keeps its host.
LEMMA HostsStay ==
    ASSUME IInv, [Next]_vars, NEW g \in GatheringId, gathering[g].host # None
    PROVE  gathering'[g].host = gathering[g].host
  BY TableShapes, AfterSaveGathering, AfterAnswerInvitation, AfterCommit, AfterEndGathering

\* No step leaves an invitation to a gathering that is deleted or does not exist.
LEMMA InvitationsHaveGatheringStep == IInv /\ [Next]_vars => InvitationsHaveGathering'
  <1> SUFFICES ASSUME IInv, [Next]_vars PROVE InvitationsHaveGathering'
    OBVIOUS
  <1>1. InvitationsHaveGathering /\ GatheringsInFlight
    BY DEF IInv, TransactionsConsistent
  <1> SUFFICES ASSUME NEW g \in GatheringId, NEW u \in User, participation'[<<g, u>>] # "NONE"
               PROVE  gathering'[g].host # None /\ ~gathering'[g].deleted
    BY DEF InvitationsHaveGathering
  <1>2. <<g, u>> \in Row /\ <<g, u>>[1] = g
    BY DEF Row
  <1>3. CASE UNCHANGED <<gathering, participation>>
    BY <1>1, <1>3 DEF InvitationsHaveGathering
  <1>4. ASSUME NEW r \in Request, SaveGathering(r)
        PROVE  gathering'[g].host # None /\ ~gathering'[g].deleted
    BY <1>1, <1>2, <1>4, AfterSaveGathering, StoreAssumption, ZenonT(60) DEF InvitationsHaveGathering
  <1>5. ASSUME NEW r \in Request, AnswerInvitation(r)
        PROVE  gathering'[g].host # None /\ ~gathering'[g].deleted
    BY <1>1, <1>2, <1>5, AfterAnswerInvitation DEF InvitationsHaveGathering
  <1>6. ASSUME NEW r \in Request, Commit(r)
        PROVE  gathering'[g].host # None /\ ~gathering'[g].deleted
    <2>1. participation[<<g, u>>] # "NONE" /\ <<"participation", <<g, u>>>> \notin pending[r]
      BY <1>2, <1>6, AfterCommit
    <2>2. <<"gathering", g>> \notin pending[r]
      BY <1>1, <1>6, <2>1 DEF GatheringsInFlight, Commit
    <2>3. QED
      BY <1>1, <1>6, <2>1, <2>2, AfterCommit DEF InvitationsHaveGathering
  <1>7. ASSUME NEW h \in GatheringId, EndGathering(h)
        PROVE  gathering'[g].host # None /\ ~gathering'[g].deleted
    BY <1>1, <1>7, AfterEndGathering DEF InvitationsHaveGathering
  <1>8. QED
    BY <1>3, <1>4, <1>5, <1>6, <1>7, TableShapes

\* What a step does to the request that takes it.
Arrived(r) ==
    /\ UNCHANGED tables
    /\ pending[r] = {} /\ pending'[r] = {}
    /\ \/ /\ req'[r].pc \in {"saveFriend", "acceptFriend", "rejectFriend", "unfriendRows",
                             "reportInvitations"}
          /\ req'[r].gathering = None
       \/ \E g \in GatheringId, u \in User :
            /\ req'[r].gathering = g
            /\ \/ /\ req'[r].pc \in {"checkInvitees", "saveGroupGathering"}
                  /\ FreshGathering(g)
               \/ /\ req'[r].pc \in {"acceptInvitation", "rejectInvitation"}
                  /\ participation[<<g, u>>] # "NONE"
               \/ req'[r].pc = "dropGathering" /\ Active(g)
Checked(r) ==
    /\ UNCHANGED tables
    /\ pending[r] = {} /\ pending'[r] = {}
    /\ req[r].pc = "checkInvitees"
    /\ req'[r].pc \in {"checkInvitees", "saveFriendGathering"}
    /\ req'[r].gathering = req[r].gathering
Freed(r) == pending'[r] = {} /\ req'[r].pc = "idle" /\ req'[r].gathering = None

\* The steps by what they do to the requests' next statements and arguments.
LEMMA RequestShapes ==
    ASSUME IInv, [Next]_vars
    PROVE  \/ \E r \in Request :
                /\ \A q \in Others(r) : req'[q] = req[q] /\ pending'[q] = pending[q]
                /\ Arrived(r) \/ Checked(r) \/ Inside(r) \/ Freed(r)
           \/ \A r \in Request : Freed(r)
           \/ UNCHANGED <<pending, req>>
  <1>0. TypeInv /\ TypeOK /\ WritesInTransactions
    BY DEF IInv, TransactionsConsistent, TypeInv
  <1>1. ASSUME NEW r \in Request, NEW u \in User, NEW v \in User,
               \/ RequestFriend(r, u, v)
               \/ AcceptFriend(r, u, v)
               \/ RejectFriend(r, u, v)
               \/ Unfriend(r, u, v)
               \/ ReportFriend(r, u, v)
        PROVE  /\ \A q \in Others(r) : req'[q] = req[q] /\ pending'[q] = pending[q]
               /\ Arrived(r)
    BY <1>0, <1>1, AfterFriendshipArrival DEF TransactionSteps, Arrived, WritesInTransactions
  <1>2. ASSUME NEW r \in Request, NEW u \in User, NEW g \in GatheringId,
               \/ \E invitees \in SUBSET User : CreateFriendGathering(r, u, g, invitees)
               \/ CreateGroupGathering(r, u, g)
               \/ AcceptInvitation(r, u, g)
               \/ RejectInvitation(r, u, g)
               \/ DeleteGathering(r, u, g)
        PROVE  /\ \A q \in Others(r) : req'[q] = req[q] /\ pending'[q] = pending[q]
               /\ Arrived(r)
    <2>1. /\ UNCHANGED <<tables, pending>>
          /\ req[r].pc = "idle"
          /\ \A q \in Others(r) : req'[q] = req[q]
          /\ req'[r].gathering = g
          /\ \/ /\ req'[r].pc \in {"checkInvitees", "saveGroupGathering"}
                /\ FreshGathering(g)
             \/ /\ req'[r].pc \in {"acceptInvitation", "rejectInvitation"}
                /\ participation[<<g, u>>] # "NONE"
             \/ req'[r].pc = "dropGathering" /\ Active(g)
      BY <1>0, <1>2, AfterInvitationArrival
    <2>2. pending[r] = {} /\ pending'[r] = {}
      BY <1>0, <2>1 DEF TransactionSteps, WritesInTransactions
    <2>3. Arrived(r)
      BY <2>1, <2>2, Zenon DEF Arrived
    <2>4. QED
      BY <2>1, <2>3
  <1>3. ASSUME NEW r \in Request,
               \/ SaveFriend(r)
               \/ UpdateFriend(r)
               \/ DeleteFriend(r)
               \/ SaveGathering(r)
               \/ AnswerInvitation(r)
        PROVE  /\ \A q \in Others(r) : req'[q] = req[q] /\ pending'[q] = pending[q]
               /\ Freed(r)
    <2>1. /\ Finish(r) /\ pending' = pending
          /\ req[r].pc \in {"saveFriend", "acceptFriend", "rejectFriend", "saveFriendGathering",
                            "saveGroupGathering", "acceptInvitation", "rejectInvitation"}
      BY <1>3 DEF SaveFriend, UpdateFriend, DeleteFriend, SaveGathering, AnswerInvitation
    <2>2. QED
      BY <1>0, <2>1, AfterFinish DEF Freed, WritesInTransactions, TransactionSteps
  <1>4. ASSUME NEW r \in Request, UnfriendStatement(r) \/ ReportStatement(r) \/ DropStatement(r)
        PROVE  /\ \A q \in Others(r) : req'[q] = req[q] /\ pending'[q] = pending[q]
               /\ Inside(r)
    BY <1>0, <1>4, AfterStatement DEF Inside
  <1>5. ASSUME NEW r \in Request, NEW v \in User, CheckInvitee(r, v)
        PROVE  /\ \A q \in Others(r) : req'[q] = req[q] /\ pending'[q] = pending[q]
               /\ Checked(r) \/ Freed(r)
    BY <1>0, <1>5, AfterCheckInvitee
       DEF TransactionSteps, Checked, Freed, WritesInTransactions
  <1>6. ASSUME NEW r \in Request, Commit(r)
        PROVE  /\ \A q \in Others(r) : req'[q] = req[q] /\ pending'[q] = pending[q]
               /\ Freed(r)
    BY <1>0, <1>6, AfterFinish DEF Commit, TypeOK, Others, Freed
  <1>7. ASSUME NEW r \in Request, Rollback(r)
        PROVE  /\ \A q \in Others(r) : req'[q] = req[q] /\ pending'[q] = pending[q]
               /\ Freed(r)
    BY <1>0, <1>7, AfterRollback DEF Freed
  <1>8. ASSUME NEW g \in GatheringId, EndGathering(g)
        PROVE  UNCHANGED <<pending, req>>
    BY <1>8 DEF EndGathering
  <1>9. CASE Crash
    BY <1>9 DEF Crash, Freed, Idle
  <1>10. CASE UNCHANGED vars
    BY <1>10 DEF vars
  <1>11. QED
    BY <1>1, <1>2, <1>3, <1>4, <1>5, <1>6, <1>7, <1>8, <1>9, <1>10, NextCases

\* A gathering a transaction is about to delete, or has deleted, exists.
LEMMA DroppedExistStep == IInv /\ [Next]_vars => DroppedExist'
  <1> SUFFICES ASSUME IInv, [Next]_vars PROVE DroppedExist'
    OBVIOUS
  <1>1. DroppedExist /\ ArgumentsOK
    BY DEF IInv, TransactionsConsistent
  <1> DEFINE Existing(r) ==
        /\ req[r].pc = "dropGathering" => gathering[req[r].gathering].host # None
        /\ \A g \in GatheringId : <<"gathering", g>> \in pending[r] => gathering[g].host # None
  <1>2. ASSUME NEW r \in Request, req'[r] = req[r], pending'[r] = pending[r]
        PROVE  Existing(r)'
    <2>1. req[r].pc = "dropGathering" => req[r].gathering \in GatheringId
      BY <1>1 DEF ArgumentsOK, GatheringSteps
    <2>2. QED
      BY <1>1, <1>2, <2>1, HostsStay DEF DroppedExist
  <1>3. ASSUME NEW r \in Request, Freed(r)
        PROVE  Existing(r)'
    BY <1>3 DEF Freed
  <1>4. ASSUME NEW r \in Request, Arrived(r)
        PROVE  Existing(r)'
    BY <1>4 DEF Arrived, Active, tables
  <1>5. ASSUME NEW r \in Request, Checked(r)
        PROVE  Existing(r)'
    BY <1>5 DEF Checked
  <1>6. ASSUME NEW r \in Request, Inside(r)
        PROVE  Existing(r)'
    <2>1. PICK W, next :
              /\ Statement(r, req[r].pc, W, next)
              /\ gathering' = gathering
              /\ pending'[r] = pending[r] \cup W
              /\ req'[r].pc = next
      BY <1>6 DEF Inside, tables
    <2>2. \A g : <<"gathering", g>> \in W => req[r].pc = "dropGathering" /\ g = req[r].gathering
      BY <2>1 DEF Statement, FriendLocks, InvitationLocks
    <2>3. next # "dropGathering"
      BY <2>1 DEF Statement
    <2>4. QED
      BY <1>1, <2>1, <2>2, <2>3 DEF DroppedExist
  <1>7. \A r \in Request : Existing(r)'
    BY <1>2, <1>3, <1>4, <1>5, <1>6, RequestShapes DEF Others
  <1>8. QED
    BY <1>7 DEF DroppedExist

\* Only its creation makes a gathering appear, and only then do invitations to
\* it appear.
LEMMA OnlyCreated ==
    ASSUME IInv, [Next]_vars, NEW g \in GatheringId
    PROVE  /\ gathering[g].host = None /\ gathering'[g].host # None =>
                \E q \in Request : SaveGathering(q) /\ req[q].gathering = g
           /\ \A u \in User :
                gathering[g].host # None /\ participation'[<<g, u>>] # "NONE"
                    => participation[<<g, u>>] # "NONE"
  <1>1. \A u \in User : <<g, u>> \in Row /\ <<g, u>>[1] = g
    BY DEF Row
  <1>2. CASE UNCHANGED <<gathering, participation>>
    BY <1>2
  <1>3. ASSUME NEW r \in Request, SaveGathering(r)
        PROVE  /\ gathering[g].host = None /\ gathering'[g].host # None => req[r].gathering = g
               /\ \A u \in User :
                    gathering[g].host # None /\ participation'[<<g, u>>] # "NONE"
                        => participation[<<g, u>>] # "NONE"
    BY <1>1, <1>3, AfterSaveGathering
  <1>4. ASSUME NEW r \in Request, AnswerInvitation(r)
        PROVE  /\ gathering' = gathering
               /\ \A u \in User : participation'[<<g, u>>] # "NONE" => participation[<<g, u>>] # "NONE"
    BY <1>1, <1>4, AfterAnswerInvitation
  <1>5. ASSUME NEW r \in Request, Commit(r)
        PROVE  /\ gathering'[g].host = gathering[g].host
               /\ \A u \in User : participation'[<<g, u>>] # "NONE" => participation[<<g, u>>] # "NONE"
    BY <1>1, <1>5, AfterCommit
  <1>6. ASSUME NEW h \in GatheringId, EndGathering(h)
        PROVE  gathering'[g].host = gathering[g].host /\ participation' = participation
    BY <1>6, AfterEndGathering
  <1>7. QED
    BY <1>2, <1>3, <1>4, <1>5, <1>6, TableShapes

\* A saved gathering is no longer remembered by the request that created it.
LEMMA SaveFrees ==
    ASSUME IInv, NEW r \in Request, SaveGathering(r)
    PROVE  req'[r].pc = "idle" /\ req[r].pc \in CreatingSteps
  BY AfterFinish DEF SaveGathering, CreatingSteps, IInv

\* The lock on a gathering row, with those on its invitations, keeps a deletion
\* whole: no invitation appears behind its back.
LEMMA GatheringsInFlightStep == IInv /\ [Next]_vars => GatheringsInFlight'
  <1> SUFFICES ASSUME IInv, [Next]_vars PROVE GatheringsInFlight'
    OBVIOUS
  <1>1. /\ GatheringsInFlight /\ ArgumentsOK /\ DroppedExist /\ InvitationsHaveGathering
        /\ WritesInTransactions
    BY DEF IInv, TransactionsConsistent
  <1> DEFINE Alone(r, q) ==
        req[r].pc \in CreatingSteps => req[q].gathering # req[r].gathering
  <1> DEFINE NotHeld(r) == req[r].pc \in CreatingSteps => gathering[req[r].gathering].host = None
  <1> DEFINE Deleting(r) ==
        /\ req[r].pc = "dropInvitations" => <<"gathering", req[r].gathering>> \in pending[r]
        /\ \A g \in GatheringId : <<"gathering", g>> \in pending[r] =>
            /\ req[r].pc \in {"dropInvitations", "commit"}
            /\ g = req[r].gathering
            /\ req[r].pc = "commit" =>
                \A u \in User : participation[<<g, u>>] # "NONE"
                    => <<"participation", <<g, u>>>> \in pending[r]
  <1>2. \A r \in Request : req[r].pc \in CreatingSteps =>
            req[r].gathering \in GatheringId /\ req[r].gathering # None
    BY <1>1, StoreAssumption DEF ArgumentsOK, GatheringSteps
  <1>3. \A r \in Request : NotHeld(r) /\ (\A q \in Others(r) : Alone(r, q)) /\ Deleting(r)
    BY <1>1 DEF GatheringsInFlight, Others

  \* Nobody else is about the gathering being created.
  <1>4. ASSUME NEW r \in Request, NEW q \in Others(r)
        PROVE  Alone(r, q)'
    <2>0. q \in Request /\ q # r /\ r \in Others(q)
      BY DEF Others
    <2>1. CASE req'[r] = req[r] /\ req'[q] = req[q]
      BY <1>3, <2>1
    <2>2. CASE Freed(r)
      BY <2>2 DEF Freed, CreatingSteps
    <2>3. CASE Arrived(r) /\ req'[q] = req[q]
      BY <2>0, <2>3 DEF Arrived, FreshGathering, CreatingSteps
    <2>4. CASE Checked(r) /\ req'[q] = req[q]
      <3>1. req[r].pc \in CreatingSteps
        BY <2>4 DEF Checked, CreatingSteps
      <3>2. QED
        BY <1>3, <2>4, <3>1 DEF Checked
    <2>5. CASE Inside(r)
      BY <2>5 DEF Inside, Statement, CreatingSteps
    <2>6. CASE req'[r] = req[r] /\ req[r].pc \in CreatingSteps /\ Freed(q)
      BY <1>2, <2>6 DEF Freed
    <2>7. CASE req'[r] = req[r] /\ req[r].pc \in CreatingSteps /\ Arrived(q)
      <3>1. \/ req'[q].gathering = None
            \/ \E g \in GatheringId, u \in User :
                    /\ req'[q].gathering = g
                    /\ FreshGathering(g) \/ participation[<<g, u>>] # "NONE" \/ Active(g)
        BY <2>7, Zenon DEF Arrived
      <3>2. \/ req'[q].gathering = None
            \/ \A s \in Request : req[s].gathering # req'[q].gathering
            \/ gathering[req'[q].gathering].host # None
        BY <1>1, <3>1 DEF FreshGathering, Active, InvitationsHaveGathering
      <3>3. gathering[req[r].gathering].host = None /\ req[r].gathering # None
        BY <1>2, <1>3, <2>7
      <3>4. QED
        BY <2>7, <3>2, <3>3
    <2>8. CASE req'[r] = req[r] /\ (Checked(q) \/ Inside(q))
      BY <1>3, <2>8, ZenonT(60) DEF Checked, Inside
    <2>9. CASE req'[r] = req[r] /\ req[r].pc \notin CreatingSteps
      BY <2>9
    <2>10. QED
      BY <2>0, <2>1, <2>2, <2>3, <2>4, <2>5, <2>6, <2>7, <2>8, <2>9, RequestShapes DEF Others

  \* The gathering being created is not there yet.
  <1>5. ASSUME NEW r \in Request
        PROVE  NotHeld(r)'
    <2> SUFFICES ASSUME req'[r].pc \in CreatingSteps
                 PROVE  gathering'[req'[r].gathering].host = None
      OBVIOUS
    <2> DEFINE g == req'[r].gathering
    <2>1. /\ g \in GatheringId /\ gathering[g].host = None
          /\ \A q \in Others(r) : req[q].gathering # g
      <3>1. CASE req'[r] = req[r]
        BY <1>2, <1>3, <3>1
      <3>2. CASE Freed(r) \/ Inside(r)
        BY <3>2 DEF Freed, Inside, Statement, CreatingSteps
      <3>3. CASE Arrived(r)
        BY <3>3 DEF Arrived, FreshGathering, CreatingSteps, Others
      <3>4. CASE Checked(r)
        <4>1. req[r].pc \in CreatingSteps
          BY <3>4 DEF Checked, CreatingSteps
        <4>2. QED
          BY <1>2, <1>3, <3>4, <4>1 DEF Checked
      <3>5. QED
        BY <3>1, <3>2, <3>3, <3>4, RequestShapes DEF Others
    <2>2. \A q \in Request : ~(SaveGathering(q) /\ req[q].gathering = g)
      BY <2>1, SaveFrees DEF Others, CreatingSteps
    <2>3. QED
      BY <2>1, <2>2, OnlyCreated

  \* The gathering being deleted goes with all of its invitations.
  <1>6. ASSUME NEW r \in Request
        PROVE  Deleting(r)'
    <2>1. CASE req'[r] = req[r] /\ pending'[r] = pending[r]
      BY <1>1, <1>3, <2>1, OnlyCreated DEF DroppedExist
    <2>2. CASE Freed(r) \/ Arrived(r) \/ Checked(r)
      BY <2>2 DEF Freed, Arrived, Checked
    <2>3. CASE Inside(r)
      <3>1. PICK W, next :
                /\ Statement(r, req[r].pc, W, next)
                /\ UNCHANGED tables
                /\ pending'[r] = pending[r] \cup W
                /\ req'[r].pc = next
                /\ req'[r].gathering = req[r].gathering
        BY <2>3 DEF Inside
      <3>2. \A g : <<"gathering", g>> \in W => req[r].pc = "dropGathering" /\ g = req[r].gathering
        BY <3>1 DEF Statement, FriendLocks, InvitationLocks
      <3>3. CASE req[r].pc = "dropInvitations"
        <4>1. W = {"participation"} \X RowsOfGathering(req[r].gathering) /\ next = "commit"
          BY <3>1, <3>3 DEF Statement
        <4>2. \A u \in User : req[r].gathering \in GatheringId
                /\ participation[<<req[r].gathering, u>>] # "NONE"
                    => <<"participation", <<req[r].gathering, u>>>> \in W
          BY <4>1 DEF RowsOfGathering
        <4>3. QED
          BY <1>3, <3>1, <3>2, <3>3, <4>1, <4>2 DEF tables
      <3>4. CASE req[r].pc = "dropGathering"
        <4>1. W = {<<"gathering", req[r].gathering>>} /\ next = "dropInvitations"
          BY <3>1, <3>4 DEF Statement
        <4>2. QED
          BY <1>3, <3>1, <3>4, <4>1
      <3>5. CASE req[r].pc \notin {"dropGathering", "dropInvitations", "commit"}
        <4>1. next # "dropInvitations"
          BY <3>1, <3>5 DEF Statement
        <4>2. QED
          BY <1>3, <3>1, <3>2, <3>5, <4>1
      <3>6. QED
        BY <3>1, <3>3, <3>4, <3>5 DEF Statement
    <2>4. QED
      BY <2>1, <2>2, <2>3, RequestShapes DEF Others
  <1>7. QED
    BY <1>4, <1>5, <1>6 DEF GatheringsInFlight, Others

\* An invitation a transaction retracts stays as the transaction found it.
LEMMA InvitationsInFlightStep == IInv /\ [Next]_vars => InvitationsInFlight'
  <1> SUFFICES ASSUME IInv, [Next]_vars PROVE InvitationsInFlight'
    OBVIOUS
  <1>1. /\ GatheringsInFlight /\ InvitationsInFlight /\ InvitationsHaveGathering
        /\ WritesInTransactions /\ WritesExclude
    BY DEF IInv, TransactionsConsistent
  <1> DEFINE Retracting(r, p) == <<"participation", p>> \in pending[r] =>
        /\ req[r].pc \in {"reportSave", "reportBlock", "reportRows", "commit"}
        /\ \/ <<"gathering", p[1]>> \in pending[r]
           \/ /\ \A g \in GatheringId : <<"gathering", g>> \notin pending[r]
              /\ participation[p] = "PENDING"
              /\ {gathering[p[1]].host, p[2]} = {req[r].user, req[r].peer}
  <1> SUFFICES ASSUME NEW r \in Request, NEW p \in Row, <<"participation", p>> \in pending'[r]
               PROVE  Retracting(r, p)'
    BY DEF InvitationsInFlight, Row
  <1>2. Retracting(r, p)
    BY <1>1 DEF InvitationsInFlight, Row
  <1>3. p[1] \in GatheringId /\ p[2] \in User /\ p = <<p[1], p[2]>>
    BY DEF Row
  <1>4. CASE Freed(r) \/ Arrived(r) \/ Checked(r)
    BY <1>4 DEF Freed, Arrived, Checked
  <1>5. CASE req'[r] = req[r] /\ pending'[r] = pending[r]
    <2>1. CASE <<"gathering", p[1]>> \in pending[r]
      BY <1>2, <1>5, <2>1
    <2>2. CASE <<"gathering", p[1]>> \notin pending[r]
      <3>1. participation[p] = "PENDING" /\ gathering[p[1]].host # None
        BY <1>1, <1>2, <1>3, <1>5, <2>2 DEF InvitationsHaveGathering
      <3>2. gathering'[p[1]].host = gathering[p[1]].host
        BY <1>3, <3>1, HostsStay
      <3>3. participation'[p] = "PENDING"
        <4>1. CASE UNCHANGED participation
          BY <3>1, <4>1
        <4>2. ASSUME NEW q \in Request, SaveGathering(q) PROVE participation'[p] = "PENDING"
          BY <3>1, <4>2, AfterSaveGathering
        <4>3. ASSUME NEW q \in Request, AnswerInvitation(q) PROVE participation'[p] = "PENDING"
          <5>1. pending[q] = {}
            BY <1>1, <4>3 DEF AnswerInvitation, WritesInTransactions, TransactionSteps
          <5>2. q # r
            BY <1>5, <5>1
          <5>3. p # <<req[q].gathering, req[q].user>>
            BY <1>5, <4>3, <5>2, AfterAnswerInvitation DEF Others
          <5>4. QED
            BY <3>1, <4>3, <5>3, AfterAnswerInvitation
        <4>4. ASSUME NEW q \in Request, Commit(q) PROVE participation'[p] = "PENDING"
          <5>1. q # r
            <6>1. Freed(q)
              BY <4>4, AfterFinish DEF Commit, IInv, TypeOK, Freed
            <6>2. QED
              BY <1>5, <6>1 DEF Freed
          <5>2. <<"participation", p>> \notin pending[q]
            <6>1. <<"participation", p>>[1] = "participation"
              OBVIOUS
            <6>2. QED
              BY <1>1, <1>5, <5>1, <6>1 DEF WritesExclude
          <5>3. QED
            BY <3>1, <4>4, <5>2, AfterCommit
        <4>5. QED
          BY <4>1, <4>2, <4>3, <4>4, TableShapes, AfterEndGathering
      <3>4. QED
        BY <1>2, <1>5, <2>2, <3>2, <3>3
    <2>3. QED
      BY <2>1, <2>2
  <1>6. CASE Inside(r)
    <2>1. PICK W, next :
              /\ Statement(r, req[r].pc, W, next)
              /\ UNCHANGED tables
              /\ pending'[r] = pending[r] \cup W
              /\ req'[r].pc = next
              /\ req'[r].user = req[r].user /\ req'[r].peer = req[r].peer
      BY <1>6 DEF Inside
    <2>2. CASE <<"participation", p>> \in pending[r]
      <3>1. /\ req[r].pc \in {"reportSave", "reportBlock", "reportRows"}
            /\ next \in {"reportBlock", "reportRows", "commit"}
            /\ \A g : <<"gathering", g>> \notin W
        BY <1>2, <2>1, <2>2 DEF Statement, FriendLocks
      <3>2. QED
        BY <1>2, <2>1, <2>2, <3>1 DEF tables
    <2>3. CASE <<"participation", p>> \in W
      <3>1. CASE req[r].pc = "dropInvitations"
        <4>1. p[1] = req[r].gathering /\ next = "commit"
          BY <2>1, <2>3, <3>1 DEF Statement, RowsOfGathering
        <4>2. <<"gathering", p[1]>> \in pending[r]
          BY <1>1, <3>1, <4>1 DEF GatheringsInFlight
        <4>3. QED
          BY <2>1, <4>1, <4>2
      <3>2. CASE req[r].pc \in {"unfriendInvitations", "reportInvitations"}
        <4>1. W = InvitationLocks(r) /\ next \in {"commit", "reportSave"}
          BY <2>1, <3>2 DEF Statement
        <4>2. p \in PendingBetween(req[r].user, req[r].peer)
          BY <2>3, <4>1 DEF InvitationLocks
        <4>3. /\ participation[p] = "PENDING"
              /\ {gathering[p[1]].host, p[2]} = {req[r].user, req[r].peer}
          BY <4>2 DEF PendingBetween
        <4>4. \A g \in GatheringId : <<"gathering", g>> \notin pending[r] /\ <<"gathering", g>> \notin W
          BY <1>1, <3>2, <4>1 DEF GatheringsInFlight, InvitationLocks
        <4>5. QED
          BY <2>1, <4>1, <4>3, <4>4 DEF tables
      <3>3. QED
        BY <2>1, <2>3, <3>1, <3>2 DEF Statement, FriendLocks
    <2>4. QED
      BY <2>1, <2>2, <2>3
  <1>7. QED
    BY <1>4, <1>5, <1>6, RequestShapes DEF Others

-----------------------------------------------------------------------------
(* The theorems *)

\* The invariant is inductive.
LEMMA Inductive == IInv /\ [Next]_vars => IInv'
  <1> SUFFICES ASSUME IInv, [Next]_vars PROVE IInv'
    OBVIOUS
  <1>1. TypeOK' /\ ArgumentsOK'
    BY TypeStep DEF IInv, TransactionsConsistent, TypeInv
  <1>2. QED
    BY <1>1, DroppedExistStep, WritesInTransactionsStep, WritesExcludeStep, ReportsInFlightStep,
       GatheringsInFlightStep, InvitationsInFlightStep, InvitationsHaveGatheringStep,
       ReportsMatchBlocksStep
       DEF IInv, TransactionsConsistent

\* Every reachable state satisfies the inductive invariant.
THEOREM Invariance == Spec => []IInv
  <1>1. Init => IInv
    BY InitHolds
  <1>2. IInv /\ [Next]_vars => IInv'
    BY Inductive
  <1>3. QED
    BY <1>1, <1>2, PTL DEF Spec

\* Every handler keeps the rows of every table well formed.
THEOREM TypesHold == Spec => []TypeOK
  <1>1. IInv => TypeOK
    BY DEF IInv
  <1>2. QED
    BY <1>1, Invariance, PTL

\* What an open transaction has read and written stays true until it ends.
THEOREM TransactionsHold == Spec => []TransactionsConsistent
  <1>1. IInv => TransactionsConsistent
    BY DEF IInv
  <1>2. QED
    BY <1>1, Invariance, PTL

\* FriendReportsWriteSerivce.report files a report exactly when it adds a block,
\* whatever fails in between and whatever else runs.
THEOREM ReportsHold == Spec => []ReportsMatchBlocks
  <1>1. IInv => ReportsMatchBlocks
    BY DEF IInv
  <1>2. QED
    BY <1>1, Invariance, PTL

\* GatheringsService.delete leaves no invitation behind, even one accepted,
\* rejected or retracted at the same time.
THEOREM DeletionHolds == Spec => []DeletedGatheringHasNoInvitations
  <1>1. IInv => DeletedGatheringHasNoInvitations
    BY DEF IInv, TransactionsConsistent, InvitationsHaveGathering,
           DeletedGatheringHasNoInvitations
  <1>2. QED
    BY <1>1, Invariance, PTL

-----------------------------------------------------------------------------
(* Refinement: a statement of a transaction is a stutter, its commit the contract's
   atomic step. *)

GuestVars == <<gathering, participation>>

\* The empty tables are an initial state of the contract.
LEMMA InitRefines == Init => Contract!Init
  BY DEF Init, Contract!Init, Contract!Rows, NoGathering

\* Saving a gathering with its invitations is the contract's Hold.
LEMMA SaveRefines ==
    ASSUME IInv, NEW r \in Request, SaveGathering(r)
    PROVE  Contract!Next
  <1>1. /\ req[r].gathering \in GatheringId /\ req[r].user \in User
        /\ gathering[req[r].gathering].host = None
    BY AfterSaveGathering
  <1>2. req[r].invitees \in SUBSET User
    BY DEF IInv, TypeOK, RequestState
  <1>3. Contract!Hold(req[r].gathering, req[r].user, req[r].invitees)
    <2>1. PICK type \in {"FRIEND", "GROUP"} :
            gathering' = [gathering EXCEPT ![req[r].gathering] =
                [host |-> req[r].user, type |-> type, ended |-> FALSE, deleted |-> FALSE]]
      <3> DEFINE type == IF req[r].pc = "saveFriendGathering" THEN "FRIEND" ELSE "GROUP"
      <3>1. gathering' = [gathering EXCEPT ![req[r].gathering] =
                [host |-> req[r].user, ended |-> FALSE, deleted |-> FALSE, type |-> type]]
        BY DEF SaveGathering
      <3>2. QED
        BY <3>1
    <2>2. participation' = [p \in Contract!Rows |->
            IF p[1] = req[r].gathering /\ p[2] \in req[r].invitees
            THEN IF p[2] = req[r].user THEN "ACCEPTED" ELSE "PENDING"
            ELSE participation[p]]
      BY DEF SaveGathering, Contract!Rows
    <2>3. QED
      BY <1>1, <2>1, <2>2 DEF Contract!Hold
  <1>4. QED
    BY <1>1, <1>2, <1>3 DEF Contract!Next

\* An answer is the contract's Accept or Leave, or nothing.
LEMMA AnswerRefines ==
    ASSUME IInv, NEW r \in Request, AnswerInvitation(r)
    PROVE  [Contract!Next]_GuestVars
  <1> DEFINE p == <<req[r].gathering, req[r].user>>
  <1>1. /\ p \in Contract!Rows /\ gathering' = gathering
        /\ p \in Answering(req[r].pc)
    BY AfterAnswerInvitation DEF Row, Contract!Rows, Answering, Asking
  <1>2. participation \in [Contract!Rows -> {"NONE", "PENDING", "ACCEPTED"}]
    BY DEF IInv, TypeOK, Contract!Rows
  <1>3. CASE participation[p] = "NONE"
    BY <1>1, <1>3 DEF AnswerInvitation, GuestVars
  <1>4. CASE participation[p] # "NONE" /\ req[r].pc = "acceptInvitation"
    <2>1. participation' = [participation EXCEPT ![p] = "ACCEPTED"]
      BY <1>4 DEF AnswerInvitation
    <2>2. CASE participation[p] = "PENDING"
      BY <1>1, <1>4, <2>1, <2>2 DEF Contract!Accept, Contract!Next
    <2>3. CASE participation[p] = "ACCEPTED"
      BY <1>1, <1>2, <2>1, <2>3 DEF GuestVars
    <2>4. QED
      BY <1>1, <1>2, <1>4, <2>2, <2>3
  <1>5. CASE participation[p] # "NONE" /\ req[r].pc # "acceptInvitation"
    <2>1. participation' = [participation EXCEPT ![p] = "NONE"]
      BY <1>5 DEF AnswerInvitation
    <2>2. req[r].pc = "rejectInvitation"
      BY <1>5 DEF AnswerInvitation
    <2>3. QED
      BY <1>1, <2>1, <2>2 DEF Contract!Leave, Contract!Next
  <1>6. QED
    BY <1>3, <1>4, <1>5

\* A commit is the contract's Delete or Part, or nothing.
LEMMA CommitRefines ==
    ASSUME IInv, NEW r \in Request, Commit(r)
    PROVE  [Contract!Next]_GuestVars
  <1>1. GatheringsInFlight /\ InvitationsInFlight /\ InvitationsHaveGathering /\ TypeOK
    BY DEF IInv, TransactionsConsistent
  <1>2. /\ participation \in [Contract!Rows -> {"NONE", "PENDING", "ACCEPTED"}]
        /\ \A p \in Contract!Rows : p[1] \in GatheringId /\ p[2] \in User /\ p = <<p[1], p[2]>>
    BY <1>1 DEF TypeOK, Contract!Rows
  <1>3. participation' = [p \in Contract!Rows |->
            IF <<"participation", p>> \in pending[r] THEN "NONE" ELSE participation[p]]
    BY DEF Commit, Contract!Rows
  <1>4. CASE \E g \in GatheringId : <<"gathering", g>> \in pending[r]
    <2>1. PICK g \in GatheringId : <<"gathering", g>> \in pending[r]
      BY <1>4
    <2>2. /\ gathering[g].host # None
          /\ \A h \in GatheringId : <<"gathering", h>> \in pending[r] => h = g
          /\ \A u \in User : participation[<<g, u>>] # "NONE"
                => <<"participation", <<g, u>>>> \in pending[r]
      BY <1>1, <2>1, ZenonT(60) DEF Commit, GatheringsInFlight, IInv, TransactionsConsistent, DroppedExist
    <2>3. gathering' = [gathering EXCEPT ![g].deleted = TRUE]
      <3>1. gathering' = [h \in GatheringId |->
                IF h = g THEN [gathering[h] EXCEPT !.deleted = TRUE] ELSE gathering[h]]
        BY <2>1, <2>2 DEF Commit
      <3>2. gathering \in [GatheringId -> GatheringRow \cup {NoGathering}]
        BY <1>1 DEF TypeOK, GatheringRow
      <3>3. QED
        BY <3>1, <3>2
    <2>4. \A p \in Contract!Rows : p[1] # g => <<"participation", p>> \notin pending[r]
      BY <1>1, <1>2, <2>1, <2>2 DEF InvitationsInFlight, Contract!Rows
    <2>5. participation' = [p \in Contract!Rows |-> IF p[1] = g THEN "NONE" ELSE participation[p]]
      BY <1>2, <1>3, <2>2, <2>4, SMTT(30)
    <2>6. Contract!Delete(g)
      <3>1. g \in {req[q].gathering : q \in Asking({"commit"})}
        BY <1>1, <2>1 DEF GatheringsInFlight, Commit, Asking
      <3>2. QED
        BY <2>2, <2>3, <2>5, <3>1 DEF Contract!Delete
    <2>7. QED
      BY <2>6 DEF Contract!Next
  <1>5. CASE \A g \in GatheringId : <<"gathering", g>> \notin pending[r]
    <2>1. gathering' = gathering
      BY <1>1, <1>5 DEF Commit, TypeOK
    <2> DEFINE retracted == {p \in Contract!Rows : <<"participation", p>> \in pending[r]}
    <2>2. \A p \in retracted : /\ participation[p] = "PENDING"
                               /\ {gathering[p[1]].host, p[2]} = {req[r].user, req[r].peer}
      BY <1>1, <1>2, <1>5 DEF InvitationsInFlight, Contract!Rows
    <2>3. participation' = [p \in Contract!Rows |->
                IF p \in retracted THEN "NONE" ELSE participation[p]]
      BY <1>3
    <2>4. CASE retracted = {}
      BY <1>2, <2>1, <2>3, <2>4 DEF GuestVars
    <2>5. CASE retracted # {}
      <3>1. PICK p \in retracted : TRUE
        BY <2>5
      <3>2. p[1] \in GatheringId /\ p[2] \in User /\ gathering[p[1]].host # None
        BY <1>1, <1>2, <2>2 DEF InvitationsHaveGathering
      <3>3. gathering[p[1]].host \in User
        <4>1. gathering[p[1]] \in GatheringRow \cup {NoGathering}
          BY <1>1, <3>2 DEF TypeOK, GatheringRow
        <4>2. QED
          BY <3>2, <4>1 DEF GatheringRow, NoGathering
      <3>4. req[r].user \in User /\ req[r].peer \in User
        BY <2>2, <3>2, <3>3
      <3>5. Contract!Part(req[r].user, req[r].peer)
        <4>1. retracted \in SUBSET {x \in Contract!Rows :
                /\ participation[x] = "PENDING"
                /\ {gathering[x[1]].host, x[2]} = {req[r].user, req[r].peer}}
          BY <2>2
        <4>2. {req[r].user, req[r].peer}
                \in {{req[q].user, req[q].peer} : q \in Asking({"commit"})}
          BY DEF Commit, Asking
        <4>3. QED
          BY <2>1, <2>3, <4>1, <4>2 DEF Contract!Part
      <3>6. QED
        BY <3>4, <3>5 DEF Contract!Next
    <2>6. QED
      BY <2>4, <2>5
  <1>6. QED
    BY <1>4, <1>5

\* The end of a gathering is the contract's End.
LEMMA EndRefines ==
    ASSUME NEW g \in GatheringId, EndGathering(g)
    PROVE  Contract!Next
  BY DEF EndGathering, Active, Contract!End, Contract!Next

\* SocialGraph implements the contract its gatherings give to their guests: for
\* them unfriending, reporting and deleting are atomic, and nothing else happens
\* to an invitation than the contract's steps.
THEOREM ContractHolds == Spec => KeepsContract
  <1>1. Init => Contract!Init
    BY InitRefines
  <1>2. IInv /\ [Next]_vars => [Contract!Next]_GuestVars
    BY TableShapes, SaveRefines, AnswerRefines, CommitRefines, EndRefines DEF GuestVars
  <1>3. QED
    BY <1>1, <1>2, Invariance, PTL DEF Spec, KeepsContract, Contract!Spec, GuestVars

=============================================================================
