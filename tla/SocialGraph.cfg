\* Two users, two requests in flight: the deadlock and every race of two
\* handlers.  Three friend ids: the two directions and a forgotten id.
SPECIFICATION Spec
CONSTANTS
    User = {a, b}
    FriendId = {f1, f2, f3}
    GatheringId = {g1}
    Request = {r1, r2}
    GroupMember = {a, b}
    None = None
SYMMETRY Symmetry
CONSTRAINT AboutOthers
INVARIANTS
    TypeOK
    TransactionsConsistent
    ReportsMatchBlocks
    DeletedGatheringHasNoInvitations
PROPERTIES
    KeepsContract
