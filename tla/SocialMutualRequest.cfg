\* Two requests overlap.
SPECIFICATION Spec
CONSTANTS
    User = {a, b}
    FriendId = {f1, f2}
    GatheringId = {g1}
    Request = {r1, r2}
    GroupMember = {a, b}
    None = None
INVARIANTS
    OneRowPerPair
