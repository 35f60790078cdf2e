\* One slot: requests follow one another, those of a user about himself included.
SPECIFICATION Spec
CONSTANTS
    User = {a, b}
    FriendId = {f1, f2, f3}
    GatheringId = {g1}
    Request = {r1}
    GroupMember = {a, b}
    None = None
SYMMETRY Symmetry
INVARIANTS
    OneRowPerPair
    OpenInvitationsAreFromFriends
PROPERTIES
    FriendGatheringsInviteFriends
