\* Two requests are enough for a deadlock: one unfriends, the other reports.  No
\* symmetry: it is unsound for liveness.
SPECIFICATION MCSpec
CONSTANTS
    User = {a, b}
    FriendId = {f1, f2}
    GatheringId = {g1}
    Request = {r1, r2}
    GroupMember = {}
    None = None
PROPERTIES
    RequestsFinish
