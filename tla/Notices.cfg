\* Two users, one of whom is told something and has it deleted.
SPECIFICATION MCSpec
CONSTANTS
    User = {a, b}
    GatheringId = {g1}
    FeedId = {f1}
    CommentId = {c1}
    Request = {r1}
    MaxRequests = 2
    MaxRows = 1
    None = None
INVARIANTS
    DeletedNoticesAreGone
