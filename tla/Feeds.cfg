\* Two users, two feeds about one gathering or none, a comment on one of them, and
\* three requests of which two overlap.
SPECIFICATION MCSpec
CONSTANTS
    User = {a, b}
    GatheringId = {g1}
    FeedId = {f1, f2}
    CommentId = {c1}
    Request = {r1, r2}
    MaxRequests = 3
    MaxRows = 2
    None = None
SYMMETRY Symmetry
INVARIANTS
    TypeOK
    DuplicateFeedsBounded
    AudienceWasFriends
    ToldOnce
    NoticesFollowCommits
PROPERTIES
    ReportsHide
