\* Two requests overlap.
SPECIFICATION Spec
CONSTANTS
    User = {a, b, c, d, e}
    GroupId = {g1}
    Request = {r1, r2}
    MemberLimit = 3
    None = None
INVARIANTS
    MembersWithinLimit
