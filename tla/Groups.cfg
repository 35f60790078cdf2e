\* Two requests overlap; with the limit of three an insert has one or two rows.
\* Six users are one more than the overshoot leaves room for.
SPECIFICATION Spec
CONSTANTS
    User = {a, b, c, d, e, f}
    GroupId = {g1}
    Request = {r1, r2}
    MemberLimit = 3
    None = None
SYMMETRY Symmetry
INVARIANTS
    TypeOK
    OwnerStays
    OvershootBounded
PROPERTIES
    ReportersStayOut
