\* One slot: requests follow one another.
SPECIFICATION Spec
CONSTANTS
    User = {u1, u2, u3}
    Email = {e1, e2}
    Handle = {h1, h2}
    Device = {d1}
    Request = {r1}
    PoolSize = 2
    None = None
SYMMETRY Symmetry
INVARIANTS
    SharedHandlesWereReleased
PROPERTIES
    WithdrawalEndsSessions
