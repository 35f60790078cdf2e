\* One slot: the order of the requests is enough.
SPECIFICATION Spec
CONSTANTS
    User = {u1, u2, u3}
    Email = {e1, e2}
    Handle = {h1, h2}
    Device = {d1}
    Request = {r1}
    PoolSize = 2
    None = None
INVARIANTS
    ActiveHandlesDistinct
