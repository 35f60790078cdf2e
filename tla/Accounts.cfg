\* Two requests and two connections: transactions can take the whole pool.
SPECIFICATION FairSpec
CONSTANTS
    User = {u1}
    Email = {e1}
    Handle = {h1}
    Device = {d1, d2}
    Request = {r1, r2}
    PoolSize = 2
    None = None
INVARIANTS
    TypeOK
PROPERTIES
    KeepsSessions
    RequestsFinish
