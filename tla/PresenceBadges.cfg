CONSTANTS
    f1 = f1  f2 = f2
    u1 = u1  u2 = u2  u3 = u3
    s1 = s1  t1 = t1  s2 = s2  s3 = s3
    c1 = c1  c2 = c2
    Files = {f1, f2}
    Users = {u1, u2}
    Sockets = {s1, s2}
    SocketUser <- MCSocketUser
    Cards = {c1, c2}
    None = None
    TTL = 1
    MaxReports = 4
SYMMETRY FewerSymmetries
SPECIFICATION Spec
INVARIANTS
    BadgesAlwaysBacked
CHECK_DEADLOCK FALSE
