CONSTANTS
    f1 = f1  f2 = f2
    u1 = u1  u2 = u2  u3 = u3
    s1 = s1  t1 = t1  s2 = s2  s3 = s3
    c1 = c1  c2 = c2
    Files = {f1, f2}
    Users = {u1, u2, u3}
    Sockets = {s1, t1, s2, s3}
    SocketUser <- MCSocketUser
    Cards = {c1, c2}
    None = None
    TTL = 2
    MaxReports = 4
SYMMETRY Symmetry
SPECIFICATION Spec
INVARIANTS
    TypeOK
    NoGhosts
    ConflictsShown
    BadgesBacked
CHECK_DEADLOCK FALSE
