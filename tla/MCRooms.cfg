CONSTANTS
    founder = founder  member = member  board = board
    i1 = i1  i2 = i2  k1 = k1  k2 = k2  s1 = s1  s2 = s2  task = task
    Users = {founder, member}
    Founder = founder
    Projects = {board}
    Invitations = {i1, i2}
    Calls = {k1, k2}
    None = None
    MaxBegun = 3
    Sockets = {s1, s2}
    SocketUser <- MCSocketUser
    Cards = {task}
    CardProject <- MCCardProject
    MaxAsked = 1
SYMMETRY Symmetry
SPECIFICATION Spec
INVARIANTS
    TypeOK
    AnsweredOnce
    NoLeftoverGrants
    OneRule
    RoomsFollowAccess
CHECK_DEADLOCK FALSE
