CONSTANTS
    s1 = s1  s2 = s2  k1 = k1  caller = caller
    j1 = j1  j2 = j2  l1 = l1  l2 = l2  t1 = t1  t2 = t2  t3 = t3
    h1 = h1  h2 = h2  e1 = e1  merged = merged
    g1 = g1  g2 = g2  c1 = c1  c2 = c2  doing = doing  done = done  w = w
    u1 = u1
    Slots = {s1, s2}
    Keys = {k1}
    Callers = {caller}
    Absent = Absent
    Window = 4
    MaxCalls = 3
    MaxFailures = 2
    SweepEvery = 3
    DoneDelay = 1
    MaxTime = 7
    Jobs = {j1, j2}
    Links = {l1, l2}
    Tokens = {t1, t2, t3}
    NoAccount = NoAccount
    TokenLimit = 1
    Texts = {"bio"}
    Languages = {"C", "Go"}
    LanguageLimit = 1
    Hooks = {h1, h2}
    OutEvents = {e1}
    MaxTries = 3
    HubEvents = {merged}
    HubKind <- MCHubKind
    HubTickets <- MCHubTickets
    Handlers = {g1, g2}
    Tickets = {c1, c2}
    Stages = {doing, done}
    NoStage = NoStage
    Mappings <- MCMappings
    Wishes = {h1, h2, w}
    AdminWishes = {w}
    BatchSize = 2
    MaxRounds = 3
    MaxAttempts = 2
    Users = {u1}
    Runs = {t1, t2, t3}
    None = None
    DayLength = 3
    LastTick = 7
SYMMETRY Symmetry
SPECIFICATION Spec
INVARIANT
    FailureKeepsTheDay
CHECK_DEADLOCK FALSE
