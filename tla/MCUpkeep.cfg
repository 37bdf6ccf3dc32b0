CONSTANTS
    a1 = a1  a2 = a2  a3 = a3  b1 = b1  b2 = b2  r1 = r1  r2 = r2  ann = ann  bob = bob  k = k
    x1 = x1  x2 = x2  x3 = x3  p1 = p1  p2 = p2  p3 = p3  c1 = c1  c2 = c2  doc = doc  draft = draft
    m1 = m1  m2 = m2  i1 = i1  i2 = i2  todo = todo  done = done  h = h
    Tasks = {a1, a2, a3}
    Boards = {b1, b2}
    Homes <- MCHomes
    NoTask = NoTask
    Edits = {r1, r2}
    MaxLinks = 2
    MaxRelocations = 1
    People = {ann, bob}
    Creator = ann
    Nobody = Nobody
    Wordings = {x1, x2}
    Comments = {x1, x2, x3}
    Talks = {k}
    Scans = {r1, r2}
    MaxScans = 3
    MaxUnread = 1
    Paths = {p1, p2, p3}
    Owners = {doc, draft, c1, c2}
    OwnerKind <- MCOwnerKind
    NoOwner = NoOwner
    NoFace = NoFace
    Transfers = {r1, r2}
    MaxFiles = 1
    Staff = {a1, a2, a3}
    Letters = {m1, m2}
    NoLetter = NoLetter
    Desks = {r1, r2}
    Items = {i1, i2}
    Lanes = {todo, done}
    Stay = Stay
    DoneLanes = {done}
    Needs <- MCNeeds
    Blockers <- MCBlockers
    Hands = {h}
    Helper = h
    RuleSets <- MCRuleSets
    Moves = {r1, r2}
    Starts <- MCStarts
    MaxMade = 2
SYMMETRY Symmetry
SPECIFICATION Spec
INVARIANTS
    TypeOK
    Acyclic
    LinksAtHome
    NotifiedOnce
    FilesBacked
    ToldOnce
    BoardsCatchUp
PROPERTIES
    GatesKept
CHECK_DEADLOCK FALSE
