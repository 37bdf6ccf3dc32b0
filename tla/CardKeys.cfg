CONSTANTS
    x = x  y = y
    x1 = x1  x2 = x2  y1 = y1
    lx = lx  ly = ly
    c1 = c1  c2 = c2
    r1 = r1  r2 = r2
    Projects = {x, y}
    Columns = {x1, x2, y1}
    ColumnProject <- MCColumnProject
    Labels = {lx, ly}
    LabelProject <- MCLabelProject
    LabelName <- MCLabelName
    CardIds = {c1, c2}
    Requests = {r1, r2}
    None = None
    MaxNumber = 2
    MaxRequests = 4
    ImportSize = 2
SYMMETRY Symmetry
SPECIFICATION Spec
INVARIANTS
    UniqueKeys
CHECK_DEADLOCK FALSE
