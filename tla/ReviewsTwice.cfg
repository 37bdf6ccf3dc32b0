CONSTANTS
    q1 = q1  q2 = q2
    c1 = c1
    k1 = k1  k2 = k2
    Requests = {q1, q2}
    Cards = {c1}
    Reviews = {k1, k2}
    None = None
    MaxReviews = 4
SYMMETRY Symmetry
SPECIFICATION Spec
INVARIANTS
    CarriedOutOnce
CHECK_DEADLOCK FALSE
