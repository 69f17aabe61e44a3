SPECIFICATION Spec
CONSTANTS
    m1 = m1
    m2 = m2
    m3 = m3
    Message = {m1, m2, m3}
    Connection = {c1, c2}
    Size <- Sizes
    maxBytes = 3
    MayFail <- None
    NoOne = NoOne
INVARIANTS FetchHasBody
