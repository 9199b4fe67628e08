SPECIFICATION CategoriesSpec
CONSTANTS
    Ids = {a, b, c}
    a = a
    b = b
    c = c
    Writers = {r1, r2}
    r1 = r1
    r2 = r2
    Overlapping = FALSE
    NoParent = NoParent
    Uncreated = Uncreated
SYMMETRY IdSymmetry
INVARIANT OneLevel
