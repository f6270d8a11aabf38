CONSTANTS
    r1 = r1
    r2 = r2
    c1 = c1
    c2 = c2
    Nothing = Nothing
    Sessions = {s1}
    Revisions = {r1, r2}
    Drafts = {d1}
    Views = {v1}
    Editors = {c1, c2}
    MaxPlace = 4
SPECIFICATION Spec
SYMMETRY MCSymmetry
INVARIANTS
    DirtyMeansADraft
    EveryChainEnds
    RestoresAreVerbatim
CHECK_DEADLOCK FALSE
