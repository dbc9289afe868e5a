SPECIFICATION Spec
SYMMETRY Symmetry
CONSTANTS
    Paper = {p1}
    Name = {n1, n2}
    Sanitize <- OnePaper
    Content = {"x1", "x2"}
    Id = {1, 2}
    Text = {"a", "b", "c"}
    Chunks <- TwoContents
    Job = {j1, j2}
    None = None
    Crowded = FALSE
    StoreFaults = FALSE
INVARIANTS
    OneIngest
    ServedFresh
    IndexedIsThere
    SoleRunAgrees
