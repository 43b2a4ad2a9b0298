SPECIFICATION Spec
CONSTANTS
    b1 = b1  b2 = b2  p1 = p1  q1 = q1  c1 = c1  c2 = c2
    Boards <- TwoBoards
    PostingIds <- TwoPostings
    Home <- TwoHomes
    Repeated = {}
    Contents = {c1}
    Ratio <- SameTitle
    Threshold = 92
    DegradedAfter = 1
    DeadAfter = 2
    FreshnessDays = 1
    Caps = {2}
    None = None
INVARIANTS
    LinksNeverChain

