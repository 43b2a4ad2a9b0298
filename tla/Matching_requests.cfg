SPECIFICATION Spec
CONSTANTS
    b1 = b1  p1 = p1  c1 = c1  c2 = c2  s1 = s1  s2 = s2  w = w  api = api
    Boards = {b1}
    PostingIds = {p1}
    Home <- Homes
    Contents = {c1, c2}
    None = None
    Searches = {s1, s2}
    Refreshers = {w, api}
    Worker = w
    Scope <- OwnAndForeign
    Resumes = {1}
    Fit <- SecondFits
    Bars = {70}
    Lookback = 4
    MaxClock = 4
    MaxDigests = 3
INVARIANTS
    TypeOK
    MatchesInScope
    DigestsRepeatAtMostOnce

    
