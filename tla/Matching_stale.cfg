SPECIFICATION Spec
CONSTANTS
    b1 = b1  p1 = p1  c1 = c1  c2 = c2  s1 = s1  s2 = s2  w = w  api = api
    Boards = {b1}
    PostingIds = {p1}
    Home <- Homes
    Contents = {c1, c2}
    None = None
    Searches = {s1}
    Refreshers = {w, api}
    Worker = w
    Scope <- OwnBoard
    Resumes = {1}
    Fit <- SecondFits
    Bars = {50}
    Lookback = 3
    MaxClock = 4
    MaxDigests = 1
INVARIANTS
    RequirementsFollowText

