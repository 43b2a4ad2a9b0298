SPECIFICATION Spec
CONSTANTS
    None = None
    Terms <- Words
    Texts = {"a", "a1", "a2", "a3", "b", "c", "c1", "c2", "d"}
    Facts <- Found
    PartsOf <- Itself
    Within <- AlsoAcme
    CapsIn <- Capitals
    Keys = {}
    Long <- LongWords
    Similarity <- Near
    Blank = {" "}
    OtherWords = 60
    OtherPronouns = 1
    Profile <- Ada
    Requirements <- Job
    Threshold = 4500
    MaxRewrites = 2
    Overlaps <- NoOverlap
    Rewrites <- Proposals
    MaxAnswer = 2
CHECK_DEADLOCK FALSE
INVARIANTS
    TypeOK
    ClaimsAreBacked
    ReportIsTrue
    SkillsOnlyMove
    ScoresInRange
PROPERTIES
    ImplementsVetted
