SPECIFICATION FirstSpec
CONSTANTS
    None = None  r1 = r1  r2 = r2
    Terms <- Words
    Texts = {"a", "b", "we ship"}
    Facts <- Found
    PartsOf <- Itself
    Within <- Itself
    CapsIn <- Itself
    Keys = {}
    Long <- Words
    Similarity <- Near
    Overlaps <- Nothing
    Blank = {}
    OtherWords = 60
    OtherPronouns = 0
    Drafts = {"note", "tailored", "thanks", "invented", "letter"}
    Written <- Found2
    Job <- JobFound
    NumbersOf <- Nothing
    Requests = {r1, r2}
    Kinds <- OneAndAnother
    Resumes <- TwoResumes
    Requirements <- Asked
    Ats = "greenhouse"
    ContactOf <- Contacts
    FactSets <- MCFacts
    Questions = {"why_company", "salary"}
    AskKinds = {"custom"}
    Personal = {"salary"}
    Tones = {"standard"}
    Standard = "standard"
    Days = {4}
    MaxEdits = 1
CHECK_DEADLOCK FALSE
INVARIANTS
    TypeOK
    ReadyMeansReady
    FollowupsDated
PROPERTIES
    AnswersReplacedKnowingly
    ImplementsVetted
    RequestsEnd
