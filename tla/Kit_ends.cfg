SPECIFICATION FairSpec
CONSTANTS
    r1 = r1  r2 = r2  v1 = v1  v2 = v2  x1 = x1  x2 = x2
    classic = classic  modern = modern  standard = standard  direct = direct
    Requests = {r1, r2}
    Kinds = {"kit", "tailor", "letterrender"}
    Versions = {v1, v2}
    Texts = {x1}
    Templates = {classic, modern}
    Classic = classic
    Tones = {standard}
    Standard = standard
    None = None
INVARIANTS
    OneLiveVersion
    NobodyWaitsInACircle
PROPERTIES
    RequestsEnd
