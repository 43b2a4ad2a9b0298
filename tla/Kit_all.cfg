SPECIFICATION Spec
CONSTANTS
    r1 = r1  r2 = r2  v1 = v1  v2 = v2  x1 = x1  x2 = x2
    classic = classic  modern = modern  standard = standard  direct = direct
    Requests = {r1, r2}
    Kinds = {"kit", "tailor", "render", "docx", "letter", "letterrender", "delete", "track", "create"}
    Versions = {v1}
    Texts = {x1, x2}
    Templates = {classic}
    Classic = classic
    Tones = {standard}
    Standard = standard
    None = None
SYMMETRY Symmetric
INVARIANTS
    DocsHaveObjects
    IndInv
PROPERTIES
    RewritesComeWithDocuments
    KitIsDelivered
