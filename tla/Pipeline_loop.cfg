SPECIFICATION Spec
CONSTANTS
    r1 = r1  r2 = r2
    Runs = {r1, r2}
    Beat = Beat
    Request = Request
    None = None
    MaxBeats = 2
    MaxCrashes = 0
PROPERTIES
    NoTaskOnAClosedLoop
