SPECIFICATION LiveSpec
CONSTANTS
    Callers = {c1, c2}
    Writers = {c1, c2}
    Readers = {r1, r2}
    Flights = {f1, f2}
    Nobody = Nobody
    None = None
    MaxDirs = 11
    Scenes <- MCScenes
    c1 = c1
    c2 = c2
    r1 = r1
    r2 = r2
INVARIANTS LocalTypeOK SingleFlight NoMissedWakeup SessionHasBuffer NothingCharged TempBounded
PROPERTIES WritesReturn
