\* The stream of a run that is over stops.
SPECIFICATION Spec
CONSTANTS
    None = None  Nothing = Nothing
    a1 = a1  h1 = h1  p1 = p1  v1 = v1
    r1 = r1  r2 = r2  NoRow = NoRow  x1 = x1
PROPERTIES EngageKillsRecorded CustodySettles EventsArrive
CHECK_DEADLOCK FALSE
