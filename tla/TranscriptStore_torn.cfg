SPECIFICATION Spec
CONSTANTS
    i1 = i1
    i2 = i2
    a1 = a1
    a2 = a2
    Ids = {i1, i2}
    Actors = {a1, a2}
    Recipients <- MCRecipients
    Clients = {c1, c2}
    None = None
    Malformed = Malformed
    Undecodable = Undecodable
    TornMarks = {Malformed}
    MaxFaults = 1
    MaxLines = 5
INVARIANT SavedCanBeRead
CHECK_DEADLOCK FALSE
