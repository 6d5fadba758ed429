SPECIFICATION Spec
CONSTANTS
    i1 = i1
    i2 = i2
    a1 = a1
    a2 = a2
    Ids = {i1, i2}
    Actors = {a1, a2}
    Recipients <- MCRecipients
    Clients = {c1, c2}
    None = None
    Malformed = Malformed
    Undecodable = Undecodable
    TornMarks = {Malformed, Undecodable}
    MaxFaults = 0
    MaxLines = 6
PROPERTY IsMailbox
CHECK_DEADLOCK FALSE
