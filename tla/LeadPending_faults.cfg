SPECIFICATION FairSpec
CONSTANTS
    Msgs = {m1, m2}
    StopHooks = {s1, s2}
    MidHooks = {p1}
    None = None
    Malformed = Malformed
    Undecodable = Undecodable
    MaxFaults = 2
INVARIANTS TypeOK AtMostOnce EntriesAccounted IdleLeadHasHook
PROPERTY EventuallyNotified
CHECK_DEADLOCK FALSE
