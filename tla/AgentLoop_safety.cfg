SPECIFICATION FairSpec
CONSTANTS
    Msgs = {m1, m2}
    Backends = {"codex", "claude"}
    None = None
    MaxExtra = 1
    MaxFaults = 1
INVARIANTS TypeOK AckedIsAnswered FedOnce  
PROPERTY EventuallyAcked
CHECK_DEADLOCK FALSE
