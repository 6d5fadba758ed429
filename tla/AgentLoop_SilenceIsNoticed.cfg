SPECIFICATION Spec
CONSTANTS
    Msgs = {m1, m2, m3}
    Backends = {"codex"}
    None = None
    MaxExtra = 1
    MaxFaults = 0
INVARIANT SilenceIsNoticed
CHECK_DEADLOCK FALSE
