SPECIFICATION Spec
CONSTANTS
  Workers = {w1}
  MaxSpawns = 2
  MaxCalls = 2
  MaxFaults = 1
INVARIANTS TypeOK ServedByOneLoop
PROPERTIES DeleteStopsWorkers DeathIsNoticed
