CONSTANTS Names = {a, b}
          Pids = {p, q}
          Grace = 3
          MaxCreates = 3
          MaxDeletes = 1
          \* Two clients, a daemon that ends.
          Clients = {"c1", "c2"}
          MaxDaemons = 4
          MaxDeaths = 1
          MaxTries = 2
          \* Two failures, one request of each timer in flight.
          Shown <- MCShown
          Unselected = "no team"
          ErrorLimit = 2
          RefreshLimit = 2
          MaxSelects = 1
          MaxVersions = 2
          MaxFailures = 2
          MaxOverlap = 1
SPECIFICATION LiveSpec
INVARIANTS LiveTypeOK  NoCrossTalk
PROPERTIES  OrphansGo CallsEnd PageSettles
CHECK_DEADLOCK FALSE
