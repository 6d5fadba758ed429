INIT LibraryInit
NEXT LibraryNext
CONSTANTS
    \* One agent, two callers at once, three spawns and one fault
    Agents = {"a"}
    Callers = {"c1", "c2"}
    MaxSpawns = 3
    MaxFaults = 1
    Boxes = {"a", "b"}
    MaxMessages = 3
    \* Four turns through a window of three, with room for two in the prompt
    MaxTurns = 3
    Budget = 2
    MaxRecorded = 4
    MaxRestarts = 1
    Answers = {"x", "y", "z"}
    Weights = {0, 1, 3}
    MaxResponses = 3
    \* Prompts of up to six characters
    Letters = {"a", "b"}
    Blank = " "
    MaxText = 6
    Keywords <- MCKeywords
    MaxResumes = 2
    \* Three tasks with two dependencies, and a cascade that may be cut
    MaxId = 3
    MaxEdges = 2
    MaxCuts = 1
    Paths = {"p1"}
    Tasks = {1, 2}
    Names = {"n1"}
    Triggers = {"x1", "x2"}
    MaxCommits = 3
    MaxChanges = 4
INVARIANTS
    CommandsAreSound
    
    
    ChoicesAreSound
    
CHECK_DEADLOCK FALSE
