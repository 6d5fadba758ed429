-------------------------------- MODULE Memory --------------------------------
(***************************************************************************)
(* Conversation memory of one agent (src/src/memory/mod.rs) as the         *)
(* orchestrator uses it: send_input records a turn and saves a copy from a *)
(* task of its own, which nobody waits for.  A turn is its number and the  *)
(* length of its line; the two record operations differ in what they save. *)
(***************************************************************************)
EXTENDS Naturals, Sequences, SequencesExt

CONSTANTS MaxTurns,     \* config.max_turns
          Budget,       \* config.budget_chars, less the header
          MaxRecorded,  \* bound on the turns ever recorded
          MaxRestarts   \* bound on restarts of the orchestrator

ASSUME MemoryConstants ==
  MaxTurns \in Nat /\ Budget \in Nat /\ MaxRecorded \in Nat /\ MaxRestarts \in Nat

VARIABLES memory,       \* the turns in the map, or None
          memFile,      \* memory/{agent}.json, or None
          saving,       \* copies on their way to the file, oldest first
          recorded, restarts,
          wanted,       \* ghost: what the file should hold once nothing is under way
          crowded       \* ghost: something touched the file while a save was under way

memoryVars == <<memory, memFile, saving, recorded, restarts, wanted, crowded>>

Turn(n) == [n |-> n, size |-> 1 + (n % 2)]
None == <<Turn(0)>>

MemoryInit ==
    /\ memory = None /\ memFile = None
    /\ saving = <<>>
    /\ recorded = 0 /\ restarts = 0
    /\ wanted = None /\ crowded = FALSE

Enabled == memory # None
SaveUnderWay == saving # <<>>

Evicted(turns) == SubSeq(turns, IF Len(turns) > MaxTurns THEN Len(turns) - MaxTurns + 1 ELSE 1, Len(turns))

RecordTurn(turns) == Evicted(Append(turns, Turn(recorded + 1)))

\* The file wins over the configuration that was passed in.
EnableMemory ==
    /\ ~Enabled
    /\ memory' = IF memFile = None THEN <<>> ELSE memFile
    /\ UNCHANGED <<memFile, saving, recorded, restarts, wanted, crowded>>

DisableMemory ==
    /\ Enabled
    /\ memFile' = memory /\ wanted' = memory
    /\ memory' = None
    /\ crowded' = (crowded \/ SaveUnderWay)
    /\ UNCHANGED <<saving, recorded, restarts>>

\* send_input: recorded whether or not the send worked, saved by a new task.
RecordUser ==
    /\ Enabled /\ recorded < MaxRecorded
    /\ recorded' = recorded + 1
    /\ memory' = RecordTurn(memory)
    /\ saving' = Append(saving, RecordTurn(memory))
    /\ wanted' = RecordTurn(memory)
    /\ crowded' = (crowded \/ SaveUnderWay)
    /\ UNCHANGED <<memFile, restarts>>

\* record_assistant_output saves nothing.
RecordAssistant ==
    /\ Enabled /\ recorded < MaxRecorded
    /\ recorded' = recorded + 1
    /\ memory' = RecordTurn(memory)
    /\ UNCHANGED <<memFile, saving, restarts, wanted, crowded>>

ClearMemory ==
    /\ memory' = IF Enabled THEN <<>> ELSE memory
    /\ memFile' = None /\ wanted' = None
    /\ crowded' = (crowded \/ SaveUnderWay)
    /\ UNCHANGED <<saving, recorded, restarts>>

\* The tasks take the file lock in any order.
SaveLands(k) ==
    /\ k \in DOMAIN saving
    /\ memFile' = saving[k]
    /\ saving' = RemoveAt(saving, k)
    /\ UNCHANGED <<memory, recorded, restarts, wanted, crowded>>

Restart ==
    /\ restarts < MaxRestarts /\ restarts' = restarts + 1
    /\ memory' = None /\ saving' = <<>>
    /\ wanted' = memFile
    /\ UNCHANGED <<memFile, recorded, crowded>>

MemoryNext ==
    \/ EnableMemory \/ DisableMemory \/ RecordUser \/ RecordAssistant \/ ClearMemory \/ Restart
    \/ \E k \in 1..MaxRecorded : SaveLands(k)

MemorySpec == MemoryInit /\ [][MemoryNext]_memoryVars

-----------------------------------------------------------------------------
(* format_context walks back from the newest turn while the budget lasts.  *)

\* The walk comes to a turn: is it still on, the room left and how many turns
\* were selected.
WalkTo(walk, turn) ==
    IF walk.on /\ turn.size <= walk.room
    THEN [on |-> TRUE, room |-> walk.room - turn.size, count |-> walk.count + 1]
    ELSE [walk EXCEPT !.on = FALSE]

Selected(turns, room) ==
    LET walk[k \in 0..Len(turns)] ==
          IF k = 0 THEN [on |-> TRUE, room |-> room, count |-> 0]
          ELSE WalkTo(walk[k - 1], turns[Len(turns) - k + 1])
    IN  SubSeq(turns, Len(turns) - walk[Len(turns)].count + 1, Len(turns))

-----------------------------------------------------------------------------

MemoryTypeOK ==
    /\ Enabled => Len(memory) <= MaxTurns
    /\ memFile # None => Len(memFile) <= MaxTurns
    /\ recorded \in 0..MaxRecorded

\* The sizes of the turns, added up from the newest.
Size(turns) ==
    LET sum[k \in 0..Len(turns)] == IF k = 0 THEN 0 ELSE sum[k - 1] + turns[Len(turns) - k + 1].size
    IN  sum[Len(turns)]

\* The context given to the agent is the longest run of latest turns that fits,
\* and the turns stand in the order they were recorded.
ContextIsLatest ==
    Enabled =>
        LET context == Selected(memory, Budget)
            kept == Len(memory) - Len(context)
        IN  /\ IsSuffix(context, memory) /\ Size(context) <= Budget
            /\ kept > 0 => Size(context) + memory[kept].size > Budget
            /\ \A k \in 1..Len(memory) - 1 : memory[k].n < memory[k + 1].n

\* As long as nothing touches the file while a save is under way, the file ends
\* up with the latest turn a user sent, and a cleared memory stays cleared
\* (send_input, disable_memory, clear_memory).
FileSettles == ~crowded /\ ~SaveUnderWay => memFile = wanted
=============================================================================
