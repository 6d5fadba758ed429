----------------------------- MODULE LibraryParts -----------------------------
(***************************************************************************)
(* The parts of the agent-teams library whose promises are stated together *)
(* and proved: the orchestrator, the inbox files, an agent's memory, the   *)
(* consensus of several agents, the choice of a backend, the task files,   *)
(* the checkpoints.  They share no state in the code.                      *)
(***************************************************************************)
EXTENDS Orchestrator, Inboxes, Memory, Consensus, Routers, TaskStore, Checkpoints

\* Concurrent senders lose no message of an inbox file, and a consumer that marks
\* what it read is handed none twice, but for one without an id behind another
\* such (poll_inbox, mark_read).  An agent's context is the longest run of latest
\* turns that fits, and unless the memory's file is touched while a save is under
\* way it ends up with the latest turn, or cleared (format_context, send_input).
MessagesAndTurnsKept ==
  /\ InboxTypeOK /\ NothingOverwritten /\ HandedOnce
  /\ MemoryTypeOK /\ ContextIsLatest /\ FileSettles

\* A majority is more than half of those that answered in time and the strategies
\* of a consensus do not contradict one another, whatever the order a map is
\* visited in.  contains_word finds exactly the whole words but those that overlap
\* themselves, every router names a registered backend, and a resumed agent's
\* prompt carries the instructions of its delegations once.
ChoicesAreSound ==
  /\ ConsensusTypeOK /\ MajorityIsOne /\ StrategiesAgree
  /\ RouterTypeOK /\ WordsAreFound /\ RoutesAreRegistered /\ InstructionsOnce

\* A task that waits does so for one that is there and not completed, or whose
\* completion was cut short or written late, and a task that is ready is offered
\* (update_task, get_next_available_task).  A completion that was checkpointed
\* stays on record when later ones overwrite the note, unless two callers collect
\* at once; compute_diff turns the first checkpoint into the second, and both
\* queries show the same ones (AutoTrigger, CheckpointQuery).
WorkIsOnRecord ==
  /\ TaskTypeOK /\ WaitsAreExplained /\ ReadyIsOffered
  /\ CheckpointTypeOK /\ CompletionsOnRecord /\ DiffReplays /\ QueriesAgree
=============================================================================
