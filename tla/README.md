# A TLA+ model of agent-teams-mcp

The repository is a Rust service that lets one Claude Code session (the *lead*)
run a team of worker agents, the library it grew out of, and a web page to watch
both. Messages between members live in files under `<project>/.agent-teams/<team>/`;
a service process (`team_mode_service`) writes them for MCP callers, drives one loop
thread and one child process per worker, and short-lived hook processes of the
lead's Claude Code (CC) carry replies back into the lead's context. Nothing but
files, a few locks and channels connects these actors, so most of what can go wrong
is an order of steps.

## Parts of the system

| Part | State | Operations | Hard behaviour | Module |
|---|---|---|---|---|
| Transcript (`MessageStore`, `InboxService`) | `messages.jsonl`, one lock per team | save, receipts, delete, replay | concurrent receipts, interrupted appends | `TranscriptStore`, `Mailbox` |
| Lead-pending queue and hooks | `lead_pending.jsonl`, renamed files, hook lock files | append, sweep, claim, poll, drain, inject | the reader takes no lock, several hooks, kills | `LeadPending` |
| Worker loop (`AgentLoop`) | inbox snapshot, turn, probe | peek, feed, wait, notice, ack, sleep | child death, lost notifies, stale events | `AgentLoop` |
| Backend sessions (Claude, codex, gemini) | child, pipes, bounded channel, idle gate | handshake, send_input, reader task, shutdown | lost wake-ups, a full channel, a process per turn | `Sessions` |
| `send_message`, notices, web posts | transcript | mentions, lookup, probe, save, preempt | members change during the call | `Routing` |
| Worker lifecycle and member store | members.json, sidecar, session map, loops, children | worker_add/remove, team_create/delete, two watchdogs | five records changed one after another | `Workers` |
| Team ownership, lead watchdog | team.json of every team, strikes | create, rebind, revive, overwrite, delete, tick | decisions from stale lists | `Teams` |
| Service start, relay | service lock, token, runtime file, port | find or start the one service | several relays, crashes | `ServiceStart` |
| MCP server over HTTP | handshake flag, subscriptions, mutex | payloads, project header | shared runtime, restart | `McpServer` |
| Daemon and its clients | daemon.json, start lock | ensure_daemon, call_method | start races, retries | `Daemon` |
| Stdio server and the process tree | process table | sweep of orphans, liveness watchdog | numbers used again | `ProcessTree` |
| Installation | the user's config, settings, skills | install, uninstall, init | interrupted in the middle | `GlobalInstall` |
| Web UI: conversations, feed | session files, cursors | resolve, read items, read_events, SSE | growing files, lost connections | `Conversations`, `EventFeed` |
| Web UI: page | selected team, members, streams, requests | load, poll, refresh, lay out turns | answers out of order | `Dashboard`, `TurnView`, `ConversationPanel` |
| Library: tasks | task files, dependency graph | create, complete, cascade, sort | interrupted cascades, cycles | `TaskStore`, `TaskGraph` |
| Library: orchestrator | config.json, sessions, saved state | spawn, send, shutdown, resume | calls that overlap | `Orchestrator` |
| Library: inboxes, memory | inbox files, turns and their file | send, poll, mark; record, save, clear | saves nobody waits for | `Inboxes`, `Memory` |
| Library: consensus, routers | answers, registered backends | vote, route | ties, map order, whole words | `Consensus`, `Routers` |
| Library: checkpoints, costs | git notes, session logs | collect, store, diff, aggregate, cut | state moves while it is collected | `Checkpoints`, `SessionCosts` |
| Command line | the post-commit hook, notes, logs | hook install/uninstall, checkpoint create, cost, dag | the user edits the same hook file | `CommandLine`, `TaskGraph` |
| Terminal dashboard | tab, cursor, open detail, what was last read | keys, ticks, refresh | the data moves under the cursor | `Terminal` |

How they meet: `send_message` checks the orchestrator (is the worker's session
alive), saves through `MessageService` into the transcript, wakes every waiting
loop through `InboxNotifier`, and appends for the lead. A loop peeks the same
transcript, talks to its session through the orchestrator's mutex and writes
receipts and notices through the same services. Hooks see only the pending file.
The web UI derives everything it shows from the same files.

What makes each part correct: a saved message can be read and its receipts add up
(transcript); each reply reaches the lead once, or is lost only where that is
known (queue and hooks); a worker gets each message once and no message is
acknowledged with neither an answer nor a notice (loop); records and processes
agree about who is running (lifecycle); a living lead keeps its team and an
orphaned team goes (ownership); one service per directory and one daemon per data
directory (start); what is shown is of the one it claims to be of, complete, and
current in the end (web UI).

## Modules

**JsonLines** is the file format the two append-only stores share: a sequence of
lines and whether the last one is terminated. `writeln!` on an unbuffered handle
is two writes, so `WriteLine` and `WriteNewline` are separate, `WriteTorn` is a
write cut short, and bytes appended to an unterminated line join it. A line is the
entry it decodes to, `Malformed`, or `Undecodable` (cut inside a UTF-8 character,
which makes `read_to_string` fail for the whole file).

**Mailbox** is the abstract specification of the transcript: messages are posted
once, collect read and ack receipts from their recipients, and may be deleted for
good; each operation happens at one instant.

**TranscriptStore** is `MessageStore` with `InboxService`'s receipts. `Save`,
`Receipt` and `Delete` take the lock and compute the line, `AppendLine` and
`Finish` are the two writes, `Interrupt` is a crash or a failed write between
them. `Readable` and `LatestEntry` are `snapshot_locked`. `told` records what
callers were told, `joined` whether bytes ever landed on an unterminated line.
A receipt is modelled by the set of its actors; message bodies, rooms and times
are left out. Ids are fresh (uuid v4). `Delete` is enabled for ids with an entry,
though the code would also append a tombstone for an id nobody has.

**LeadPending** composes the tail of `send_inner` (save, then append under the
lock) with CC's hooks. Files are inodes: `path` is the one the name
`lead_pending.jsonl` refers to, `fd` the one an append has open, `tmp` the one a
hook has renamed, which is what makes a late write into a drained file
expressible. `hpc` is the program counter of each hook: start, sweep, claim the
lock file, poll, rename, read, grace sleep, second drain, inject, or check for
orphaning and replacement. `lost` is a history of entries that nobody will inject
any more, each with the step that lost it. One team and one CC; a hook whose CC
owns no team only sleeps and is left out, as is the identity cache. The sweep is
one step that kills any subset of the running siblings (finding and killing a
process may fail).

**AgentLoop** is one worker: `AgentLoop::run`, step by step (`pc`), its probe
task, the session (`session`, `proc`, `eof`, `chan`, `working`), `send_message`
towards the worker (`spc`), preemption, and `worker_remove`. The output channel
carries only terminal events; text and deltas are discarded by the loop. `grew` is
the comparison `final_sent > baseline_sent` the loop would make now, so the two
counts are not kept. `batch` is a set, taken in the order of the inbox: an inbox
only grows at its end and holds a message once. Taken from the code's use and
marked external or assumed: a Claude turn has one `result` event; codex ends an
interrupted turn with `turn/completed` and answers an interrupt of a finished turn
with an error response, and an `error` notification does not end its turn. At most
one interrupt is in flight. `created_at` is stamped right before the save and the
two are one step here, so no property of this module speaks of message order.

**Workers** is the life of a worker in five records no lock covers two of: its
entry in members.json (`Load` and `Store` of each change are separate steps), the
sidecar, the orchestrator's session, the loop's handle and the child. The tool
thread, the lead watchdog, the liveness watchdog and the loops' write-backs each
have a program counter. **Teams** is who owns a team: `team_create` in its four
forms, `team_delete`, and the watchdog's tick as list, judge and archive. The teams
lock covers one read or one write.

**ServiceStart**, **Daemon** and **ProcessTree** are the three ways processes find
each other: a runtime file checked by `/healthz`, `daemon.json` under a start lock,
and the process table with numbers that are used again. **McpServer** is the
endpoint behind the service's mutex and the percent-encoding of the project header,
byte by byte because the property is about the bytes. **GlobalInstall** is each
command as the sequence of files it rewrites, with an interruption possible at each.

**Sessions** is one backend session from the handshake to its end; **Routing** is
`send_message` from the mentions to the notices and its answer, call after call, a text
being a sequence of tokens.
**Conversations**, **EventFeed**, **Dashboard**, **TurnView** and
**ConversationPanel** are the web UI: which file a pane reads, which events follow a
cursor, what the page asks and shows, and how a log becomes turns. What a team looks
like is a version number for `Dashboard`.

**TaskStore**, **TaskGraph**, **Orchestrator**, **Inboxes**, **Memory**, **Consensus**, **Routers**,
**Checkpoints** and **SessionCosts** are the library. Its pure algorithms (cycle
check, topological order, critical path, word search, votes, window, diff, walk,
sums, cut) are operators translated from the code and compared with a definition of
what they should compute, over every input a bounded sequence of operations builds;
where the code iterates over a `HashMap`, an operator gives the set of results.
`TaskGraph` extends `TaskStore` with the algorithms on the dependencies, which are
recursive operators; the files, what they wait for and what is offered are in
`TaskStore`, about which something is proved. **LibraryParts** extends the seven parts
the theorems are about and states what they promise together.

**CommandLine** is the `agent-teams` command where it changes something: the hook file
is a sequence of lines, each the user's or ours, and install and removal are functions
from one file to another, `Uninstalled` with the loop's own idea of which lines behind
the marker are ours. A commit runs the hook, which stores the whole usage of the latest
session log as the note of HEAD; `Cost` adds the notes up. Its `dag` commands are in
`TaskGraph` (`LoadTasks`, `DagNext`, `DagIsValid`), its printed diff in `Checkpoints`
(`NoDifferences`), the cuts of its tables in `SessionCosts` (`Display`). **Terminal** is
`App`: each key and each tick is an action, `RefreshAll` reads teams, checkpoints and
costs in this order from a `disk` that changes in between, and `Drawn`, `Shown`,
`StatusBar`, `Header` and `Summary` are what the panes draw. The channel between the
reader thread and the loop only orders keys and ticks and is left out, as is the pause
in typing that a tick needs: without one there is no refresh.

The components that interact share a module; where they only share a data type
(`AgentLoop` and `Workers` both know loops, `Sessions` and `AgentLoop` sessions) each
models what the other does to it as nondeterministic steps of its environment.

Definitions whose comment starts with *Mutant* are changed forms of the definition
below them, used only to show that a property can fail.

## Runs

`MCHost`, `MCLive` and `MCLibrary` each hold the small instances of several
components. A behaviour is one of `which` of them and the others rest in an initial
state, so that the state space is the sum of the components' and a property that
speaks of one component is checked on exactly its own behaviours. `MCHost` extends
`ServiceStart`, `Sessions`, `Routing`, `GlobalInstall`, `Conversations`, `EventFeed`,
`ProcessTree`, `McpServer` and `ConversationPanel` (with `TurnView`); `MCLive` extends
`Teams`, `Daemon` and `Dashboard`; `MCLibrary` extends `LibraryParts` and `TaskGraph`.
They check the properties of these as the modules state them, which are the definitions
the theorems are about; where `which` is another component, their variables rest in the
initial state. `SessionCosts`, `CommandLine` (twice, with different bounds) and `Terminal`
are instances in `MCLibrary`. `CommandsAreSound` there is the conjunction of their
type invariants and named properties and those of `TaskGraph`, each stated and commented
in its own module; `LiveTypeOK` in `MCLive` is the conjunction of the three components'
type invariants.

| Run | Shows |
|---|---|
| `transcript_faults` | 2 clients, 2 messages (one with two recipients), 1 interrupted append, 5 lines. Only the lock holder is inside an operation; a torn tail costs nothing until bytes are joined to it; up to then every step is a mailbox step. |
| `transcript_refines` | the same without interrupts, 6 lines: `TranscriptStore` implements `Mailbox`. |
| `transcript_torn` (violation) | the save after a torn append is lost although it returned Ok. |
| `lead_pending` | 2 messages, 2 Stop hooks at a time, 1 mid-turn hook, 2 faults. No double injection, no entry for an unsaved message, every entry accounted for, only two ways to lose one without faults, an idle lead keeps a hook, and every entry is injected or lost for a named cause in the end. |
| `agent_loop` | codex and Claude, 2 messages, 1 preemption or error notification, 1 store failure, death and removal at any point: nothing swallowed, nothing fed twice, deaths reported truly, every message acknowledged unless the loop ends. |
| `agent_loop_stale_event` (violation) | an error notification shifts the turns by one; a later message ends unanswered and unnoticed. |
| `workers` | 1 worker, 2 spawns, 2 calls, 1 fault (failed shutdown, failed loop, dead lead or restart): a worker reported as running has one loop, a deleted team leaves no process, a death is noticed. |
| `workers_removal` (violation) | a loop that loaded members.json before `worker_remove` writes the removed worker back. |
| `host` | `ServiceStart` (2 relays, 2 directories, 3 services, 1 crash), `GlobalInstall` (3 commands, 1 interrupted), `Conversations` (2 leads, 1 Claude and 2 codex workers), `EventFeed` (2 workers, 2 messages, responses of one event, 1 lost connection), `Sessions` (3 backends, channel of 2, 3 inputs), `Routing` (2 workers, 4 handles, texts of 2), `McpServer` (2 clients, 4 paths, 4 payloads, 1 restart), `ProcessTree` (4 numbers, 4 spawns), `TurnView` (logs of 4), `ConversationPanel` (3 members). |
| `host_restart` (violation) | a relay whose service was restarted keeps a connection on which everything is refused. |
| `live` | `Teams` (2 names, 2 leads, grace 3, 3 creates, 1 delete), `Daemon` (2 clients, 4 daemons, 1 end, 2 tries), `Dashboard` (2 teams, 1 selection, 2 versions, 2 failures), with fairness: living leads keep their teams, orphans go, one daemon, every call ends, no answer for another team is shown, the page settles. |
| `library` | `TaskStore` and `TaskGraph` (3 tasks, 2 edges, 1 cut), `Orchestrator` (1 agent, 2 callers, 3 spawns, 1 fault), `Inboxes` (2 boxes, 3 messages), `Memory` (4 turns through a window of 3), `Consensus` (3 answers of 3), `Routers` (texts of 6, keywords that overlap themselves, hold a blank, begin another or are empty), `Checkpoints` (3 commits, 2 triggers), `SessionCosts` (3 logs), `CommandLine` (3 lines of the user's, 4 installs or removals; apart from that 2 logs and 2 commits), `Terminal` (2 teams, 3 changes on disk, a refresh every second tick). |

Bounds. Two messages are enough for a receipt or an append to meet another one and
for a batch that outlives a turn; two Stop hooks for a replacement, and a hook that
ended may be started again, which gives chains of them; two faults for a failure
during the recovery from another. Two relays, clients, callers or triggers are one
race each; the instances give every pair of operations a chance to overlap, and a
third service, daemon or spawn to follow on the outcome. A channel of two is filled
by a text and an end. Three tasks hold every shape of two edges: chain, fork, join
and cycle. Texts of six letters hold a keyword that overlaps itself between two
boundaries. Bounds are constants named `Max...`; the runs whose actors all finish do
not check deadlock; the two runs of `Workers` do.

Fairness. In `lead_pending` service threads and started hooks keep running (they are
operating-system threads in loops with bounded sleeps) and CC ends its turns, which
spawns a Stop hook. It assumes nothing of the user; a user who interrupts the idle
lead for ever is the one exception the property names. In `agent_loop` the loop
thread and its probe task run and a living child ends its turns. It does not assume
that a dead child's pipe reaches end of file: the probe exists because it may not.
The `SF` that would be needed to wait for a notify is not assumed, the 30-second
fallback does the work, and without it (`OnlyNotified`) the property fails. In
`workers` the liveness watchdog's interval fires and its steps run. In `live`,
accepted tool calls are served and the lead watchdog's interval fires (`Teams`); a
client's step is taken, since every wait of it has a deadline (`Daemon`); the
two-second timer fires and the oldest request is answered or fails, which is what
the browser's timeout gives (`Dashboard`).

## What is proved

`TranscriptStoreProofs` proves, for every set of clients, ids, actors and
recipients and every bound:

- `TypeCorrect`: `Spec => []TypeOK`, which includes that only the lock holder has
  an entry to append.
- `TornTail`: `Spec => []TornTailTolerated`.
- `RefinesUntilJoined`: `Spec => MailboxUntilJoined`, every step is a mailbox step
  or none until an append lands on an unterminated line.
- `RefinesMailbox`: with `MaxFaults = 0`, `Spec => IsMailbox`, that is the abstract
  specification itself.
- `NoRepair`: `Spec => UnreadableForGood`, an unreadable transcript stays so.

The assumptions are those of `TranscriptConstants` (recipients are sets of actors,
the special values differ from entries). The inductive invariant is `IInv`:
`TypeOK`, the shape of an unterminated tail, and, as long as nothing was joined,
`Good`: broken lines only at the unterminated tail (`BrokenOnlyAtTail`), unsaved
ids occur nowhere (`FreshIds`), the entry a client is about to append was computed
from the version now in the file (`PendingFits`), a written line is the file's
last (`WrittenShows`), and what callers were told still shows (`AllToldShows`).
`PendingFits` is the heart: `AllToldShows` alone is not inductive, because the
append of a stale version would erase receipts; the lock makes the version current
at the append. The lemmas about `LinesOf`, `LatestEntry` and `WriteLine` say what
one more line does to a replay.

`AgentLoopProofs` proves, for every set of messages, either backend and any bound
on interrupts, error notifications and store failures, the type invariant
(`TypeCorrect`) and every safety invariant of the run `agent_loop`:

- `DeathsAreReal`: `Spec => []DeathNoticesAreTrue`.
- `LoopsOutlive`: `Spec => []LoopOutlivesChild`.
- `HandedOverOnce`: `Spec => []FedOnce`.
- `NothingSwallowed`: `Spec => []AckedIsAnswered`.

None of the four is inductive; the invariant `Inv` adds what ties the loop's
beliefs to the process. `SignsOfDeath`: a closed session, an end of file, a probe
result and a turn that ended as closed or died all imply that the process is gone.
`OneTurn`: unless an interrupt or an error notification put a stray event into the
channel, a living child holds the input of the turn the loop waits for, or has
answered it with one event, and nothing else; this is why a Claude session that
refuses an input is dead, and why a message count that grew belongs to the message
in hand (`GrowthIsSpeech`, `AckIsEarned`). `BatchIsUnread` and `FedIsKept` follow
a message from the peek to its receipt. `InterruptsCounted` and
`NothingBeforeDrain` exclude stray events from an undisturbed worker and from the
first drain. There is one lemma per part, and in each a step per group of actions.
The assumptions are `AgentLoopConstants`.

`LeadPendingProofs` proves, for any number of messages, Stop hooks, mid-turn hooks
and faults, every invariant of the run `lead_pending`:

- `TypeCorrect`: `Spec => []TypeOK`.
- `LeadKeepsHook`: `Spec => []IdleLeadHasHook`.
- `ToldOnce`: `Spec => []AtMostOnce`.
- `QueueAccounts`: `Spec => []EntriesAccounted`.

`Control` says who names which file: a file has one name, the shared one or one
hook's private one (`OneName`), a send that has the file open holds the lock
(`LockHeld`) but may name a file that was renamed since, and the file a send will
create is nowhere yet (`Untouched`). `Content` says that entries of different files
and of the drained batches are apart and each entry is written once; without
`OneName` two hooks could read the same lines, and `AtMostOnce` alone is not
inductive. `AllAccounted` follows an appended entry through renames, reads, kills and
crashes to one of the named places, `Clean` excludes torn lines while nothing failed.
`LeadKeepsHook` needs that the lock file names a hook that runs, or one is about to
claim it (`Succeeded`): that hook outlives whoever steps down.

`LiveProofs` proves of `Teams`, for any names, leads and grace:

- `TypeCorrect`: `Spec => []TypeOK`.
- `LeadsKeepTeams`: `Spec => OwnersKeepTheirTeams`, both action properties.

The lock of the team store covers one read or one write, so a decision may be stale
when it is written; the invariant says how stale. `CallIsCurrent`: between a call's
list and its save a team can only have been archived by the watchdog. `SaveIsEarned`:
a call that is about to save found no living owner, and leads do not come back.
`TickIsRight`: a lead that the tick's process list missed is still missing.

Of `Daemon` it proves `ClientsShareOneDaemon`: `DaemonSpec => [](DaemonTypeOK /\
OneDaemon)`, for any clients, daemons, deaths and tries: as long as no daemon died and no
start was given up, clients that find none end up with one between them; a call reported
as done was executed, and none more often than it is tried. `OneDaemon` is not inductive.
`LockIsHeld` gives the start lock to the one client between the second look and the end
of its wait; `FileNamesServer` says `daemon.json` names a daemon that came to serve, and
that nobody is about to remove the file of a living one; `LiveIsKnown` that a daemon
which lives is the one in the file, or is waited for by the holder of the lock while
there is no file (a daemon nobody knows would be started over); `RunsAreTried` counts
runs against tries. The assumption is `DaemonConstants`.

Of `Dashboard` it proves `TeamsStayApart`: `DashboardSpec => [](DashboardTypeOK /\
NoCrossTalk)`, for any teams, any limits and any number of requests in flight. An answer
is judged when it comes, by what is selected then; the invariant `PageInv` adds to
`NoCrossTalk` the type of every request (`Req`: only the list of teams is asked for
without a team) and that the counters stay below the limits at which the page gives up.
The steps rest on what an answer does to the other requests: it takes its own out of the
sequence and leaves the rest, so the load that will replace a left team's members is
still there (`RemovedAt`, `AnswerStep`). The assumption is `DashboardConstants`.

`ComponentsKeepTheirTypes`: `LiveSpec => []LiveTypeOK` puts the three together: `LiveInv`
is the conjunction of their invariants, and a step of the composition is a step of one
and leaves the others alone. Among the types is that no team's strikes reach the grace.

`WorkersProofs` proves, for any number of workers, calls, children and faults, every
safety property of the run `workers`:

- `TypeCorrect`: `Spec => []TypeOK`.
- `RunningIsRead`: `Spec => []ServedByOneLoop`.
- `DeleteStops`: `Spec => DeleteStopsWorkers`.

`Serving` carries the first two: a session, a loop and the call in hand name a child of
their own worker (`Kids`), a loop nobody told to stop is the one its worker's handle
stops (`OneLoop`), and a live session has a loop, had one, or is in the hands of the
call that starts it (`Served`). `Deletable` carries the third: a record is marked
removed only after its child was stopped (`GoneFirst`), as long as no write was lost a
child that is neither broken nor failed has an active record (`KeptIsActive`), and the
list that `team_delete` takes once at its start stays complete, because only the tool
thread spawns (`ListIsComplete`). The run `workers` checks one worker, the theorems hold
for any number; the assumption is that "none" is no worker's name.

`HostProofs` proves of `ServiceStart` `RelaysAreServed`: `StartSpec => []RelaysMeetTheirService`,
for any relays, directories, services and crashes: a directory has one service past its
lock, a relay that was let through talks to a service of its own directory, and a relay
fails only for a timeout, a crash or a service of another directory. `LockIsHeld` and
`PortIsServed` tie the lock and the port to the processes, `TokenIsMade` and
`TokenIsWhole` exclude an empty token without a crash, `FileNamesService` says that a
process number in the runtime file, or taken from it, is of a service of that directory
that had come to bind the port (`RelayKnows`), and `FailedHasRival` and
`FailuresAreCaused` carry the causes from the step where they arise to the relay that
gives up. The property alone is not inductive because a relay acts on what it read
several steps ago. The assumption is `StartConstants`.

Of `Sessions` it proves `TurnsAreDelivered`: `SessionSpec => []TurnsReachTheirEnd`, the
whole safety property of a backend session, for any number of inputs and any capacity of
the channel: Claude is given an input only after the result of the one before was read,
no sender sleeps at an open gate, the end of a turn reaches the consumer however full the
channel is, and no process outlives its session. `NothingReadBefore` keeps the reader
off during codex's handshake; `OneTurn` says that Claude has one turn on its way at most,
begun or with its one result still to be read, and none while the gate is open;
`WaitIsSound` that a sender which found the gate closed has been notified since, or the
gate is closed still (this is where the order of registering for the notification and
looking at the gate matters). The assumption is `SessionConstants`.

Of `GlobalInstall` it proves `InstallsAreKept`: `InstallSpec => []InstallKeepsItsWord`,
for any skill files, any number of commands and of interruptions. A report of success is
made at the last file and speaks of all of them, so the invariant carries the earlier
ones along: `DoneSoFar` says for each place of a command what it has done before it gets
there. `HooksAreOnce` says that an event never holds our hook twice, nor beside an entry
it shares with the user's, which is what makes a second install harmless, and that an
`init` past its check still finds no v2 hook. `WholeFiles` says that, unless a write was
torn, nothing in the files can make an install refuse but what the user had put there.
The lemmas before it say what the merges and removals make of one event and of one file.
The assumption, `InstallConstants`, is only that the bounds are numbers.

Of `Routing` it proves `MessagesArrive`: `RoutingSpec => []MessagesGoWhereNamed`, for any
workers, handles and texts and any number of calls and messages. What the probe found is
old when the notices are written and the message is saved. `HandlesPlaced` keeps every
handle of the call with a member that is still to be probed, was found alive or was found
dead, or with the caller; `DeathsTold` says that whoever was found dead and noticed has a
notice in the transcript, unless he was removed meanwhile, that the lead is never among
them and that the web user stays active; `AllAccounted` is the property from the save to
the answer, which later deaths, posts and removals must not undo. The assumption is
`RoutingConstants`: names are in lower case (`validate_slug_name`) and no worker is named
as the web user (`worker_add` refuses it).

Of `ProcessTree` it proves `OrphansEnd`: `TreeSpec => []OnlyOrphansEnd`, for any numbers,
however they are given away again, any number of spawns and any depth of the walk. Numbers
come back, so a link to a parent says nothing by itself; what tells a parent from a process
that only has its number is when they started. `Sound` therefore says of a table that a
real parent is there and not younger than its child and that whoever has taken a parent's
number is not older (`Ordered`), and that the Claude Code a server has resolved is there,
with the start it had when the watch began, or is gone (`Watched`). The lemmas show that
one walk up the table, and one end of any processes, keep this, and that a walk over links
in that order meets exactly the ancestors up to its depth.

Of `McpServer` it proves `CallsServed`: `McpSpec => []CallsAreServedOnce`, for any clients,
payloads, restarts and paths of any bytes. `McpInv` says of each client how far its
payload is: what is to do is the end of what was sent, each request before it is answered
and each call before it has run, or a message was malformed and the payload has one answer;
a client that does not hold the mutex is at the start of its payload. That a call finds the
project of its client is the statement that decoding an encoded path gives the path:
`Encoding` and `Decoding` describe the two loops by what they have done after each byte.

`WebProofs` proves of `Conversations` `PanesAreOfTheirMember`: `ConversationSpec =>
[]PanesShowTheirMember`, for any leads, workers, sessions and lines. The map of the leads'
sessions is read, written beside and renamed by hooks that cross, through one name for the
temporary file, so what a hook renames may be what another has written. `MapsTyped` says
of every copy of the map, in a file of either name, in a file that has none any more or in
the hands of a hook, that it is torn or gives each lead a session of that lead. `ItemsStay`
says that what was shown still stands in the log, in a line that is complete, so that a
line read half-written gives no second item under an id. The assumption is
`ConversationConstants`: a worker has one backend, and no lead is a worker.

Of `EventFeed` it proves `EventsReachTheClient`: `FeedSpec => []FeedIsExact`, for any
workers, messages and losses of the connection and any limit of a page. A cursor is made at
one moment and used at another, when the files have grown and the stream is ahead of the
client. `Exact` therefore says of a cursor and a set of events that the cursor stands
behind exactly these: none of them comes again, none before it is missing, and whatever the
files gain comes later (but a message appended after one stamped later). `ChainIsExact`
holds it of the client's cursor and what the client has, of each cursor on the wire and
what will have come with it, and of the stream's, so that losing the connection anywhere
along the chain starts a new one that is exact. `NothingTwice` keeps the events on the wire
apart. The lemmas `PositionIs`, `SourceFits` and `PageFits` say what a page does to the
position of each source; that a greatest key or index exists, which would be an induction,
follows from the well-foundedness of the naturals and of strict inclusion (`LatestIs`,
`GreatestIndex`). The assumption is `FeedConstants`: a page has at least one event.

Of `TurnView` and `ConversationPanel` it proves `ConversationStaysWhole`: `TurnSpec /\
PanelSpec => []ConversationIsWhole`, for any log, however long, any tool ids, any members
and any order of answers. The page makes turns of a log in three loops, which the model
writes as recursive functions on `0..n`; what such a function is after k items is proved as
an invariant of the loop. `Layout`: each item but blank text is shown once, or waits in the
set-up, and in order. `Pairs`: a call that has a result has its own, one without has none
so far, and a call that waits is the last that could be answered. `Spanned` and `Grouped`:
groups follow one another without a gap, a turn starts at a prompt or where there is none
before, and turns are counted. `Final`: the marked text is the last of its turn. `PanelInv`
is that the panel's log is of the selected member.

`LibraryProofs` is about the modules `LibraryParts` extends. It proves `TeammatesStayConsistent`: `OrchSpec =>
[]TeammatesAreConsistent`, for any agents, callers and faults. Neither of its parts is
inductive. For `OneHolder`, `Holders` says of each session where it is, in the map under
one agent or with one call as its own or as the one it replaced, and that the numbers
not yet given out are nowhere. `RecordsAgree` speaks only of moments between calls; `InStep`
carries it through them: an agent no call works on is `Settled` (a member, with a
running session and a saved state, or none of the three), and for the one a call works
on `Midway` says after each step which of the records have been brought up to date, so
that both the finished and the rolled-back call end in `Settled`. `Alone` (until calls
overlap one is under way at most) makes the two cover every agent. The assumption is
`OrchConstants`.

`MessagesAndTurnsStay`: `InboxSpec /\ MemorySpec => []MessagesAndTurnsKept`, for any
boxes, messages, turns, sizes and budgets. Of the inboxes, `InboxInv` says that a number
stands for one message of one box, in order (`BoxesHold`), that a written message is in a
box until the box is emptied (`NoneMissing`), and that a message whose id finds it was
handed over once at most and is with the consumer while it is unread after that
(`Handing`). Of the memory, `MemoryInv` says that every list of turns there is, in the
agent, in the file or in a save under way, is in order and within the window
(`GoodTurns`), and that as long as two saves never met the last one carries what is wanted
(`Settling`). `SelectedIs` shows that the walk back over the turns selects the longest end
of them that fits.

`ChoicesStaySound`: `ConsensusSpec /\ RouterSpec => []ChoicesAreSound`, for any agents,
answers, weights, alphabet, prompts and keywords. The state is little (`ResponsesTyped`,
`RouterInv`), the algorithms are the matter: `ActiveIs` and `WeightIs` say what the filter
and the sum compute, `MajorityDecides` that more than half leaves no second answer,
`SearchIs` that the search finds the first match from a place, and `WordsAreSearched`,
with `MatchesApart`, that going on behind each match misses no whole word that does not
overlap itself.

`RecordsStayTrue`: `TaskSpec /\ CheckpointSpec => []WorkIsOnRecord`, for any tasks,
dependencies, cuts, callers, paths, commits and changes. Between two steps of a cascade a
task may wait for one that is over; `Waits` says that it is then one of those the cascade
has still to visit, or that the edge is known to be late. Of the checkpoints, `Dated` says
that no two have the same date, those still being collected included, which makes the
timeline's order unique (`NewestFirst` and `ShowsAll` show that it exists and shows every
note), `Completed` that the task of a collecting caller, and of a completion on record, is
completed on the board, and `Recorded` that while callers do not cross the one about to
save has collected every completion on record. That is what `CompletionsOnRecord` lacks: a
save replaces the note of its commit, so it must not know less than the note it replaces.

The assumptions are `InboxConstants`, `MemoryConstants`, `ConsensusConstants`,
`RouterConstants`, `TaskConstants` and `CheckpointConstants`: bounds are natural numbers,
weights are integers, a blank is no letter and keywords are made of both.

Loops are proved without an induction theorem, since the library's take an operator as a
parameter. `NatsFrom` states induction as a fact about one set of numbers, from the
well-foundedness of the naturals; `RecursionExists` derives from it that a function on
`0..n` made step by step exists. The operators proved about are written as recursive
functions or as a choice among functions that satisfy the loop's equation.

## What is only model-checked

- Liveness under fairness, which is out of TLAPS's reach: `EventuallyNotified`,
  `EventuallyAcked`, `DeathIsNoticed`, `OrphansGo`, `CallsEnd`, `PageSettles`.
- `CommandsAreSound`. Kahn's loop, the search for a cycle and the critical path of
  `TaskGraph` are RECURSIVE operators, with which the provers lose their SMT backend, and
  what they compute for every graph would be an induction. `SessionCosts`, `CommandLine`
  and `Terminal` are folds, filters and sorted lists of the community modules, whose own
  recursion would have to be opened first. All are compared with reference definitions on
  every input the bounded operations build.
- What the violation runs show; a counterexample is all that is needed there.

Every other property of a passing run is stated by a theorem.

## Disagreements between code and comments

Four have a violation run and an entry under `findings` in `PROJECT.json`: the torn
line that is tolerated by the reader but not by the writer; the codex error that is
taken for the end of a turn; the removed worker that a concurrent write brings back;
the relay that does not notice a restart.

Met while modelling, without a run of their own. Properties above name them as
exceptions where they touch them.

*Queue and loop.* The sweep (`team_mode_service_shell/mod.rs:1449`, comment at 1400)
can kill a sibling that holds a drained batch. An append that succeeds may be written
into a drained file (`lead_pending.rs:160`, `lead-pending-async-wake.js:25`). The
worker's messages are counted after its input was sent, so a quick answer falls into
the baseline (`agent_loop.rs:241`, comment at 80). A preempting message can end its
own turn (`message.rs:350`, comment at 337), and the interrupt goes to recipients
that were dropped meanwhile. A codex child's end of file is reported as `Idle`, which
the loop takes for a completed turn. The dead-recipient notice is signed with the
worker's name and counts as its reply. A terminal notice carries error text that is
parsed for mentions (`agent_loop.rs:327`). The web UI's posts have no liveness check,
and `user` is an active member, so that "@user" yields a "not alive" notice. A thread
id is bound by a check and a later save.

*Workers and teams.* The watchdog's strikes are keyed by team, not by owner. The cap
of one active team per lead is passed by adopting a team without an owner
(`team_service.rs:184`). `worker_add` works on archived teams, and overwriting a live
worker marks its sidecar failed. The flip to dead may be stale; `worker_list` trusts
the sidecar. "My teams" includes archived ones. The watchdogs see only their own data
directory.

*Start, daemon, installation, MCP.* An empty token file left by a crash makes every
relay fail. A second runtime directory meets the shared port
(`team_mode_service_shell/mod.rs:882`). A client that prunes `daemon.json` may remove
the one a new daemon just wrote (`client.rs:349`). `call_method` retries after any
error, so a tool call may run twice. `init` cannot be run again after an interruption,
a plain `fs::write` can be torn, and uninstall removes a server or hooks that differ
from what was installed. A panic in a tool poisons the mutex: every later `/mcp` is a
500 while `/healthz` is well. A batch ends at its first malformed item. The handshake
flag and subscriptions are shared by all clients, and resource notifications are
dropped over HTTP. Relays and hooks send the raw path, so a directory whose name reads
as an escape is misrouted. `resolve_cc_pid_from` may return a dead wrapper; the hook's
sweep resolves owners without comparing start times (shell, 1389).

*Web UI.* A message stamped before but appended after a later one is never streamed.
`loadTeam` has no check for staleness; after a failed load the previous team's workers
stay; a late poll can take a status back; tasks of a snapshot and of an event have
different ids. A member conversation's loading mark can stick, and an older answer can
replace a newer one of the same member. `.lead-sessions.json` is rewritten without a
lock (shell, 447). `codex_stderr`'s redaction may advance past the end.

*Library.* `update_task` checks no cycles and a status of deleted does not cascade; an
interrupted cascade leaves dependents blocked; the highest id is used again after a
deletion; offering and assigning a task are not one step. Writing an inbox, a memory or
a saved state creates a bare team directory, after which `create_team` reports that the
team exists and `delete_team` that it does not. `is_alive` is false while an input is
being sent, and a shutdown that comes between the check of pending shutdowns and the
put-back is not honoured (`orchestrator/mod.rs:636`, doc at 585). A lock inside a
directory that was deleted and created again excludes nobody. Memory saves may land out
of order or after `clear_memory`, and `enable_memory` ignores a new configuration when
a file exists. Messages written by Claude Code have an empty id, so that marking one
read marks the first. `contains_word` skips overlapping matches. A chain of keyword
and capability router never reaches the second. Two callers may collect checkpoints at
once. `truncate_string` can cut inside a character (`models/token.rs:98`).
`by_branch` fails on one unparseable note where `list` skips it. Gemini's
`record_response` is never called.

*Command line and dashboard.* Removing the post-commit hook also takes the user's
comments, blank lines, `if` and `fi` lines that follow the section
(`agent_teams.rs:1001`, comment at 1002 "a line that's not part of our script"), and
leaves our `#!/bin/sh` behind, one more per round. Installing into a hook that is not
UTF-8 replaces it (`agent_teams.rs:945`), and appending to one that may not be executed
does not change that, so that it never runs. `checkpoint cost` counts a log's whole usage
once per commit that recorded it. The tables' cuts slice bytes and panic inside a
character (`agent_teams.rs:1154`, 1074; `views/checkpoints.rs:332`). The dashboard's
cursor is not clamped when a list gets shorter, an open detail is a row number that slips
when checkpoints come or go (`app.rs:47`), Enter opens a row of a list an error hides,
and the header keeps a team that is gone.

## Not modelled, and the plan

Left out: rooms and threads (written once, a projection of the transcript); the
one-shot migration of the old pending file and the mid-turn hook's identity cache;
what resources and tools return as JSON; `dashboard.rs`, which serves the
orchestrator's state over HTTP; argument parsing and layout of the command line;
drawing, translation and styles of the page; vendored code and examples.

What would come next, in order:

1. Proofs: `CommandsAreSound`, with the loops of `TaskGraph`, `CommandLine` and
   `SessionCosts` written as recursive functions.
2. Several teams in one drain of `LeadPending`; two workers in `Workers`.
3. `Workers` shown to implement what `AgentLoop` assumes of `worker_remove`.
