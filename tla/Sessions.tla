------------------------------ MODULE Sessions ------------------------------
(***************************************************************************)
(* One agent session of a backend (src/src/backend: claude_code.rs,        *)
(* codex.rs, gemini.rs, mod.rs): the child process, the reader task that   *)
(* turns its stdout into events, the bounded channel to the consumer, and  *)
(* send_input.  Claude keeps one process and a gate that is open between   *)
(* turns; codex keeps one process and writes at once; gemini runs one      *)
(* process per turn and kills the one before.                              *)
(***************************************************************************)
EXTENDS Naturals, Sequences, FiniteSets

CONSTANTS BackendKinds,      \* backends, of "claude", "codex", "gemini"
          Capacity,   \* of the output channel (256, 4096)
          MaxInputs,  \* bound on inputs
          MaxTexts    \* bound on lines of text

\* The channel holds an event.
ASSUME SessionConstants ==
    /\ BackendKinds \subseteq {"claude", "codex", "gemini"} /\ Capacity \in Nat \ {0}
    /\ MaxInputs \in Nat /\ MaxTexts \in Nat

VARIABLES backend,    \* which backend
          stage,      \* "initialize", "thread", "ready", "failed", "shut"
          alive,      \* the shared flag
          procs,      \* child processes running
          turns,      \* turns the child has begun or queued and not ended
          stdout,     \* lines written and not read: "text", "end"
          reader,     \* "on", "off", or "held" with a control event in hand
          channel,    \* events, "data" or "control"
          receiver,   \* the consumer holds its end
          idle,       \* claude: the gate is open
          sender,     \* send_input: "none", "armed", "looked", "asleep"
          woken,      \* the notification the sender has armed has fired
          ends,       \* ghost: ends of turns the reader has read
          told,       \* ghost: of these, put into the channel
          dropped,    \* ghost: of these, given up with the process they were of
          inputs, texts

sessionVars == <<backend, stage, alive, procs, turns, stdout, reader, channel, receiver, idle,
                 sender, woken, ends, told, dropped, inputs, texts>>

gateVars == <<idle, sender, woken>>
countVars == <<ends, told, dropped>>

Room == Len(channel) < Capacity

\* spawn_child: one process, killed when its handle is dropped.
SpawnChild == 1

\* Gemini's first turn runs from spawn on.
FirstTurns == IF backend = "gemini" THEN 1 ELSE 0

\* Claude is ready at once and says so with an event of its own.
FirstEvents == IF backend = "claude" THEN <<"control">> ELSE <<>>

SessionInit ==
    /\ backend \in BackendKinds
    /\ stage = IF backend = "codex" THEN "initialize" ELSE "ready"
    /\ alive = TRUE /\ procs = SpawnChild /\ turns = FirstTurns
    /\ stdout = <<>> /\ channel = FirstEvents
    /\ reader = IF backend = "codex" THEN "off" ELSE "on"
    /\ receiver = TRUE /\ idle = TRUE /\ sender = "none" /\ woken = FALSE
    /\ ends = 0 /\ told = 0 /\ dropped = 0 /\ inputs = 0 /\ texts = 0

-----------------------------------------------------------------------------
(* codex: initialize, thread/start                                         *)

Initialized ==
    /\ stage = "initialize" /\ procs = 1
    /\ stage' = "thread"
    /\ UNCHANGED <<backend, alive, procs, turns, stdout, reader, channel, receiver, gateVars, countVars, inputs, texts>>

ThreadStarted ==
    /\ stage = "thread" /\ procs = 1
    /\ stage' = "ready" /\ reader' = "on" /\ channel' = <<"control">>
    /\ UNCHANGED <<backend, alive, procs, turns, stdout, receiver, gateVars, countVars, inputs, texts>>

\* An error, the deadline or the end of stdout; the child is killed on drop.
HandshakeFails ==
    /\ stage \in {"initialize", "thread"}
    /\ stage' = "failed" /\ procs' = 0 /\ receiver' = FALSE /\ alive' = FALSE
    /\ UNCHANGED <<backend, turns, stdout, reader, channel, gateVars, countVars, inputs, texts>>

-----------------------------------------------------------------------------
(* send_input                                                              *)

Calls == stage = "ready" /\ alive /\ sender = "none" /\ inputs < MaxInputs

\* What arrives at a process that is running.
Delivered == IF procs > 0 THEN turns + 1 ELSE turns

CodexSend ==
    /\ backend = "codex" /\ Calls
    /\ inputs' = inputs + 1 /\ turns' = Delivered
    /\ UNCHANGED <<backend, stage, alive, procs, stdout, reader, channel, receiver, gateVars, countVars, texts>>

\* notified() is taken before the gate is looked at.
Arm ==
    /\ backend = "claude"
    /\ Calls \/ (sender = "asleep" /\ woken)
    /\ sender' = "armed" /\ woken' = FALSE
    /\ UNCHANGED <<backend, stage, alive, procs, turns, stdout, reader, channel, receiver, idle, countVars, inputs, texts>>

Gate == idle

\* The gate, and the write when it is open.
Look ==
    /\ sender = "armed"
    /\ IF Gate
       THEN idle' = FALSE /\ turns' = Delivered /\ sender' = "none" /\ inputs' = inputs + 1
       ELSE sender' = "looked" /\ UNCHANGED <<idle, turns, inputs>>
    /\ UNCHANGED <<backend, stage, alive, procs, stdout, reader, channel, receiver, woken, countVars, texts>>

\* The flag, then the wait.
Sleep ==
    /\ sender = "looked"
    /\ sender' = IF alive THEN "asleep" ELSE "none"
    /\ UNCHANGED <<backend, stage, alive, procs, turns, stdout, reader, channel, receiver, idle, woken, countVars, inputs, texts>>

GiveUpWaiting ==
    /\ sender = "asleep" /\ ~woken
    /\ sender' = "none"
    /\ UNCHANGED <<backend, stage, alive, procs, turns, stdout, reader, channel, receiver, idle, woken, countVars, inputs, texts>>

\* kill_current: the reader is aborted, then the process is killed.
KillCurrent == 0

\* Turns whose end was read and not passed on are lost with the reader.
Unsent == IF reader = "held" THEN 1 ELSE 0

GeminiSend ==
    /\ backend = "gemini" /\ Calls
    /\ inputs' = inputs + 1 /\ dropped' = dropped + Unsent
    /\ stdout' = <<>>
    /\ \/ procs' = KillCurrent + SpawnChild /\ turns' = 1 /\ reader' = "on"
       \/ procs' = KillCurrent /\ turns' = 0 /\ reader' = "off"     \* the new one does not start
    /\ UNCHANGED <<backend, stage, alive, channel, receiver, gateVars, ends, told, texts>>

-----------------------------------------------------------------------------
(* The child                                                               *)

Text ==
    /\ procs > 0 /\ turns > 0 /\ texts < MaxTexts
    /\ texts' = texts + 1 /\ stdout' = Append(stdout, "text")
    /\ UNCHANGED <<backend, stage, alive, procs, turns, reader, channel, receiver, gateVars, countVars, inputs>>

\* result, turn/completed; a gemini process ends with its turn.
EndTurn ==
    /\ procs > 0 /\ turns > 0
    /\ turns' = turns - 1
    /\ IF backend = "gemini" THEN procs' = procs - 1 /\ UNCHANGED stdout
                             ELSE stdout' = Append(stdout, "end") /\ UNCHANGED procs
    /\ UNCHANGED <<backend, stage, alive, reader, channel, receiver, gateVars, countVars, inputs, texts>>

Die ==
    /\ procs > 0 /\ stage # "failed"
    /\ procs' = 0 /\ turns' = 0
    /\ UNCHANGED <<backend, stage, alive, stdout, reader, channel, receiver, gateVars, countVars, inputs, texts>>

-----------------------------------------------------------------------------
(* The reader task and the channel                                         *)

\* Mutant: the notification reaches a sender that already waits.
WakeSleeper == woken \/ sender = "asleep"

\* notify_waiters reaches every notified() that was taken.
NotifyWaiters == woken \/ sender # "none"

\* send_agent_output of a control event waits for room.
SendControl ==
    \/ Room /\ channel' = Append(channel, "control") /\ told' = told + 1 /\ reader' = "on"
    \/ ~Room /\ reader' = "held" /\ UNCHANGED <<channel, told>>

ReadText ==
    /\ reader = "on" /\ alive /\ stdout # <<>> /\ Head(stdout) = "text"
    /\ stdout' = Tail(stdout)
    /\ \/ receiver /\ Room /\ channel' = Append(channel, "data") /\ UNCHANGED <<reader, alive>>
       \/ receiver /\ ~Room /\ UNCHANGED <<channel, reader, alive>>
       \/ ~receiver /\ reader' = "off" /\ alive' = FALSE /\ UNCHANGED channel
    /\ UNCHANGED <<backend, stage, procs, turns, receiver, gateVars, countVars, inputs, texts>>

\* The gate opens before the event is sent.
ReadEnd ==
    /\ reader = "on" /\ alive /\ stdout # <<>> /\ Head(stdout) = "end"
    /\ stdout' = Tail(stdout) /\ ends' = ends + 1
    /\ IF backend = "claude" THEN idle' = TRUE /\ woken' = NotifyWaiters ELSE UNCHANGED <<idle, woken>>
    /\ \/ receiver /\ SendControl /\ UNCHANGED alive
       \/ ~receiver /\ alive' = FALSE /\ reader' = "off" /\ UNCHANGED <<channel, told>>
    /\ UNCHANGED <<backend, stage, procs, turns, receiver, sender, dropped, inputs, texts>>

\* End of stdout: a dead process for claude and codex, the end of the turn for gemini.
ReadEof ==
    /\ reader = "on" /\ alive /\ procs = 0 /\ stdout = <<>>
    /\ alive' = (backend = "gemini" /\ receiver)
    /\ ends' = IF backend = "gemini" THEN ends + 1 ELSE ends
    /\ IF backend = "claude" THEN idle' = TRUE /\ woken' = NotifyWaiters ELSE UNCHANGED <<idle, woken>>
    /\ \/ /\ receiver /\ Room /\ channel' = Append(channel, "control") /\ reader' = "off"
          /\ told' = IF backend = "gemini" THEN told + 1 ELSE told
       \/ receiver /\ ~Room /\ reader' = "held" /\ UNCHANGED <<channel, told>>
       \/ ~receiver /\ reader' = "off" /\ UNCHANGED <<channel, told>>
    /\ UNCHANGED <<backend, stage, procs, turns, stdout, receiver, sender, dropped, inputs, texts>>

\* Room at last; a reader that held the end of its stdout has ended.
SendHeld ==
    /\ reader = "held" /\ Room /\ receiver
    /\ channel' = Append(channel, "control") /\ told' = told + 1
    /\ reader' = IF backend = "gemini" \/ ~alive THEN "off" ELSE "on"
    /\ UNCHANGED <<backend, stage, alive, procs, turns, stdout, receiver, gateVars, ends, dropped, inputs, texts>>

\* CONTROL_SEND_TIMEOUT, or the channel is closed: the session is marked dead.
HeldFails ==
    /\ reader = "held"
    /\ alive' = FALSE /\ reader' = "off"
    /\ UNCHANGED <<backend, stage, procs, turns, stdout, channel, receiver, gateVars, countVars, inputs, texts>>

Recv ==
    /\ receiver /\ channel # <<>>
    /\ channel' = Tail(channel)
    /\ UNCHANGED <<backend, stage, alive, procs, turns, stdout, reader, receiver, gateVars, countVars, inputs, texts>>

CloseReceiver ==
    /\ receiver /\ stage = "ready"
    /\ receiver' = FALSE /\ channel' = <<>>
    /\ UNCHANGED <<backend, stage, alive, procs, turns, stdout, reader, gateVars, countVars, inputs, texts>>

\* shutdown, force_kill: the flag, the reader, stdin, and the child, killed if
\* it does not end by itself.
Shutdown ==
    /\ stage = "ready" /\ sender = "none"
    /\ stage' = "shut" /\ alive' = FALSE /\ reader' = "off"
    /\ procs' = KillCurrent /\ turns' = 0 /\ stdout' = <<>>
    /\ UNCHANGED <<backend, channel, receiver, gateVars, countVars, inputs, texts>>

SessionNext ==
    \/ Initialized \/ ThreadStarted \/ HandshakeFails
    \/ CodexSend \/ Arm \/ Look \/ Sleep \/ GiveUpWaiting \/ GeminiSend
    \/ Text \/ EndTurn \/ Die
    \/ ReadText \/ ReadEnd \/ ReadEof \/ SendHeld \/ HeldFails
    \/ Recv \/ CloseReceiver \/ Shutdown

SessionSpec == SessionInit /\ [][SessionNext]_sessionVars

-----------------------------------------------------------------------------

SessionTypeOK ==
    /\ stage \in {"initialize", "thread", "ready", "failed", "shut"}
    /\ procs \in Nat /\ turns \in Nat
    /\ reader \in {"on", "off", "held"} /\ sender \in {"none", "armed", "looked", "asleep"}
    /\ Len(channel) <= Capacity

Unread == Cardinality({i \in DOMAIN stdout : stdout[i] = "end"})

\* Claude is given an input only after the result of the one before was read,
\* also while a timed-out sender tries again (the idle gate).
GateHolds == backend = "claude" => turns + Unread <= 1

\* A sender sleeps at the gate only while it is closed: no result that comes
\* between its look and its sleep is missed (send_input, notify_waiters).
NoLostWakeup == sender = "asleep" /\ ~woken => ~idle

\* However full the channel, the end of a turn reaches the consumer while the
\* session passes for alive, unless gemini was given another input first
\* (send_agent_output).
EndsDelivered == alive => ends = told + dropped + Unsent

\* A session never has two processes, and one that was shut down or did not
\* come up has none (kill_current, shutdown, kill_on_drop).
ProcessesEnd == procs <= 1 /\ (stage \in {"failed", "shut"} => procs = 0)

\* Claude is given an input only after the result of the one before was read, no
\* sender sleeps at an open gate, the end of a turn reaches the consumer however
\* full the channel is, and no process outlives its session (send_input,
\* send_agent_output, kill_current).
TurnsReachTheirEnd ==
    SessionTypeOK /\ GateHolds /\ NoLostWakeup /\ EndsDelivered /\ ProcessesEnd
=============================================================================
