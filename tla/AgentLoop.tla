------------------------------ MODULE AgentLoop ------------------------------
(***************************************************************************)
(* One worker of a team while its process lives: the AgentLoop thread that *)
(* feeds the worker's inbox to the backend session, the session's child    *)
(* process and output channel, the senders that fill the inbox, and a      *)
(* worker_remove.                                                          *)
(*                                                                         *)
(* The loop peeks its inbox, feeds one message at a time, waits for a      *)
(* terminal event of the turn (TurnComplete and Idle end it, Error fails   *)
(* it), posts a status notice when the worker has not spoken for itself,   *)
(* and acknowledges the message.  Between batches it sleeps until a notify *)
(* or 30 seconds have passed.                                              *)
(***************************************************************************)
EXTENDS Naturals, Sequences

CONSTANTS Msgs,           \* messages addressed to the worker
          Backends,       \* backends a worker may run, "codex" or "claude"
          None,           \* no message
          MaxExtra,       \* bound on interrupts and error notifications
          MaxFaults       \* bound on failures of the team's stores

ASSUME AgentLoopConstants ==
    /\ Backends \subseteq {"codex", "claude"}
    /\ None \notin Msgs
    /\ MaxExtra \in Nat
    /\ MaxFaults \in Nat

VARIABLES
    backend,      \* the worker's backend
    spc,          \* where each message's send_message call is
    posted,       \* messages in the worker's inbox, oldest first
    acked,        \* messages the worker has acknowledged
    pc,           \* where AgentLoop::run is
    batch,        \* unread items of this peek still to do
    cur,          \* message of the current turn
    cause,        \* end_cause of the current turn
    grew,         \* final_sent > baseline_sent, were it read now
    probe,        \* liveness probe task of the turn
    wake,         \* a notify reached the waiting loop
    proc,         \* child process
    working,      \* inputs the child has received and not finished
    chan,         \* terminal events in the output channel
    eof,          \* the reader task saw end of file: alive = false
    session,      \* the orchestrator holds the session
    remove,       \* how far a worker_remove has come
    interrupt,    \* a turn/interrupt in flight: the turn it names, by its message
                  \* it names, or None
    extra,        \* interrupts and error notifications so far
    faults,       \* store failures so far
    signedAfter,  \* posted messages the worker signed a message after
    said,         \* history: messages the child spoke about
    notices,      \* status notices posted to the team, per message
    fed           \* history: how often each message reached a session

inbox   == <<spc, posted, acked>>
loop    == <<pc, batch, cur, cause, probe>>
child   == <<proc, working, chan, eof>>
control == <<session, remove, interrupt, extra>>
history == <<backend, said, fed>>
vars    == <<backend, spc, posted, acked, pc, batch, cur, cause, grew, probe,
             wake, proc, working, chan, eof, session, remove, interrupt, extra,
             faults, signedAfter, said, notices, fed>>

Pcs    == {"drain", "peek", "next", "feed", "baseline", "turn", "count",
           "notice", "ack", "wait", "exited"}
Causes == {"complete", "error", "closed", "died"}
Kinds  == {"silent", "error", "closed", "died", "not_alive"}

Sends  == {"new", "checked", "preempting", "sent", "refused"}

TypeOK ==
    /\ backend \in Backends
    /\ spc \in [Msgs -> Sends]
    /\ posted \in Seq(Msgs)
    /\ acked \subseteq Msgs
    /\ pc \in Pcs
    /\ batch \subseteq Msgs
    /\ cur \in Msgs \cup {None}
    /\ cause \in Causes
    /\ grew \in BOOLEAN
    /\ probe \in {"off", "on", "dead"}
    /\ wake \in BOOLEAN
    /\ proc \in {"up", "down"}
    /\ working \in Seq(Msgs)
    /\ chan \in Seq({"complete", "error"})
    /\ eof \in BOOLEAN
    /\ session \in BOOLEAN
    /\ remove \in {"no", "begun", "signalled", "done"}
    /\ interrupt \in Msgs \cup {None}
    /\ extra \in 0..MaxExtra
    /\ faults \in 0..MaxFaults
    /\ signedAfter \subseteq Msgs
    /\ said \subseteq Msgs
    /\ notices \subseteq Msgs \X Kinds
    /\ fed \in [Msgs -> Nat]

(* worker_add has spawned the session, consumed its ready signal and       *)
(* started the loop.                                                       *)
Init ==
    /\ backend \in Backends
    /\ spc = [m \in Msgs |-> "new"]
    /\ posted = <<>>
    /\ acked = {}
    /\ pc = "drain"
    /\ batch = {}
    /\ cur = None
    /\ cause = "complete"
    /\ grew = FALSE
    /\ probe = "off"
    /\ wake = FALSE
    /\ proc = "up"
    /\ working = <<>>
    /\ chan = <<>>
    /\ eof = FALSE
    /\ session = TRUE
    /\ remove = "no"
    /\ interrupt = None
    /\ extra = 0
    /\ faults = 0
    /\ signedAfter = {}
    /\ said = {}
    /\ notices = {}
    /\ fed = [m \in Msgs |-> 0]

Members(s) == {s[i] : i \in DOMAIN s}

Fault == faults < MaxFaults /\ faults' = faults + 1

(* mark_removed has run: messages the worker signs are refused.            *)
Active == remove # "done"

(* is_alive of the orchestrator's session.                                 *)
Alive == session /\ proc = "up" /\ ~eof

(* Every sender of the channel is gone.  The Claude session keeps one      *)
(* itself, so its channel closes only with the session.                    *)
Closed == ~session \/ (backend = "codex" /\ eof)

(* A message signed by the worker enters the transcript.                   *)
Sign ==
    /\ grew' = TRUE
    /\ signedAfter' = Members(posted)

-----------------------------------------------------------------------------
(* The senders: TeamModeToolset::send_message and worker_remove.           *)

(* The liveness check of a recipient.                                      *)
CheckAlive(m) ==
    /\ spc[m] = "new"
    /\ Active
    /\ Alive
    /\ spc' = [spc EXCEPT ![m] = "checked"]
    /\ UNCHANGED <<posted, acked, loop, grew, wake, child, control, faults,
                   signedAfter, notices, history>>

(* A recipient that is not alive gets no message; the lead gets a notice   *)
(* signed with the worker's name.                                          *)
PostRefused(m) ==
    /\ spc[m] = "new"
    /\ Active
    /\ ~Alive
    /\ spc' = [spc EXCEPT ![m] = "refused"]
    /\ notices' = notices \cup {<<m, "not_alive">>}
    /\ wake' = (wake \/ pc = "wait")
    /\ Sign
    /\ UNCHANGED <<posted, acked, loop, child, control, faults, history>>

(* The message is saved, then waiting loops are notified; a loop that is   *)
(* not waiting at that moment does not see the signal.  Claude sessions    *)
(* have no interrupt, so preempt matters to codex alone.                   *)
Post(m, preempt) ==
    /\ spc[m] = "checked"
    /\ Active
    /\ preempt => backend = "codex" /\ extra < MaxExtra
    /\ posted' = Append(posted, m)
    /\ wake' = (wake \/ pc = "wait")
    /\ spc' = [spc EXCEPT ![m] = IF preempt THEN "preempting" ELSE "sent"]
    /\ extra' = IF preempt THEN extra + 1 ELSE extra
    /\ UNCHANGED <<acked, loop, grew, child, session, remove, interrupt,
                   faults, signedAfter, notices, history>>

(* preempt = true, after the save: a turn/interrupt names the turn the     *)
(* session believes active; without one nothing is sent.                   *)
Preempt(m) ==
    /\ spc[m] = "preempting"
    /\ interrupt = None
    /\ spc' = [spc EXCEPT ![m] = "sent"]
    /\ interrupt' = IF session /\ ~eof /\ working # <<>>
                    THEN Head(working) ELSE None
    /\ UNCHANGED <<posted, acked, loop, grew, wake, child, session, remove,
                   extra, faults, signedAfter, notices, history>>

(* worker_remove: stop the child and drop the session, signal the loop,    *)
(* mark the member removed.                                                *)
RemoveSession ==
    /\ remove = "no"
    /\ remove' = "begun"
    /\ session' = FALSE
    /\ proc' = "down"
    /\ eof' = TRUE
    /\ UNCHANGED <<inbox, loop, grew, wake, working, chan, interrupt,
                   extra, faults, signedAfter, notices, history>>

SignalLoop ==
    /\ remove = "begun"
    /\ remove' = "signalled"
    /\ UNCHANGED <<inbox, loop, grew, wake, child, session, interrupt,
                   extra, faults, signedAfter, notices, history>>

MarkRemoved ==
    /\ remove = "signalled"
    /\ remove' = "done"
    /\ UNCHANGED <<inbox, loop, grew, wake, child, session, interrupt,
                   extra, faults, signedAfter, notices, history>>

-----------------------------------------------------------------------------
(* AgentLoop::run.                                                         *)

(* The initial drain: 100 ms for a left-over ready signal.                 *)
Drain ==
    /\ pc = "drain"
    /\ \/ /\ chan # <<>>
          /\ chan' = Tail(chan)
          /\ pc' = IF Head(chan) = "error" THEN "exited" ELSE "peek"
       \/ /\ chan = <<>>
          /\ pc' = IF Closed THEN "exited" ELSE "peek"
          /\ UNCHANGED chan
    /\ UNCHANGED <<inbox, batch, cur, cause, probe, grew, wake, proc, working,
                   eof, control, faults, signedAfter, notices, history>>

(* The unread messages, which the loop takes in the order of the inbox.    *)
Peek ==
    /\ pc = "peek"
    /\ batch' = Members(posted) \ acked
    /\ pc' = "next"
    /\ UNCHANGED <<inbox, cur, cause, probe, grew, wake, child, control,
                   faults, signedAfter, notices, history>>

(* The transcript cannot be read: the loop ends without a word.            *)
PeekFails ==
    /\ Fault
    /\ pc = "peek"
    /\ pc' = "exited"
    /\ UNCHANGED <<inbox, batch, cur, cause, probe, grew, wake, child, control,
                   signedAfter, notices, history>>

(* m comes first of the batch in the inbox, which only grows at its end.   *)
IsOldest(m) ==
    \E i \in DOMAIN posted :
        /\ posted[i] = m
        /\ \A j \in 1..(i - 1) : posted[j] \notin batch

NextItem ==
    /\ pc = "next"
    /\ \E m \in batch :
        /\ IsOldest(m)
        /\ cur' = m
        /\ batch' = batch \ {m}
    /\ pc' = "feed"
    /\ UNCHANGED <<inbox, cause, probe, grew, wake, child, control, faults,
                   signedAfter, notices, history>>

(* message_store.get fails: the item is left for the next peek.            *)
GetFails ==
    /\ Fault
    /\ pc = "next"
    /\ \E m \in batch : IsOldest(m) /\ batch' = batch \ {m}
    /\ UNCHANGED <<inbox, pc, cur, cause, probe, grew, wake, child, control,
                   signedAfter, notices, history>>

BatchDone ==
    /\ pc = "next"
    /\ batch = {}
    /\ pc' = "wait"
    /\ wake' = FALSE
    /\ UNCHANGED <<inbox, batch, cur, cause, probe, grew, child, control,
                   faults, signedAfter, notices, history>>

(* send_input succeeds.  The pipe of a child that has just died still      *)
(* takes bytes; a Claude session waits for the turn before to end.         *)
Feed ==
    /\ pc = "feed"
    /\ session
    /\ ~eof
    /\ backend = "claude" => working = <<>>
    /\ working' = IF proc = "up" THEN Append(working, cur) ELSE working
    /\ fed' = [fed EXCEPT ![cur] = @ + 1]
    /\ pc' = "baseline"
    /\ UNCHANGED <<inbox, batch, cur, cause, probe, grew, wake, proc, chan, eof,
                   control, faults, signedAfter, backend, said, notices>>

(* send_input fails: no session, a session known dead, a broken pipe, or   *)
(* 30 seconds without the turn before ending.                              *)
FeedFails ==
    /\ pc = "feed"
    /\ \/ ~session
       \/ eof
       \/ proc = "down"
       \/ backend = "claude" /\ working # <<>>
    /\ cause' = "died"
    /\ pc' = "notice"
    /\ UNCHANGED <<inbox, batch, cur, probe, grew, wake, child, control,
                   faults, signedAfter, notices, history>>

(* baseline_sent is counted after the input was sent.                      *)
Baseline ==
    /\ pc = "baseline"
    /\ grew' = FALSE
    /\ probe' = "on"
    /\ pc' = "turn"
    /\ UNCHANGED <<inbox, batch, cur, cause, wake, child, control, faults,
                   signedAfter, notices, history>>

(* unwrap_or(0): every message signed since cur was posted counts later.   *)
BaselineFails ==
    /\ Fault
    /\ pc = "baseline"
    /\ grew' = (cur \in signedAfter)
    /\ probe' = "on"
    /\ pc' = "turn"
    /\ UNCHANGED <<inbox, batch, cur, cause, wake, child, control, signedAfter,
                   notices, history>>

(* The probe task: the orchestrator knows the session and it is not alive. *)
ProbeFinds ==
    /\ probe = "on"
    /\ session
    /\ ~Alive
    /\ probe' = "dead"
    /\ UNCHANGED <<inbox, pc, batch, cur, cause, grew, wake, child, control,
                   faults, signedAfter, notices, history>>

(* The select of step 4 ends the turn.                                     *)
TurnEnds(why) ==
    /\ pc = "turn"
    /\ cause' = why
    /\ probe' = "off"
    /\ pc' = "count"
    /\ UNCHANGED <<inbox, batch, cur, grew, wake, proc, working, eof, control,
                   faults, signedAfter, notices, history>>

Recv ==
    /\ chan # <<>>
    /\ chan' = Tail(chan)
    /\ TurnEnds(Head(chan))

RecvNone ==
    /\ chan = <<>>
    /\ Closed
    /\ UNCHANGED chan
    /\ TurnEnds("closed")

RecvProbe ==
    /\ probe = "dead"
    /\ UNCHANGED chan
    /\ TurnEnds("closed")

(* Mutant of NeedsNotice: a completed turn never needs one.                *)
OnlyFailures(spoke) == cause # "complete"

NeedsNotice(spoke) == cause # "complete" \/ ~spoke

(* final_sent; on a read error it is taken to equal baseline_sent.         *)
CountSent ==
    /\ pc = "count"
    /\ \/ pc' = (IF NeedsNotice(grew) THEN "notice" ELSE "ack")
          /\ UNCHANGED faults
       \/ pc' = "notice" /\ Fault
    /\ UNCHANGED <<inbox, batch, cur, cause, probe, grew, wake, child, control,
                   signedAfter, notices, history>>

(* Mutant of NoticeKind: the cause as it is, a silent turn included.       *)
RawCause == cause

(* Mutant of NoticeKind: every failed turn is told as a death.             *)
FailureMeansDeath == IF cause = "complete" THEN "silent" ELSE "died"

NoticeKind == IF cause = "complete" THEN "silent" ELSE cause

(* The notice is signed by the worker; its result is ignored.              *)
PostNotice ==
    /\ pc = "notice"
    /\ pc' = "ack"
    /\ \/ /\ Active
          /\ notices' = notices \cup {<<cur, NoticeKind>>}
          /\ Sign
          /\ UNCHANGED faults
       \/ /\ IF Active THEN Fault ELSE UNCHANGED faults
          /\ UNCHANGED <<notices, grew, signedAfter>>
    /\ UNCHANGED <<inbox, batch, cur, cause, probe, wake, child, control,
                   history>>

(* Mutant of AfterAck: a failed turn ends the loop.                        *)
ExitOnError == IF cause # "complete" THEN "exited" ELSE "next"

AfterAck == IF cause \in {"closed", "died"} THEN "exited" ELSE "next"

(* Mutant of Ack: the receipt is not written.                              *)
AckForgotten ==
    /\ pc = "ack"
    /\ pc' = AfterAck
    /\ UNCHANGED <<inbox, batch, cur, cause, probe, grew, wake, child, control,
                   faults, signedAfter, notices, history>>

Ack ==
    /\ pc = "ack"
    /\ acked' = acked \cup {cur}
    /\ pc' = AfterAck
    /\ UNCHANGED <<spc, posted, batch, cur, cause, probe, grew, wake, child, control,
                   faults, signedAfter, notices, history>>

(* The result of the ack is ignored: the message stays unread.             *)
AckFails ==
    /\ Fault
    /\ pc = "ack"
    /\ pc' = AfterAck
    /\ UNCHANGED <<inbox, batch, cur, cause, probe, grew, wake, child, control,
                   signedAfter, notices, history>>

(* Mutant of WakeUp: no 30-second fallback.                                *)
OnlyNotified == wake

(* notify, or the fallback timeout.                                        *)
WakeUp == TRUE

Wait ==
    /\ pc = "wait"
    /\ WakeUp
    /\ pc' = "peek"
    /\ wake' = FALSE
    /\ UNCHANGED <<inbox, batch, cur, cause, probe, grew, child, control,
                   faults, signedAfter, notices, history>>

ShutDown ==
    /\ pc = "wait"
    /\ remove \in {"signalled", "done"}
    /\ pc' = "exited"
    /\ UNCHANGED <<inbox, batch, cur, cause, probe, grew, wake, child, control,
                   faults, signedAfter, notices, history>>

-----------------------------------------------------------------------------
(* The child process and the session's reader task.                        *)

(* The worker calls send_message while it works on an input.               *)
Speak ==
    /\ proc = "up"
    /\ working # <<>>
    /\ Active
    /\ Head(working) \notin said
    /\ said' = said \cup {Head(working)}
    /\ Sign
    /\ UNCHANGED <<inbox, loop, wake, child, control, faults, notices, backend, fed>>

(* How a turn ends: codex's turn/completed always maps to TurnComplete,    *)
(* Claude's result carries is_error.                                       *)
EndEvents == IF backend = "codex" THEN {"complete"} ELSE {"complete", "error"}

(* The turn ends and the reader forwards its terminal event.               *)
FinishTurn ==
    /\ proc = "up"
    /\ working # <<>>
    /\ working' = Tail(working)
    /\ \E event \in EndEvents : chan' = Append(chan, event)
    /\ UNCHANGED <<inbox, loop, grew, wake, proc, eof, control, faults,
                   signedAfter, notices, history>>

(* codex reports an error in a turn; the turn goes on to turn/completed.   *)
ErrorNotification ==
    /\ backend = "codex"
    /\ extra < MaxExtra
    /\ extra' = extra + 1
    /\ proc = "up"
    /\ working # <<>>
    /\ chan' = Append(chan, "error")
    /\ UNCHANGED <<inbox, loop, grew, wake, proc, working, eof, session, remove,
                   interrupt, faults, signedAfter, notices, history>>

(* The child works on input m.                                             *)
InTurn(m) == working # <<>> /\ Head(working) = m

(* The child answers a turn/interrupt: the turn ends early, or, when that  *)
(* turn is already over, an error response, which the reader forwards as   *)
(* Error.                                                                  *)
AnswerInterrupt ==
    /\ proc = "up"
    /\ interrupt # None
    /\ interrupt' = None
    /\ \/ /\ InTurn(interrupt)
          /\ working' = Tail(working)
          /\ chan' = Append(chan, "complete")
       \/ /\ ~InTurn(interrupt)
          /\ chan' = Append(chan, "error")
          /\ UNCHANGED working
    /\ UNCHANGED <<inbox, loop, grew, wake, proc, eof, session, remove,
                   extra, faults, signedAfter, notices, backend, said, fed>>

(* The child crashes or is killed from outside.                            *)
Die ==
    /\ proc = "up"
    /\ proc' = "down"
    /\ UNCHANGED <<inbox, loop, grew, wake, working, chan, eof, control,
                   faults, signedAfter, notices, history>>

(* The event a reader task sends at end of file: Idle, which ends a turn   *)
(* like TurnComplete, from codex, Error from Claude.                       *)
EofEvent == IF backend = "codex" THEN "complete" ELSE "error"

ReaderEof ==
    /\ proc = "down"
    /\ session
    /\ ~eof
    /\ eof' = TRUE
    /\ chan' = Append(chan, EofEvent)
    /\ UNCHANGED <<inbox, loop, grew, wake, proc, working, control, faults,
                   signedAfter, notices, history>>

-----------------------------------------------------------------------------
LoopStep ==
    \/ Drain \/ Peek \/ NextItem \/ BatchDone \/ Feed \/ FeedFails \/ Baseline
    \/ Recv \/ RecvNone \/ RecvProbe \/ CountSent \/ PostNotice \/ Ack \/ Wait
    \/ ShutDown

FaultStep == PeekFails \/ GetFails \/ BaselineFails \/ AckFails

ChildStep ==
    Speak \/ FinishTurn \/ ErrorNotification \/ AnswerInterrupt \/ Die
        \/ ReaderEof

Next ==
    \/ \E m \in Msgs : CheckAlive(m) \/ PostRefused(m) \/ Preempt(m)
    \/ \E m \in Msgs, preempt \in BOOLEAN : Post(m, preempt)
    \/ RemoveSession \/ SignalLoop \/ MarkRemoved
    \/ LoopStep
    \/ ProbeFinds
    \/ FaultStep
    \/ ChildStep

Spec == Init /\ [][Next]_vars

(* The loop and its probe keep running, and the child ends every turn or   *)
(* dies.  Nothing is assumed of the end of file: a pipe may stay open long *)
(* after its process is gone.                                              *)
FairSpec ==
    /\ Spec
    /\ WF_vars(LoopStep)
    /\ WF_vars(ProbeFinds)
    /\ WF_vars(FinishTurn)

-----------------------------------------------------------------------------
(* Properties.                                                             *)

Noticed(m) == \E kind \in Kinds : <<m, kind>> \in notices

NotAliveNoticed == \E m \in Msgs : <<m, "not_alive">> \in notices

(* No message is swallowed: when the loop acknowledges it, the worker has  *)
(* spoken about it or the lead has a notice, about it or that the worker   *)
(* is not alive, wherever the child died.                                  *)
AckedIsAnswered ==
    faults = 0 /\ remove = "no" /\ extra = 0 =>
        \/ \A m \in acked : m \in said \/ Noticed(m)
        \/ NotAliveNoticed

(* A worker gets each message once, and only a failed acknowledgement      *)
(* hands it over again.                                                    *)
FedOnce == faults = 0 => \A m \in Msgs : fed[m] <= 1

(* The lead is told that a worker died only when its process is gone: the  *)
(* probe, the closed channel and the failed input never misreport a        *)
(* working child.                                                          *)
DeathNoticesAreTrue ==
    \A m \in Msgs, kind \in {"closed", "died", "not_alive"} :
        <<m, kind>> \in notices => proc = "down"

(* While its stores work, a loop never leaves a living worker behind: such *)
(* a worker would pass every liveness check and answer nobody.             *)
LoopOutlivesChild == faults = 0 /\ pc = "exited" => proc = "down"

(* Every message that enters the inbox is acknowledged, or the loop ends:  *)
(* a notify that comes between the peek and the sleep is lost, the         *)
(* 30-second fallback recovers it, and a child that dies in a turn with    *)
(* its pipe held open does not hold the loop.                              *)
EventuallyAcked ==
    \A m \in Msgs : m \in Members(posted) ~> (m \in acked \/ pc = "exited")

(* What step 5's comment says of every message, whatever events the turn   *)
(* before left in the channel: a turn in which the worker said nothing     *)
(* leaves a notice.                                                        *)
SilenceIsNoticed ==
    faults = 0 /\ remove = "no" =>
        \/ \A m \in acked : m \in said \/ Noticed(m)
        \/ NotAliveNoticed
=============================================================================
