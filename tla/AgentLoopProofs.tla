--------------------------- MODULE AgentLoopProofs ---------------------------
(***************************************************************************)
(* Proofs about AgentLoop for every set of messages, either backend and    *)
(* any number of store failures, interrupts and error notifications.       *)
(*                                                                         *)
(* The loop learns of the child only through the channel, the probe and    *)
(* failed inputs, each of which may lag behind the process.  The invariant *)
(* below ties what the loop believes to what the process is and does.      *)
(***************************************************************************)
EXTENDS AgentLoop, TLAPS

(* The places of AgentLoop::run at which cur is a message in hand.         *)
InHand == {"feed", "baseline", "turn", "count", "notice", "ack"}

(* Of these, the ones an input that was sent can have reached.             *)
Handed == {"baseline", "turn", "count", "notice", "ack"}

CurIsMessage == pc \in InHand => cur \in Msgs

(* Whatever tells the loop or a sender that the worker is gone is right.   *)
SignsOfDeath ==
    /\ ~session => proc = "down"
    /\ eof => proc = "down"
    /\ remove # "no" => ~session
    /\ probe = "dead" => proc = "down"
    /\ cause \in {"closed", "died"} => proc = "down"

(* The channel the initial drain reads holds nothing but the end of file.  *)
NothingBeforeDrain ==
    pc = "drain" =>
        /\ working = <<>>
        /\ interrupt = None
        /\ chan # <<>> => proc = "down"

(* Interrupts exist for codex alone, and each is counted.                  *)
InterruptsCounted ==
    (interrupt # None \/ \E m \in Msgs : spc[m] = "preempting") =>
        backend = "codex" /\ extra # 0

(* The terminal event of a turn is its own: no error notification and no   *)
(* interrupt has put another into the channel.                             *)
Undisturbed == backend = "claude" \/ extra = 0

(* The living child has the input of the turn the loop waits for, or has   *)
(* answered it, and nothing else.                                          *)
OneTurn ==
    Undisturbed /\ proc = "up" =>
        IF pc \in {"baseline", "turn"}
        THEN \/ working = <<cur>> /\ chan = <<>>
             \/ working = <<>> /\ \E e \in {"complete", "error"} : chan = <<e>>
        ELSE working = <<>> /\ chan = <<>>

(* What is in hand is not acknowledged, and neither is the rest of the     *)
(* batch.                                                                  *)
BatchIsUnread ==
    /\ batch \cap acked = {}
    /\ pc \in InHand => cur \notin batch \cup acked

(* While acknowledgements succeed, a message that reached a session is in  *)
(* hand or acknowledged.                                                   *)
FedIsKept ==
    faults = 0 =>
        \A m \in Msgs :
            /\ fed[m] <= 1
            /\ fed[m] # 0 => m \in acked \/ (m = cur /\ pc \in Handed)

(* A count that grew during the turn speaks of the message in hand, and a  *)
(* message about to be acknowledged is answered.                           *)
GrowthIsSpeech ==
    faults = 0 /\ extra = 0 /\ pc \in {"turn", "count"} /\ grew =>
        cur \in said \/ NotAliveNoticed

AckIsEarned ==
    faults = 0 /\ extra = 0 /\ remove = "no" /\ pc = "ack" =>
        cur \in said \/ Noticed(cur) \/ NotAliveNoticed

Inv ==
    /\ TypeOK
    /\ CurIsMessage
    /\ SignsOfDeath
    /\ NothingBeforeDrain
    /\ InterruptsCounted
    /\ OneTurn
    /\ BatchIsUnread
    /\ FedIsKept
    /\ GrowthIsSpeech
    /\ AckIsEarned
    /\ DeathNoticesAreTrue
    /\ LoopOutlivesChild
    /\ AckedIsAnswered

-----------------------------------------------------------------------------
(* Lemmas about sequences.                                                 *)

(* Adding at the end and removing the first element keep the type.         *)
LEMMA SeqEnds ==
  ASSUME NEW S, NEW s \in Seq(S)
  PROVE  /\ \A e \in S : Append(s, e) \in Seq(S)
         /\ s # <<>> => Tail(s) \in Seq(S)
OBVIOUS

(* A queue of one element, which is what an undisturbed turn works with.   *)
LEMMA OneElement ==
  ASSUME NEW S, NEW e \in S
  PROVE  /\ Append(<<>>, e) = <<e>>
         /\ <<e>> # <<>>
         /\ Head(<<e>>) = e
         /\ Tail(<<e>>) = <<>>
<1>1. <<>> \in Seq(S) /\ <<e>> \in Seq(S) /\ Len(<<e>>) = 1
  OBVIOUS
<1>2. Append(<<>>, e) = <<e>>
  BY <1>1
<1>3. Len(Tail(<<e>>)) = 0 /\ Tail(<<e>>) \in Seq(S)
  BY <1>1
<1>4. Tail(<<e>>) = <<>>
  BY <1>3
<1> QED
  BY <1>1, <1>2, <1>4

-----------------------------------------------------------------------------
(* The type invariant, by kinds of variables.                              *)

QueuesOK ==
    /\ posted \in Seq(Msgs)
    /\ working \in Seq(Msgs)
    /\ chan \in Seq({"complete", "error"})

SetsOK ==
    /\ batch \subseteq Msgs
    /\ acked \subseteq Msgs
    /\ signedAfter \subseteq Msgs
    /\ said \subseteq Msgs

HistoryOK ==
    /\ notices \subseteq Msgs \X Kinds
    /\ fed \in [Msgs -> Nat]

SendersOK ==
    /\ backend \in Backends
    /\ spc \in [Msgs -> Sends]
    /\ interrupt \in Msgs \cup {None}
    /\ extra \in 0..MaxExtra
    /\ faults \in 0..MaxFaults

LoopOK ==
    /\ pc \in Pcs
    /\ cur \in Msgs \cup {None}
    /\ cause \in Causes
    /\ grew \in BOOLEAN
    /\ probe \in {"off", "on", "dead"}
    /\ wake \in BOOLEAN

ChildOK ==
    /\ proc \in {"up", "down"}
    /\ eof \in BOOLEAN
    /\ session \in BOOLEAN
    /\ remove \in {"no", "begun", "signalled", "done"}

(* The inbox, the child's inputs and the channel.                          *)
LEMMA QueuesTyped ==
  ASSUME Inv, [Next]_vars
  PROVE  QueuesOK'
<1>a. QueuesOK /\ (pc \in InHand => cur \in Msgs)
  BY DEF Inv, TypeOK, QueuesOK, CurIsMessage
<1> USE <1>a, SeqEnds
        DEF QueuesOK, InHand, inbox, loop, child, control, history
<1>1. ASSUME NEW m \in Msgs, CheckAlive(m) \/ PostRefused(m) \/ Preempt(m)
      PROVE  QueuesOK'
  BY <1>1 DEF CheckAlive, Alive, PostRefused, Sign, Preempt
<1>2. ASSUME NEW m \in Msgs, NEW preempt \in BOOLEAN, Post(m, preempt)
      PROVE  QueuesOK'
  BY <1>2 DEF Post
<1>3. CASE RemoveSession \/ SignalLoop \/ MarkRemoved
  BY <1>3 DEF RemoveSession, SignalLoop, MarkRemoved
<1>4. CASE Drain \/ Peek \/ NextItem \/ BatchDone \/ Feed \/ FeedFails
        \/ Baseline
  BY <1>4
     DEF Drain, Closed, Peek, Members, NextItem, BatchDone, Feed, FeedFails,
         Baseline
<1>5. CASE Recv \/ RecvNone \/ RecvProbe \/ CountSent \/ PostNotice \/ Ack
  BY <1>5
     DEF Recv, TurnEnds, RecvNone, Closed, RecvProbe, CountSent, NeedsNotice,
         Fault, PostNotice, NoticeKind, Active, Sign, Ack, AfterAck
<1>6. CASE Wait \/ ShutDown \/ ProbeFinds \/ PeekFails \/ GetFails
        \/ BaselineFails \/ AckFails
  BY <1>6
     DEF Wait, ShutDown, ProbeFinds, Alive, PeekFails, Fault, GetFails,
         BaselineFails, AckFails, AfterAck
<1>7. CASE Speak \/ FinishTurn \/ ErrorNotification \/ AnswerInterrupt \/ Die
        \/ ReaderEof
  BY <1>7
     DEF Speak, Sign, FinishTurn, EndEvents, ErrorNotification,
         AnswerInterrupt, InTurn, Die, ReaderEof, EofEvent
<1>8. CASE UNCHANGED vars
  BY <1>8 DEF vars
<1> QED
  BY <1>1, <1>2, <1>3, <1>4, <1>5, <1>6, <1>7, <1>8
     DEF Next, LoopStep, FaultStep, ChildStep

(* The batch, the receipts and who has spoken.                             *)
LEMMA SetsTyped ==
  ASSUME Inv, [Next]_vars
  PROVE  SetsOK'
<1> USE DEF Inv, TypeOK, SetsOK, CurIsMessage, InHand, Members, inbox, loop,
            child, control, history
<1>1. ASSUME NEW m \in Msgs, CheckAlive(m) \/ PostRefused(m) \/ Preempt(m)
      PROVE  SetsOK'
  BY <1>1 DEF CheckAlive, Alive, PostRefused, Sign, Preempt
<1>2. ASSUME NEW m \in Msgs, NEW preempt \in BOOLEAN, Post(m, preempt)
      PROVE  SetsOK'
  BY <1>2 DEF Post
<1>3. CASE RemoveSession \/ SignalLoop \/ MarkRemoved
  BY <1>3 DEF RemoveSession, SignalLoop, MarkRemoved
<1>4. CASE Drain \/ Peek \/ NextItem \/ BatchDone \/ Feed \/ FeedFails
        \/ Baseline
  BY <1>4
     DEF Drain, Closed, Peek, Members, NextItem, BatchDone, Feed, FeedFails,
         Baseline
<1>5. CASE Recv \/ RecvNone \/ RecvProbe \/ CountSent \/ PostNotice \/ Ack
  BY <1>5
     DEF Recv, TurnEnds, RecvNone, Closed, RecvProbe, CountSent, NeedsNotice,
         Fault, PostNotice, NoticeKind, Active, Sign, Ack, AfterAck
<1>6. CASE Wait \/ ShutDown \/ ProbeFinds \/ PeekFails \/ GetFails
        \/ BaselineFails \/ AckFails
  BY <1>6
     DEF Wait, ShutDown, ProbeFinds, Alive, PeekFails, Fault, GetFails,
         BaselineFails, AckFails, AfterAck
<1>7. CASE Speak
  BY <1>7 DEF Speak, Sign
<1>8. CASE FinishTurn \/ ErrorNotification \/ AnswerInterrupt
  BY <1>8 DEF FinishTurn, ErrorNotification, AnswerInterrupt
<1>9. CASE Die \/ ReaderEof
  BY <1>9 DEF Die, ReaderEof
<1>10. CASE UNCHANGED vars
  BY <1>10 DEF vars
<1> QED
  BY <1>1, <1>2, <1>3, <1>4, <1>5, <1>6, <1>7, <1>8, <1>9, <1>10
     DEF Next, LoopStep, FaultStep, ChildStep

(* The interrupts, the notices and the inputs of a session.                *)
LEMMA HistoryTyped ==
  ASSUME Inv, [Next]_vars
  PROVE  HistoryOK'
<1> USE DEF Inv, TypeOK, HistoryOK, CurIsMessage, InHand, Kinds, Causes,
            inbox, loop, child, control, history
<1>1. ASSUME NEW m \in Msgs, CheckAlive(m) \/ PostRefused(m) \/ Preempt(m)
      PROVE  HistoryOK'
  BY <1>1 DEF CheckAlive, Alive, PostRefused, Sign, Preempt
<1>2. ASSUME NEW m \in Msgs, NEW preempt \in BOOLEAN, Post(m, preempt)
      PROVE  HistoryOK'
  BY <1>2 DEF Post
<1>3. CASE RemoveSession \/ SignalLoop \/ MarkRemoved
  BY <1>3 DEF RemoveSession, SignalLoop, MarkRemoved
<1>4. CASE Drain \/ Peek \/ NextItem \/ BatchDone \/ Feed \/ FeedFails
        \/ Baseline
  BY <1>4
     DEF Drain, Closed, Peek, Members, NextItem, BatchDone, Feed, FeedFails,
         Baseline
<1>5. CASE Recv \/ RecvNone \/ RecvProbe \/ CountSent \/ PostNotice \/ Ack
  BY <1>5
     DEF Recv, TurnEnds, RecvNone, Closed, RecvProbe, CountSent, NeedsNotice,
         Fault, PostNotice, NoticeKind, Active, Sign, Ack, AfterAck
<1>6. CASE Wait \/ ShutDown \/ ProbeFinds \/ PeekFails \/ GetFails
        \/ BaselineFails \/ AckFails
  BY <1>6
     DEF Wait, ShutDown, ProbeFinds, Alive, PeekFails, Fault, GetFails,
         BaselineFails, AckFails, AfterAck
<1>7. CASE Speak \/ FinishTurn \/ ErrorNotification \/ AnswerInterrupt \/ Die
        \/ ReaderEof
  BY <1>7
     DEF Speak, Sign, FinishTurn, EndEvents, ErrorNotification,
         AnswerInterrupt, InTurn, Die, ReaderEof, EofEvent
<1>8. CASE UNCHANGED vars
  BY <1>8 DEF vars
<1> QED
  BY <1>1, <1>2, <1>3, <1>4, <1>5, <1>6, <1>7, <1>8
     DEF Next, LoopStep, FaultStep, ChildStep

(* The senders and the bounded counters.                                   *)
LEMMA SendersTyped ==
  ASSUME Inv, [Next]_vars
  PROVE  SendersOK'
<1> USE AgentLoopConstants
        DEF Inv, TypeOK, SendersOK, Sends, inbox, loop, child, control,
            history
<1>1. ASSUME NEW m \in Msgs, CheckAlive(m)
      PROVE  SendersOK'
  BY <1>1 DEF CheckAlive, Alive
<1>2. ASSUME NEW m \in Msgs, PostRefused(m)
      PROVE  SendersOK'
  BY <1>2 DEF PostRefused, Alive, Sign
<1>3. ASSUME NEW m \in Msgs, Preempt(m)
      PROVE  SendersOK'
  BY <1>3 DEF Preempt
<1>4. ASSUME NEW m \in Msgs, NEW preempt \in BOOLEAN, Post(m, preempt)
      PROVE  SendersOK'
  BY <1>4 DEF Post
<1>5. CASE RemoveSession \/ SignalLoop \/ MarkRemoved
  BY <1>5 DEF RemoveSession, SignalLoop, MarkRemoved
<1>6. CASE Drain \/ Peek \/ NextItem \/ BatchDone \/ Feed \/ FeedFails
        \/ Baseline
  BY <1>6
     DEF Drain, Closed, Peek, Members, NextItem, BatchDone, Feed, FeedFails,
         Baseline
<1>7. CASE Recv \/ RecvNone \/ RecvProbe \/ CountSent \/ PostNotice \/ Ack
  BY <1>7
     DEF Recv, TurnEnds, RecvNone, Closed, RecvProbe, CountSent, NeedsNotice,
         Fault, PostNotice, NoticeKind, Active, Sign, Ack, AfterAck
<1>8. CASE Wait \/ ShutDown \/ ProbeFinds \/ PeekFails \/ GetFails
        \/ BaselineFails \/ AckFails
  BY <1>8
     DEF Wait, ShutDown, ProbeFinds, Alive, PeekFails, Fault, GetFails,
         BaselineFails, AckFails, AfterAck
<1>9. CASE Speak \/ FinishTurn
  BY <1>9 DEF Speak, Sign, FinishTurn, EndEvents
<1>10. CASE ErrorNotification
  BY <1>10 DEF ErrorNotification
<1>11. CASE AnswerInterrupt \/ Die \/ ReaderEof
  BY <1>11 DEF AnswerInterrupt, InTurn, Die, ReaderEof, EofEvent
<1>12. CASE UNCHANGED vars
  BY <1>12 DEF vars
<1> QED
  BY <1>1, <1>2, <1>3, <1>4, <1>5, <1>6, <1>7, <1>8, <1>9, <1>10, <1>11,
     <1>12
     DEF Next, LoopStep, FaultStep, ChildStep

(* AgentLoop::run's own state.                                             *)
LEMMA LoopTyped ==
  ASSUME Inv, [Next]_vars
  PROVE  LoopOK'
<1> USE DEF Inv, TypeOK, LoopOK, Pcs, Causes, inbox, loop, child, control,
            history
<1>1. ASSUME NEW m \in Msgs, CheckAlive(m) \/ PostRefused(m) \/ Preempt(m)
      PROVE  LoopOK'
  BY <1>1 DEF CheckAlive, Alive, PostRefused, Sign, Preempt
<1>2. ASSUME NEW m \in Msgs, NEW preempt \in BOOLEAN, Post(m, preempt)
      PROVE  LoopOK'
  BY <1>2 DEF Post
<1>3. CASE RemoveSession \/ SignalLoop \/ MarkRemoved
  BY <1>3 DEF RemoveSession, SignalLoop, MarkRemoved
<1>4. CASE Drain \/ Peek \/ NextItem \/ BatchDone \/ Feed \/ FeedFails
        \/ Baseline
  BY <1>4
     DEF Drain, Closed, Peek, Members, NextItem, BatchDone, Feed, FeedFails,
         Baseline
<1>5. CASE Recv \/ RecvNone \/ RecvProbe
  BY <1>5 DEF Recv, TurnEnds, RecvNone, Closed, RecvProbe
<1>6. CASE CountSent \/ PostNotice \/ Ack
  BY <1>6
     DEF CountSent, NeedsNotice, Fault, PostNotice, NoticeKind, Active, Sign,
         Ack, AfterAck
<1>7. CASE Wait \/ ShutDown \/ ProbeFinds
  BY <1>7 DEF Wait, ShutDown, ProbeFinds, Alive
<1>8. CASE PeekFails
  BY <1>8 DEF PeekFails, Fault
<1>9. CASE GetFails
  BY <1>9 DEF GetFails, Fault
<1>10. CASE BaselineFails
  BY <1>10 DEF BaselineFails, Fault
<1>11. CASE AckFails
  BY <1>11 DEF AckFails, AfterAck, Fault
<1>12. CASE Speak \/ FinishTurn \/ ErrorNotification \/ AnswerInterrupt
         \/ Die \/ ReaderEof
  BY <1>12
     DEF Speak, Sign, FinishTurn, EndEvents, ErrorNotification,
         AnswerInterrupt, InTurn, Die, ReaderEof, EofEvent
<1>13. CASE UNCHANGED vars
  BY <1>13 DEF vars
<1> QED
  BY <1>1, <1>2, <1>3, <1>4, <1>5, <1>6, <1>7, <1>8, <1>9, <1>10, <1>11,
     <1>12, <1>13
     DEF Next, LoopStep, FaultStep, ChildStep

(* The process and its session.                                            *)
LEMMA ChildTyped ==
  ASSUME Inv, [Next]_vars
  PROVE  ChildOK'
<1> USE DEF Inv, TypeOK, ChildOK, inbox, loop, child, control, history
<1>1. ASSUME NEW m \in Msgs, CheckAlive(m) \/ PostRefused(m) \/ Preempt(m)
      PROVE  ChildOK'
  BY <1>1 DEF CheckAlive, Alive, PostRefused, Sign, Preempt
<1>2. ASSUME NEW m \in Msgs, NEW preempt \in BOOLEAN, Post(m, preempt)
      PROVE  ChildOK'
  BY <1>2 DEF Post
<1>3. CASE RemoveSession \/ SignalLoop \/ MarkRemoved
  BY <1>3 DEF RemoveSession, SignalLoop, MarkRemoved
<1>4. CASE Drain \/ Peek \/ NextItem \/ BatchDone \/ Feed \/ FeedFails
        \/ Baseline
  BY <1>4
     DEF Drain, Closed, Peek, Members, NextItem, BatchDone, Feed, FeedFails,
         Baseline
<1>5. CASE Recv \/ RecvNone \/ RecvProbe \/ CountSent \/ PostNotice \/ Ack
  BY <1>5
     DEF Recv, TurnEnds, RecvNone, Closed, RecvProbe, CountSent, NeedsNotice,
         Fault, PostNotice, NoticeKind, Active, Sign, Ack, AfterAck
<1>6. CASE Wait \/ ShutDown \/ ProbeFinds \/ PeekFails \/ GetFails
        \/ BaselineFails \/ AckFails
  BY <1>6
     DEF Wait, ShutDown, ProbeFinds, Alive, PeekFails, Fault, GetFails,
         BaselineFails, AckFails, AfterAck
<1>7. CASE Speak \/ FinishTurn \/ ErrorNotification \/ AnswerInterrupt \/ Die
        \/ ReaderEof
  BY <1>7
     DEF Speak, Sign, FinishTurn, EndEvents, ErrorNotification,
         AnswerInterrupt, InTurn, Die, ReaderEof, EofEvent
<1>8. CASE UNCHANGED vars
  BY <1>8 DEF vars
<1> QED
  BY <1>1, <1>2, <1>3, <1>4, <1>5, <1>6, <1>7, <1>8
     DEF Next, LoopStep, FaultStep, ChildStep

-----------------------------------------------------------------------------
(* Every part of the invariant, step by step.                              *)

(* The loop has a message in hand wherever it uses one.                    *)
LEMMA CurStep ==
  ASSUME Inv, [Next]_vars
  PROVE  CurIsMessage'
<1> USE DEF Inv, TypeOK, CurIsMessage, InHand, inbox, loop, child, control,
            history
<1>1. ASSUME NEW m \in Msgs, CheckAlive(m) \/ PostRefused(m) \/ Preempt(m)
      PROVE  CurIsMessage'
  BY <1>1 DEF CheckAlive, Alive, PostRefused, Sign, Preempt
<1>2. ASSUME NEW m \in Msgs, NEW preempt \in BOOLEAN, Post(m, preempt)
      PROVE  CurIsMessage'
  BY <1>2 DEF Post
<1>3. CASE RemoveSession \/ SignalLoop \/ MarkRemoved
  BY <1>3 DEF RemoveSession, SignalLoop, MarkRemoved
<1>4. CASE Drain \/ Peek \/ NextItem \/ BatchDone \/ Feed \/ FeedFails
        \/ Baseline
  BY <1>4
     DEF Drain, Closed, Peek, Members, NextItem, BatchDone, Feed, FeedFails,
         Baseline
<1>5. CASE Recv \/ RecvNone \/ RecvProbe \/ CountSent \/ PostNotice \/ Ack
  BY <1>5
     DEF Recv, TurnEnds, RecvNone, Closed, RecvProbe, CountSent, NeedsNotice,
         Fault, PostNotice, NoticeKind, Active, Sign, Ack, AfterAck
<1>6. CASE Wait \/ ShutDown \/ ProbeFinds \/ PeekFails \/ GetFails
        \/ BaselineFails \/ AckFails
  BY <1>6
     DEF Wait, ShutDown, ProbeFinds, Alive, PeekFails, Fault, GetFails,
         BaselineFails, AckFails, AfterAck
<1>7. CASE Speak \/ FinishTurn \/ ErrorNotification \/ AnswerInterrupt \/ Die
        \/ ReaderEof
  BY <1>7
     DEF Speak, Sign, FinishTurn, EndEvents, ErrorNotification,
         AnswerInterrupt, InTurn, Die, ReaderEof, EofEvent
<1>8. CASE UNCHANGED vars
  BY <1>8 DEF vars
<1> QED
  BY <1>1, <1>2, <1>3, <1>4, <1>5, <1>6, <1>7, <1>8
     DEF Next, LoopStep, FaultStep, ChildStep

(* A Claude session refuses an input while a turn is running, so this      *)
(* rests on OneTurn.                                                       *)
LEMMA DeathStep ==
  ASSUME Inv, [Next]_vars
  PROVE  SignsOfDeath'
<1> USE DEF Inv, TypeOK, SignsOfDeath, OneTurn, Undisturbed, inbox, loop,
            child, control, history
<1>1. ASSUME NEW m \in Msgs, CheckAlive(m) \/ PostRefused(m) \/ Preempt(m)
      PROVE  SignsOfDeath'
  BY <1>1 DEF CheckAlive, Alive, PostRefused, Sign, Preempt
<1>2. ASSUME NEW m \in Msgs, NEW preempt \in BOOLEAN, Post(m, preempt)
      PROVE  SignsOfDeath'
  BY <1>2 DEF Post
<1>3. CASE RemoveSession \/ SignalLoop \/ MarkRemoved
  BY <1>3 DEF RemoveSession, SignalLoop, MarkRemoved
<1>4. CASE Drain \/ Peek \/ NextItem \/ BatchDone \/ Feed \/ FeedFails
        \/ Baseline
  BY <1>4
     DEF Drain, Closed, Peek, Members, NextItem, BatchDone, Feed, FeedFails,
         Baseline
<1>5. CASE Recv \/ RecvNone \/ RecvProbe \/ CountSent \/ PostNotice \/ Ack
  BY <1>5
     DEF Recv, TurnEnds, RecvNone, Closed, RecvProbe, CountSent, NeedsNotice,
         Fault, PostNotice, NoticeKind, Active, Sign, Ack, AfterAck
<1>6. CASE Wait \/ ShutDown \/ ProbeFinds \/ PeekFails \/ GetFails
        \/ BaselineFails \/ AckFails
  BY <1>6
     DEF Wait, ShutDown, ProbeFinds, Alive, PeekFails, Fault, GetFails,
         BaselineFails, AckFails, AfterAck
<1>7. CASE Speak \/ FinishTurn \/ ErrorNotification \/ AnswerInterrupt \/ Die
        \/ ReaderEof
  BY <1>7
     DEF Speak, Sign, FinishTurn, EndEvents, ErrorNotification,
         AnswerInterrupt, InTurn, Die, ReaderEof, EofEvent
<1>8. CASE UNCHANGED vars
  BY <1>8 DEF vars
<1> QED
  BY <1>1, <1>2, <1>3, <1>4, <1>5, <1>6, <1>7, <1>8
     DEF Next, LoopStep, FaultStep, ChildStep

(* A notice repeats a sign of death.                                       *)
LEMMA NoticeStep ==
  ASSUME Inv, [Next]_vars
  PROVE  DeathNoticesAreTrue'
<1> USE DEF Inv, TypeOK, SignsOfDeath, DeathNoticesAreTrue, inbox, loop,
            child, control, history
<1>1. ASSUME NEW m \in Msgs, CheckAlive(m) \/ PostRefused(m) \/ Preempt(m)
      PROVE  DeathNoticesAreTrue'
  BY <1>1 DEF CheckAlive, Alive, PostRefused, Sign, Preempt
<1>2. ASSUME NEW m \in Msgs, NEW preempt \in BOOLEAN, Post(m, preempt)
      PROVE  DeathNoticesAreTrue'
  BY <1>2 DEF Post
<1>3. CASE RemoveSession \/ SignalLoop \/ MarkRemoved
  BY <1>3 DEF RemoveSession, SignalLoop, MarkRemoved
<1>4. CASE Drain \/ Peek \/ NextItem \/ BatchDone \/ Feed \/ FeedFails
        \/ Baseline
  BY <1>4
     DEF Drain, Closed, Peek, Members, NextItem, BatchDone, Feed, FeedFails,
         Baseline
<1>5. CASE PostNotice
  <2> SUFFICES ASSUME NEW m \in Msgs,
                      NEW kind \in {"closed", "died", "not_alive"},
                      <<m, kind>> \in notices'
               PROVE  proc = "down"
    BY <1>5 DEF PostNotice, child
  <2>1. CASE <<m, kind>> \in notices
    BY <2>1
  <2>2. CASE kind = NoticeKind
    BY <2>2 DEF NoticeKind, Causes
  <2> QED
    BY <1>5, <2>1, <2>2 DEF PostNotice
<1>6. CASE Recv \/ RecvNone \/ RecvProbe \/ CountSent \/ Ack
  BY <1>6
     DEF Recv, TurnEnds, RecvNone, Closed, RecvProbe, CountSent, NeedsNotice,
         Fault, Ack, AfterAck
<1>7. CASE Wait \/ ShutDown \/ ProbeFinds \/ PeekFails \/ GetFails
        \/ BaselineFails \/ AckFails
  BY <1>7
     DEF Wait, ShutDown, ProbeFinds, Alive, PeekFails, Fault, GetFails,
         BaselineFails, AckFails, AfterAck
<1>8. CASE Speak \/ FinishTurn \/ ErrorNotification \/ AnswerInterrupt \/ Die
        \/ ReaderEof
  BY <1>8
     DEF Speak, Sign, FinishTurn, EndEvents, ErrorNotification,
         AnswerInterrupt, InTurn, Die, ReaderEof, EofEvent
<1>9. CASE UNCHANGED vars
  BY <1>9 DEF vars
<1> QED
  BY <1>1, <1>2, <1>3, <1>4, <1>5, <1>6, <1>7, <1>8, <1>9
     DEF Next, LoopStep, FaultStep, ChildStep

(* The loop ends on a sign of death or on a failed store.                  *)
LEMMA OutliveStep ==
  ASSUME Inv, [Next]_vars
  PROVE  LoopOutlivesChild'
<1> USE AgentLoopConstants
        DEF Inv, TypeOK, SignsOfDeath, LoopOutlivesChild, NothingBeforeDrain,
            inbox, loop, child, control, history
<1>1. ASSUME NEW m \in Msgs, CheckAlive(m) \/ PostRefused(m) \/ Preempt(m)
      PROVE  LoopOutlivesChild'
  BY <1>1 DEF CheckAlive, Alive, PostRefused, Sign, Preempt
<1>2. ASSUME NEW m \in Msgs, NEW preempt \in BOOLEAN, Post(m, preempt)
      PROVE  LoopOutlivesChild'
  BY <1>2 DEF Post
<1>3. CASE RemoveSession \/ SignalLoop \/ MarkRemoved
  BY <1>3 DEF RemoveSession, SignalLoop, MarkRemoved
<1>4. CASE Drain \/ Peek \/ NextItem \/ BatchDone \/ Feed \/ FeedFails
        \/ Baseline
  BY <1>4
     DEF Drain, Closed, Peek, Members, NextItem, BatchDone, Feed, FeedFails,
         Baseline
<1>5. CASE Recv \/ RecvNone \/ RecvProbe \/ CountSent \/ PostNotice \/ Ack
  BY <1>5
     DEF Recv, TurnEnds, RecvNone, Closed, RecvProbe, CountSent, NeedsNotice,
         Fault, PostNotice, NoticeKind, Active, Sign, Ack, AfterAck
<1>6. CASE Wait \/ ShutDown \/ ProbeFinds \/ PeekFails \/ GetFails
        \/ BaselineFails \/ AckFails
  BY <1>6
     DEF Wait, ShutDown, ProbeFinds, Alive, PeekFails, Fault, GetFails,
         BaselineFails, AckFails, AfterAck
<1>7. CASE Speak \/ FinishTurn \/ ErrorNotification \/ AnswerInterrupt \/ Die
        \/ ReaderEof
  BY <1>7
     DEF Speak, Sign, FinishTurn, EndEvents, ErrorNotification,
         AnswerInterrupt, InTurn, Die, ReaderEof, EofEvent
<1>8. CASE UNCHANGED vars
  BY <1>8 DEF vars
<1> QED
  BY <1>1, <1>2, <1>3, <1>4, <1>5, <1>6, <1>7, <1>8
     DEF Next, LoopStep, FaultStep, ChildStep

(* No input has been sent when the loop drains the channel.                *)
LEMMA DrainStep ==
  ASSUME Inv, [Next]_vars
  PROVE  NothingBeforeDrain'
<1> USE DEF Inv, TypeOK, NothingBeforeDrain, inbox, loop, child, control,
            history
<1>1. ASSUME NEW m \in Msgs, CheckAlive(m) \/ PostRefused(m) \/ Preempt(m)
      PROVE  NothingBeforeDrain'
  BY <1>1 DEF CheckAlive, Alive, PostRefused, Sign, Preempt
<1>2. ASSUME NEW m \in Msgs, NEW preempt \in BOOLEAN, Post(m, preempt)
      PROVE  NothingBeforeDrain'
  BY <1>2 DEF Post
<1>3. CASE RemoveSession \/ SignalLoop \/ MarkRemoved
  BY <1>3 DEF RemoveSession, SignalLoop, MarkRemoved
<1>4. CASE Drain \/ Peek \/ NextItem \/ BatchDone \/ Feed \/ FeedFails
        \/ Baseline
  BY <1>4
     DEF Drain, Closed, Peek, Members, NextItem, BatchDone, Feed, FeedFails,
         Baseline
<1>5. CASE Recv \/ RecvNone \/ RecvProbe \/ CountSent \/ PostNotice \/ Ack
  BY <1>5
     DEF Recv, TurnEnds, RecvNone, Closed, RecvProbe, CountSent, NeedsNotice,
         Fault, PostNotice, NoticeKind, Active, Sign, Ack, AfterAck
<1>6. CASE Wait \/ ShutDown \/ ProbeFinds \/ PeekFails \/ GetFails
        \/ BaselineFails \/ AckFails
  BY <1>6
     DEF Wait, ShutDown, ProbeFinds, Alive, PeekFails, Fault, GetFails,
         BaselineFails, AckFails, AfterAck
<1>7. CASE Speak \/ FinishTurn \/ ErrorNotification \/ AnswerInterrupt \/ Die
        \/ ReaderEof
  BY <1>7
     DEF Speak, Sign, FinishTurn, EndEvents, ErrorNotification,
         AnswerInterrupt, InTurn, Die, ReaderEof, EofEvent
<1>8. CASE UNCHANGED vars
  BY <1>8 DEF vars
<1> QED
  BY <1>1, <1>2, <1>3, <1>4, <1>5, <1>6, <1>7, <1>8
     DEF Next, LoopStep, FaultStep, ChildStep

(* An interrupt is counted when its message is saved.                      *)
LEMMA InterruptStep ==
  ASSUME Inv, [Next]_vars
  PROVE  InterruptsCounted'
<1> USE AgentLoopConstants
        DEF Inv, TypeOK, InterruptsCounted, inbox, loop, child, control,
            history
<1>1. ASSUME NEW m \in Msgs, CheckAlive(m) \/ PostRefused(m) \/ Preempt(m)
      PROVE  InterruptsCounted'
  BY <1>1 DEF CheckAlive, Alive, PostRefused, Sign, Preempt
<1>2. ASSUME NEW m \in Msgs, NEW preempt \in BOOLEAN, Post(m, preempt)
      PROVE  InterruptsCounted'
  BY <1>2 DEF Post
<1>3. CASE RemoveSession \/ SignalLoop \/ MarkRemoved
  BY <1>3 DEF RemoveSession, SignalLoop, MarkRemoved
<1>4. CASE Drain \/ Peek \/ NextItem \/ BatchDone \/ Feed \/ FeedFails
        \/ Baseline
  BY <1>4
     DEF Drain, Closed, Peek, Members, NextItem, BatchDone, Feed, FeedFails,
         Baseline
<1>5. CASE Recv \/ RecvNone \/ RecvProbe \/ CountSent \/ PostNotice \/ Ack
  BY <1>5
     DEF Recv, TurnEnds, RecvNone, Closed, RecvProbe, CountSent, NeedsNotice,
         Fault, PostNotice, NoticeKind, Active, Sign, Ack, AfterAck
<1>6. CASE Wait \/ ShutDown \/ ProbeFinds \/ PeekFails \/ GetFails
        \/ BaselineFails \/ AckFails
  BY <1>6
     DEF Wait, ShutDown, ProbeFinds, Alive, PeekFails, Fault, GetFails,
         BaselineFails, AckFails, AfterAck
<1>7. CASE Speak \/ FinishTurn \/ ErrorNotification \/ AnswerInterrupt \/ Die
        \/ ReaderEof
  BY <1>7
     DEF Speak, Sign, FinishTurn, EndEvents, ErrorNotification,
         AnswerInterrupt, InTurn, Die, ReaderEof, EofEvent
<1>8. CASE UNCHANGED vars
  BY <1>8 DEF vars
<1> QED
  BY <1>1, <1>2, <1>3, <1>4, <1>5, <1>6, <1>7, <1>8
     DEF Next, LoopStep, FaultStep, ChildStep

(* The loop sends an input only after the event that ended the turn        *)
(* before, and an undisturbed child sends one event per input.             *)
LEMMA OneTurnStep ==
  ASSUME Inv, [Next]_vars
  PROVE  OneTurn'
<1> USE AgentLoopConstants
        DEF Inv, TypeOK, OneTurn, Undisturbed, InterruptsCounted,
            SignsOfDeath, inbox, loop, child, control, history
<1>1. ASSUME NEW m \in Msgs, CheckAlive(m) \/ PostRefused(m) \/ Preempt(m)
      PROVE  OneTurn'
  BY <1>1 DEF CheckAlive, Alive, PostRefused, Sign, Preempt
<1>2. ASSUME NEW m \in Msgs, NEW preempt \in BOOLEAN, Post(m, preempt)
      PROVE  OneTurn'
  BY <1>2 DEF Post
<1>3. CASE RemoveSession \/ SignalLoop \/ MarkRemoved
  BY <1>3 DEF RemoveSession, SignalLoop, MarkRemoved
<1>4. CASE Feed
  <2> SUFFICES ASSUME Undisturbed', proc' = "up"
               PROVE  working' = <<cur'>> /\ chan' = <<>> /\ pc' = "baseline"
    OBVIOUS
  <2>1. Undisturbed /\ proc = "up"
    BY <1>4 DEF Feed, control
  <2>2. working = <<>> /\ chan = <<>> /\ cur \in Msgs
    BY <1>4, <2>1 DEF Feed, CurIsMessage, InHand
  <2> QED
    BY <1>4, <2>1, <2>2, OneElement DEF Feed
<1>5. CASE Drain \/ Peek \/ NextItem \/ BatchDone \/ FeedFails \/ Baseline
  BY <1>5
     DEF Drain, Closed, Peek, Members, NextItem, BatchDone, FeedFails,
         Baseline
<1>6. CASE Recv
  <2> SUFFICES ASSUME Undisturbed', proc' = "up"
               PROVE  working' = <<>> /\ chan' = <<>> /\ pc' = "count"
    OBVIOUS
  <2>1. Undisturbed /\ proc = "up"
    BY <1>6 DEF Recv, TurnEnds, control, history
  <2>2. working = <<>> /\ Tail(chan) = <<>>
    BY <1>6, <2>1, OneElement DEF Recv, TurnEnds
  <2> QED
    BY <1>6, <2>2 DEF Recv, TurnEnds
<1>7. CASE RecvNone \/ RecvProbe \/ CountSent \/ PostNotice \/ Ack
  BY <1>7
     DEF RecvNone, TurnEnds, Closed, RecvProbe, CountSent, NeedsNotice,
         Fault, PostNotice, NoticeKind, Active, Sign, Ack, AfterAck
<1>8. CASE Wait \/ ShutDown \/ ProbeFinds \/ PeekFails \/ GetFails
        \/ BaselineFails \/ AckFails
  BY <1>8
     DEF Wait, ShutDown, ProbeFinds, Alive, PeekFails, Fault, GetFails,
         BaselineFails, AckFails, AfterAck
<1>9. CASE FinishTurn
  <2> SUFFICES ASSUME Undisturbed', proc' = "up"
               PROVE  /\ pc' \in {"baseline", "turn"}
                      /\ working' = <<>>
                      /\ \E e \in {"complete", "error"} : chan' = <<e>>
    OBVIOUS
  <2>1. Undisturbed /\ proc = "up"
    BY <1>9 DEF FinishTurn, control, history
  <2>2. working = <<cur>> /\ chan = <<>> /\ pc \in {"baseline", "turn"}
    BY <1>9, <2>1 DEF FinishTurn
  <2>3. cur \in Msgs
    BY <2>2 DEF CurIsMessage, InHand
  <2>4. PICK e \in {"complete", "error"} : chan' = Append(chan, e)
    BY <1>9 DEF FinishTurn, EndEvents
  <2>5. working' = <<>> /\ chan' = <<e>> /\ pc' = pc
    BY <1>9, <2>2, <2>3, <2>4, OneElement DEF FinishTurn, loop
  <2> QED
    BY <2>2, <2>5
<1>10. CASE Speak \/ ErrorNotification \/ AnswerInterrupt \/ Die \/ ReaderEof
  BY <1>10
     DEF Speak, Sign, ErrorNotification, AnswerInterrupt, InTurn, Die,
         ReaderEof, EofEvent
<1>11. CASE UNCHANGED vars
  BY <1>11 DEF vars
<1> QED
  BY <1>1, <1>2, <1>3, <1>4, <1>5, <1>6, <1>7, <1>8, <1>9, <1>10, <1>11
     DEF Next, LoopStep, FaultStep, ChildStep

(* Only the message in hand is acknowledged.                               *)
LEMMA BatchStep ==
  ASSUME Inv, [Next]_vars
  PROVE  BatchIsUnread'
<1> USE DEF Inv, TypeOK, BatchIsUnread, InHand, CurIsMessage, inbox, loop,
            child, control, history
<1>1. ASSUME NEW m \in Msgs, CheckAlive(m) \/ PostRefused(m) \/ Preempt(m)
      PROVE  BatchIsUnread'
  BY <1>1 DEF CheckAlive, Alive, PostRefused, Sign, Preempt
<1>2. ASSUME NEW m \in Msgs, NEW preempt \in BOOLEAN, Post(m, preempt)
      PROVE  BatchIsUnread'
  BY <1>2 DEF Post
<1>3. CASE RemoveSession \/ SignalLoop \/ MarkRemoved
  BY <1>3 DEF RemoveSession, SignalLoop, MarkRemoved
<1>4. CASE Drain \/ Peek \/ NextItem \/ BatchDone \/ Feed \/ FeedFails
        \/ Baseline
  BY <1>4
     DEF Drain, Closed, Peek, Members, NextItem, BatchDone, Feed, FeedFails,
         Baseline
<1>5. CASE Recv \/ RecvNone \/ RecvProbe \/ CountSent \/ PostNotice \/ Ack
  BY <1>5
     DEF Recv, TurnEnds, RecvNone, Closed, RecvProbe, CountSent, NeedsNotice,
         Fault, PostNotice, NoticeKind, Active, Sign, Ack, AfterAck
<1>6. CASE Wait \/ ShutDown \/ ProbeFinds \/ PeekFails \/ GetFails
        \/ BaselineFails \/ AckFails
  BY <1>6
     DEF Wait, ShutDown, ProbeFinds, Alive, PeekFails, Fault, GetFails,
         BaselineFails, AckFails, AfterAck
<1>7. CASE Speak \/ FinishTurn \/ ErrorNotification \/ AnswerInterrupt \/ Die
        \/ ReaderEof
  BY <1>7
     DEF Speak, Sign, FinishTurn, EndEvents, ErrorNotification,
         AnswerInterrupt, InTurn, Die, ReaderEof, EofEvent
<1>8. CASE UNCHANGED vars
  BY <1>8 DEF vars
<1> QED
  BY <1>1, <1>2, <1>3, <1>4, <1>5, <1>6, <1>7, <1>8
     DEF Next, LoopStep, FaultStep, ChildStep

(* A message is fed from the batch, which is unread.                       *)
LEMMA FedStep ==
  ASSUME Inv, [Next]_vars
  PROVE  FedIsKept'
<1> USE DEF Inv, TypeOK, FedIsKept, BatchIsUnread, Handed, InHand,
            CurIsMessage, inbox, loop, child, control, history
<1>1. ASSUME NEW m \in Msgs, CheckAlive(m) \/ PostRefused(m) \/ Preempt(m)
      PROVE  FedIsKept'
  BY <1>1 DEF CheckAlive, Alive, PostRefused, Sign, Preempt
<1>2. ASSUME NEW m \in Msgs, NEW preempt \in BOOLEAN, Post(m, preempt)
      PROVE  FedIsKept'
  BY <1>2 DEF Post
<1>3. CASE RemoveSession \/ SignalLoop \/ MarkRemoved
  BY <1>3 DEF RemoveSession, SignalLoop, MarkRemoved
<1>4. CASE Drain \/ Peek \/ NextItem \/ BatchDone \/ Feed \/ FeedFails
        \/ Baseline
  BY <1>4
     DEF Drain, Closed, Peek, Members, NextItem, BatchDone, Feed, FeedFails,
         Baseline
<1>5. CASE Recv \/ RecvNone \/ RecvProbe \/ CountSent \/ PostNotice \/ Ack
  BY <1>5
     DEF Recv, TurnEnds, RecvNone, Closed, RecvProbe, CountSent, NeedsNotice,
         Fault, PostNotice, NoticeKind, Active, Sign, Ack, AfterAck
<1>6. CASE Wait \/ ShutDown \/ ProbeFinds \/ PeekFails \/ GetFails
        \/ BaselineFails \/ AckFails
  BY <1>6
     DEF Wait, ShutDown, ProbeFinds, Alive, PeekFails, Fault, GetFails,
         BaselineFails, AckFails, AfterAck
<1>7. CASE Speak \/ FinishTurn \/ ErrorNotification \/ AnswerInterrupt \/ Die
        \/ ReaderEof
  BY <1>7
     DEF Speak, Sign, FinishTurn, EndEvents, ErrorNotification,
         AnswerInterrupt, InTurn, Die, ReaderEof, EofEvent
<1>8. CASE UNCHANGED vars
  BY <1>8 DEF vars
<1> QED
  BY <1>1, <1>2, <1>3, <1>4, <1>5, <1>6, <1>7, <1>8
     DEF Next, LoopStep, FaultStep, ChildStep

(* Notices stay.                                                           *)
LEMMA NoticedStep ==
  ASSUME Inv, [Next]_vars
  PROVE  /\ \A m \in Msgs : Noticed(m) => Noticed(m)'
         /\ NotAliveNoticed => NotAliveNoticed'
<1> DEFINE Kept ==
      /\ \A m \in Msgs : Noticed(m) => Noticed(m)'
      /\ NotAliveNoticed => NotAliveNoticed'
<1> USE DEF Inv, Noticed, NotAliveNoticed, inbox, loop, child, control,
            history
<1>1. ASSUME NEW m \in Msgs, CheckAlive(m) \/ PostRefused(m) \/ Preempt(m)
      PROVE  Kept
  BY <1>1 DEF CheckAlive, Alive, PostRefused, Sign, Preempt
<1>2. ASSUME NEW m \in Msgs, NEW preempt \in BOOLEAN, Post(m, preempt)
      PROVE  Kept
  BY <1>2 DEF Post
<1>3. CASE RemoveSession \/ SignalLoop \/ MarkRemoved
  BY <1>3 DEF RemoveSession, SignalLoop, MarkRemoved
<1>4. CASE Drain \/ Peek \/ NextItem \/ BatchDone \/ Feed \/ FeedFails
        \/ Baseline
  BY <1>4
     DEF Drain, Closed, Peek, Members, NextItem, BatchDone, Feed, FeedFails,
         Baseline
<1>5. CASE Recv \/ RecvNone \/ RecvProbe \/ CountSent \/ PostNotice \/ Ack
  BY <1>5
     DEF Recv, TurnEnds, RecvNone, Closed, RecvProbe, CountSent, NeedsNotice,
         Fault, PostNotice, NoticeKind, Active, Sign, Ack, AfterAck
<1>6. CASE Wait \/ ShutDown \/ ProbeFinds \/ PeekFails \/ GetFails
        \/ BaselineFails \/ AckFails
  BY <1>6
     DEF Wait, ShutDown, ProbeFinds, Alive, PeekFails, Fault, GetFails,
         BaselineFails, AckFails, AfterAck
<1>7. CASE Speak \/ FinishTurn \/ ErrorNotification \/ AnswerInterrupt \/ Die
        \/ ReaderEof
  BY <1>7
     DEF Speak, Sign, FinishTurn, EndEvents, ErrorNotification,
         AnswerInterrupt, InTurn, Die, ReaderEof, EofEvent
<1>8. CASE UNCHANGED vars
  BY <1>8 DEF vars
<1> QED
  BY <1>1, <1>2, <1>3, <1>4, <1>5, <1>6, <1>7, <1>8
     DEF Next, LoopStep, FaultStep, ChildStep

(* What has been said stays said, and what was disturbed stays so.         *)
LEMMA HistoryStep ==
  ASSUME Inv, [Next]_vars
  PROVE  /\ said \subseteq said'
         /\ faults' = 0 => faults = 0
         /\ extra' = 0 => extra = 0
         /\ remove' = "no" => remove = "no"
<1> DEFINE Kept ==
      /\ said \subseteq said'
      /\ faults' = 0 => faults = 0
      /\ extra' = 0 => extra = 0
      /\ remove' = "no" => remove = "no"
<1> USE AgentLoopConstants
        DEF Inv, TypeOK, inbox, loop, child, control, history
<1>1. ASSUME NEW m \in Msgs, CheckAlive(m) \/ PostRefused(m) \/ Preempt(m)
      PROVE  Kept
  BY <1>1 DEF CheckAlive, Alive, PostRefused, Sign, Preempt
<1>2. ASSUME NEW m \in Msgs, NEW preempt \in BOOLEAN, Post(m, preempt)
      PROVE  Kept
  BY <1>2 DEF Post
<1>3. CASE RemoveSession \/ SignalLoop \/ MarkRemoved
  BY <1>3 DEF RemoveSession, SignalLoop, MarkRemoved
<1>4. CASE Drain \/ Peek \/ NextItem \/ BatchDone \/ Feed \/ FeedFails
        \/ Baseline
  BY <1>4
     DEF Drain, Closed, Peek, Members, NextItem, BatchDone, Feed, FeedFails,
         Baseline
<1>5. CASE Recv \/ RecvNone \/ RecvProbe \/ CountSent \/ PostNotice \/ Ack
  BY <1>5
     DEF Recv, TurnEnds, RecvNone, Closed, RecvProbe, CountSent, NeedsNotice,
         Fault, PostNotice, NoticeKind, Active, Sign, Ack, AfterAck
<1>6. CASE Wait \/ ShutDown \/ ProbeFinds \/ PeekFails \/ GetFails
        \/ BaselineFails \/ AckFails
  BY <1>6
     DEF Wait, ShutDown, ProbeFinds, Alive, PeekFails, Fault, GetFails,
         BaselineFails, AckFails, AfterAck
<1>7. CASE Speak \/ FinishTurn \/ ErrorNotification \/ AnswerInterrupt \/ Die
        \/ ReaderEof
  BY <1>7
     DEF Speak, Sign, FinishTurn, EndEvents, ErrorNotification,
         AnswerInterrupt, InTurn, Die, ReaderEof, EofEvent
<1>8. CASE UNCHANGED vars
  BY <1>8 DEF vars
<1> QED
  BY <1>1, <1>2, <1>3, <1>4, <1>5, <1>6, <1>7, <1>8
     DEF Next, LoopStep, FaultStep, ChildStep

(* While the loop waits for a turn, the child speaks of that turn alone.   *)
LEMMA GrowthStep ==
  ASSUME Inv, [Next]_vars
  PROVE  GrowthIsSpeech'
<1> USE NoticedStep, HistoryStep
        DEF Inv, TypeOK, GrowthIsSpeech, OneTurn, Undisturbed, inbox, loop,
            child, control, history
<1>1. ASSUME NEW m \in Msgs, CheckAlive(m) \/ PostRefused(m) \/ Preempt(m)
      PROVE  GrowthIsSpeech'
  BY <1>1
     DEF CheckAlive, Alive, PostRefused, Sign, Preempt, NotAliveNoticed
<1>2. ASSUME NEW m \in Msgs, NEW preempt \in BOOLEAN, Post(m, preempt)
      PROVE  GrowthIsSpeech'
  BY <1>2 DEF Post
<1>3. CASE RemoveSession \/ SignalLoop \/ MarkRemoved
  BY <1>3 DEF RemoveSession, SignalLoop, MarkRemoved
<1>4. CASE Drain \/ Peek \/ NextItem \/ BatchDone \/ Feed \/ FeedFails
        \/ Baseline
  BY <1>4
     DEF Drain, Closed, Peek, Members, NextItem, BatchDone, Feed, FeedFails,
         Baseline
<1>5. CASE Recv \/ RecvNone \/ RecvProbe \/ CountSent \/ PostNotice \/ Ack
  BY <1>5
     DEF Recv, TurnEnds, RecvNone, Closed, RecvProbe, CountSent, NeedsNotice,
         Fault, PostNotice, NoticeKind, Active, Sign, Ack, AfterAck
<1>6. CASE Wait \/ ShutDown \/ ProbeFinds
  BY <1>6 DEF Wait, ShutDown, ProbeFinds, Alive
<1>7. CASE PeekFails \/ GetFails
  BY <1>7 DEF PeekFails, Fault, GetFails
<1>8. CASE BaselineFails
  BY <1>8 DEF BaselineFails, Fault
<1>9. CASE AckFails
  BY <1>9 DEF AckFails, AfterAck, Fault
<1>10. CASE Speak
  BY <1>10 DEF Speak, Sign
<1>11. CASE FinishTurn \/ ErrorNotification \/ AnswerInterrupt
  BY <1>11
     DEF FinishTurn, EndEvents, ErrorNotification, AnswerInterrupt, InTurn
<1>12. CASE Die \/ ReaderEof
  BY <1>12 DEF Die, ReaderEof, EofEvent
<1>13. CASE UNCHANGED vars
  BY <1>13 DEF vars
<1> QED
  BY <1>1, <1>2, <1>3, <1>4, <1>5, <1>6, <1>7, <1>8, <1>9, <1>10, <1>11,
     <1>12, <1>13
     DEF Next, LoopStep, FaultStep, ChildStep

(* A turn without a growing count leaves a notice before the receipt.      *)
LEMMA EarnStep ==
  ASSUME Inv, [Next]_vars
  PROVE  AckIsEarned'
<1> USE NoticedStep, HistoryStep
        DEF Inv, TypeOK, AckIsEarned, GrowthIsSpeech, CurIsMessage, InHand,
            inbox, loop, child, control, history
<1>1. ASSUME NEW m \in Msgs, CheckAlive(m) \/ PostRefused(m) \/ Preempt(m)
      PROVE  AckIsEarned'
  BY <1>1 DEF CheckAlive, Alive, PostRefused, Sign, Preempt
<1>2. ASSUME NEW m \in Msgs, NEW preempt \in BOOLEAN, Post(m, preempt)
      PROVE  AckIsEarned'
  BY <1>2 DEF Post
<1>3. CASE RemoveSession \/ SignalLoop \/ MarkRemoved
  BY <1>3 DEF RemoveSession, SignalLoop, MarkRemoved
<1>4. CASE Drain \/ Peek \/ NextItem \/ BatchDone \/ Feed \/ FeedFails
        \/ Baseline
  BY <1>4
     DEF Drain, Closed, Peek, Members, NextItem, BatchDone, Feed, FeedFails,
         Baseline
<1>5. CASE Recv \/ RecvNone \/ RecvProbe
  BY <1>5 DEF Recv, TurnEnds, RecvNone, Closed, RecvProbe
<1>6. CASE CountSent
  BY <1>6 DEF CountSent, NeedsNotice, Fault
<1>7. CASE PostNotice
  <2> SUFFICES ASSUME faults' = 0, remove' = "no"
               PROVE  Noticed(cur)'
    BY <1>7 DEF PostNotice
  <2>1. Active /\ cur' = cur
    BY <1>7 DEF PostNotice, Active
  <2>2. ~Fault
    BY DEF Fault
  <2>3. notices' = notices \cup {<<cur, NoticeKind>>}
    BY <1>7, <2>1, <2>2 DEF PostNotice
  <2>4. NoticeKind \in Kinds
    BY DEF NoticeKind, Kinds, Causes
  <2> QED
    BY <2>1, <2>3, <2>4 DEF Noticed
<1>8. CASE Ack
  BY <1>8 DEF Ack, AfterAck
<1>9. CASE Wait \/ ShutDown \/ ProbeFinds \/ PeekFails \/ GetFails
        \/ BaselineFails \/ AckFails
  BY <1>9
     DEF Wait, ShutDown, ProbeFinds, Alive, PeekFails, Fault, GetFails,
         BaselineFails, AckFails, AfterAck
<1>10. CASE Speak \/ FinishTurn \/ ErrorNotification \/ AnswerInterrupt
         \/ Die \/ ReaderEof
  BY <1>10
     DEF Speak, Sign, FinishTurn, EndEvents, ErrorNotification,
         AnswerInterrupt, InTurn, Die, ReaderEof, EofEvent
<1>11. CASE UNCHANGED vars
  BY <1>11 DEF vars
<1> QED
  BY <1>1, <1>2, <1>3, <1>4, <1>5, <1>6, <1>7, <1>8, <1>9, <1>10, <1>11
     DEF Next, LoopStep, FaultStep, ChildStep

(* The receipt comes after the answer.                                     *)
LEMMA AnswerStep ==
  ASSUME Inv, [Next]_vars
  PROVE  AckedIsAnswered'
<1> USE NoticedStep, HistoryStep
        DEF Inv, TypeOK, AckIsEarned, AckedIsAnswered, inbox, loop, child,
            control, history
<1>1. ASSUME NEW m \in Msgs, CheckAlive(m) \/ PostRefused(m) \/ Preempt(m)
      PROVE  AckedIsAnswered'
  BY <1>1 DEF CheckAlive, Alive, PostRefused, Sign, Preempt
<1>2. ASSUME NEW m \in Msgs, NEW preempt \in BOOLEAN, Post(m, preempt)
      PROVE  AckedIsAnswered'
  BY <1>2 DEF Post
<1>3. CASE RemoveSession \/ SignalLoop \/ MarkRemoved
  BY <1>3 DEF RemoveSession, SignalLoop, MarkRemoved
<1>4. CASE Drain \/ Peek \/ NextItem \/ BatchDone \/ Feed \/ FeedFails
        \/ Baseline
  BY <1>4
     DEF Drain, Closed, Peek, Members, NextItem, BatchDone, Feed, FeedFails,
         Baseline
<1>5. CASE Ack
  <2>1. AckedIsAnswered /\ AckIsEarned
    OBVIOUS
  <2>2. /\ acked' = acked \cup {cur}
        /\ faults' = faults /\ extra' = extra /\ remove' = remove
        /\ said' = said /\ notices' = notices
    BY <1>5 DEF Ack, control, history
  <2>3. pc = "ack"
    BY <1>5 DEF Ack
  <2> QED
    BY <2>1, <2>2, <2>3 DEF Noticed, NotAliveNoticed
<1>6. CASE Recv \/ RecvNone \/ RecvProbe \/ CountSent \/ PostNotice
  BY <1>6
     DEF Recv, TurnEnds, RecvNone, Closed, RecvProbe, CountSent, NeedsNotice,
         Fault, PostNotice, NoticeKind, Active, Sign
<1>7. CASE Wait \/ ShutDown \/ ProbeFinds \/ PeekFails \/ GetFails
        \/ BaselineFails \/ AckFails
  BY <1>7
     DEF Wait, ShutDown, ProbeFinds, Alive, PeekFails, Fault, GetFails,
         BaselineFails, AckFails, AfterAck
<1>8. CASE Speak \/ FinishTurn \/ ErrorNotification \/ AnswerInterrupt \/ Die
        \/ ReaderEof
  BY <1>8
     DEF Speak, Sign, FinishTurn, EndEvents, ErrorNotification,
         AnswerInterrupt, InTurn, Die, ReaderEof, EofEvent
<1>9. CASE UNCHANGED vars
  BY <1>9 DEF vars
<1> QED
  BY <1>1, <1>2, <1>3, <1>4, <1>5, <1>6, <1>7, <1>8, <1>9
     DEF Next, LoopStep, FaultStep, ChildStep

-----------------------------------------------------------------------------
(* The theorems.                                                           *)

(* A step keeps every variable in its type.                                *)
LEMMA TypeStep ==
  ASSUME Inv, [Next]_vars
  PROVE  TypeOK'
<1>1. QueuesOK' /\ SetsOK' /\ HistoryOK'
  BY QueuesTyped, SetsTyped, HistoryTyped
<1>2. SendersOK' /\ LoopOK' /\ ChildOK'
  BY SendersTyped, LoopTyped, ChildTyped
<1> QED
  BY <1>1, <1>2
     DEF TypeOK, QueuesOK, SetsOK, HistoryOK, SendersOK, LoopOK, ChildOK

(* The worker is up and nothing has been sent.                             *)
LEMMA InitInv == Init => Inv
<1> SUFFICES ASSUME Init
             PROVE  Inv
  OBVIOUS
<1> USE AgentLoopConstants DEF Init
<1>1. QueuesOK /\ SetsOK /\ HistoryOK
  BY DEF QueuesOK, SetsOK, HistoryOK
<1>2. SendersOK
  BY DEF SendersOK, Sends
<1>3. LoopOK /\ ChildOK
  BY DEF LoopOK, Pcs, Causes, ChildOK
<1>4. TypeOK
  BY <1>1, <1>2, <1>3
     DEF TypeOK, QueuesOK, SetsOK, HistoryOK, SendersOK, LoopOK, ChildOK
<1>5. CurIsMessage /\ SignsOfDeath /\ NothingBeforeDrain /\ InterruptsCounted
  BY DEF CurIsMessage, InHand, SignsOfDeath, NothingBeforeDrain,
         InterruptsCounted
<1>6. OneTurn /\ BatchIsUnread /\ FedIsKept /\ GrowthIsSpeech /\ AckIsEarned
  BY DEF OneTurn, BatchIsUnread, InHand, FedIsKept, GrowthIsSpeech, AckIsEarned
<1>7. DeathNoticesAreTrue /\ LoopOutlivesChild /\ AckedIsAnswered
  BY DEF DeathNoticesAreTrue, LoopOutlivesChild, AckedIsAnswered
<1> QED
  BY <1>4, <1>5, <1>6, <1>7 DEF Inv

(* The invariant holds in every state of every worker.                     *)
THEOREM Invariance == Spec => []Inv
<1>1. Init => Inv
  BY InitInv
<1>2. Inv /\ [Next]_vars => Inv'
  <2> SUFFICES ASSUME Inv, [Next]_vars
               PROVE  Inv'
    OBVIOUS
  <2>1. TypeOK' /\ CurIsMessage' /\ SignsOfDeath' /\ NothingBeforeDrain'
    BY TypeStep, CurStep, DeathStep, DrainStep
  <2>2. InterruptsCounted' /\ OneTurn' /\ BatchIsUnread' /\ FedIsKept'
    BY InterruptStep, OneTurnStep, BatchStep, FedStep
  <2>3. GrowthIsSpeech' /\ AckIsEarned' /\ AckedIsAnswered'
    BY GrowthStep, EarnStep, AnswerStep
  <2>4. DeathNoticesAreTrue' /\ LoopOutlivesChild'
    BY NoticeStep, OutliveStep
  <2> QED
    BY <2>1, <2>2, <2>3, <2>4 DEF Inv
<1> QED
  BY <1>1, <1>2, PTL DEF Spec

(* The state of the loop, the child and the senders stays in its types.    *)
THEOREM TypeCorrect == Spec => []TypeOK
<1>1. Inv => TypeOK
  BY DEF Inv
<1> QED
  BY <1>1, Invariance, PTL

(* The lead is told that a worker died, by the loop or by a sender, only   *)
(* when the process is gone: for both backends, whatever the probe, the    *)
(* channel and a failed input told the loop.                               *)
THEOREM DeathsAreReal == Spec => []DeathNoticesAreTrue
<1>1. Inv => DeathNoticesAreTrue
  BY DEF Inv
<1> QED
  BY <1>1, Invariance, PTL

(* A loop whose stores work leaves no living worker behind.                *)
THEOREM LoopsOutlive == Spec => []LoopOutlivesChild
<1>1. Inv => LoopOutlivesChild
  BY DEF Inv
<1> QED
  BY <1>1, Invariance, PTL

(* While its stores work, a worker gets each message once, for any number  *)
(* of messages, interrupts and error notifications.                        *)
THEOREM HandedOverOnce == Spec => []FedOnce
<1>1. Inv => FedOnce
  BY DEF Inv, FedIsKept, FedOnce
<1> QED
  BY <1>1, Invariance, PTL

(* In an undisturbed worker no message is acknowledged unanswered, for any *)
(* number of messages and wherever the child dies.                         *)
THEOREM NothingSwallowed == Spec => []AckedIsAnswered
<1>1. Inv => AckedIsAnswered
  BY DEF Inv
<1> QED
  BY <1>1, Invariance, PTL
=============================================================================
