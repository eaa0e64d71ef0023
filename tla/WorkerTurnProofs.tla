-------------------------- MODULE WorkerTurnProofs --------------------------
(***************************************************************************)
(* What the agent-worker guarantees for every scenario, however many runs, *)
(* steers, lost replies, interrupts, restarts and deaths of App Server it  *)
(* has: a steer is delivered at most once, its input stands once and       *)
(* before its answers, and the last batch of a relay lacks nothing.        *)
(*                                                                         *)
(* The inductive invariant comes in layers.  Each is shown to survive a    *)
(* step with the help of those before it.                                  *)
(***************************************************************************)
EXTENDS WorkerTurn, FiniteSetTheorems, SequenceTheorems, TLAPS

-----------------------------------------------------------------------------
(* What requests, notifications and events refer to.                       *)

TurnPC == {"call", "started", "running", "announce", "terminal", "interrupt", "interrupted"}
SteerPC == {"lock", "steer", "steered", "refused", "record", "mark", "report"}
RecordPC == {"record", "mark", "report"}

HasTurn(r) == \E t \in TurnId : turn[t].run = r

\* A request that starts or interrupts a turn is about the active run; one whose thread
\* is not ready yet is about a run that nothing refers to.
StartInv ==
  /\ op.pc \in TurnPC => op.run # 0 /\ active.run = op.run
  /\ op.pc = "resume" => op.run # 0 /\ active.run # op.run /\ outbox[op.run] = <<>>
  /\ op.pc \in {"resume", "call"} => \A t \in TurnId : turn[t].run # op.run
  /\ active.run = 0 => ~IsRunning(active)

\* A steer in hand is about a message that waits for its answer.
SteerInv ==
  /\ op.pc \in SteerPC =>
       /\ op.message # 0 /\ op.run = message[op.message].run
       /\ message[op.message].answer = "waiting"
  /\ op.again => op.pc \in RecordPC
  /\ \A m \in MessageId : HasTurn(message[m].run)

\* Notifications of the worker's own threads are about turns that exist, and so are
\* interrupts; a completion says how its turn ended.
Ends(note) == note.type = "completed" => note.status \in Terminal

NoteInv ==
  /\ \A n \in 1..Len(notes) : (notes[n].own => notes[n].turn \in TurnId) /\ Ends(notes[n])
  /\ consumer.todo # <<>> => consumer.note.turn \in TurnId /\ Ends(consumer.note)
  /\ op.pc = "interrupt" => active.turn # 0

\* The events of a run are numbered from 1 without a gap, whoever writes them; the run in
\* memory knows the last number, but for the moment between the event of an input and its
\* mark in the ledger.
NumberInv ==
  /\ \A r \in RunId : \A n \in 1..Len(outbox[r]) : outbox[r][n].sequence = n
  /\ active.run # 0 =>
       /\ active.sequence <= Len(outbox[active.run])
       /\ (op.pc = "mark" /\ op.run = active.run) \/ active.sequence = Len(outbox[active.run])
  /\ \A m \in MessageId : ledger[m].after <= Len(outbox[message[m].run])

Base == TypeOK /\ StartInv /\ SteerInv /\ NoteInv /\ NumberInv

-----------------------------------------------------------------------------
(* One actor at a time: the locks.                                         *)

\* The consumer holds inputMu while it handles a notification, in a fixed order of steps.
ConsumerInv ==
  /\ inputMu = "consumer" <=> consumer.todo # <<>>
  /\ consumer.todo \in {<<>>, <<"append">>, <<"append", "terminal", "file">>, <<"terminal", "file">>,
                        <<"file">>}
  /\ consumer.todo \notin {<<>>, <<"append">>} => consumer.note.type = "completed"

\* A steer holds inputMu from its call until it is answered; one that only repairs the
\* record of an earlier delivery does without.
GuardInv ==
  /\ inputMu = "steer" => op.pc \in SteerPC \ {"lock"} /\ ~op.again
  /\ op.pc \in SteerPC \ {"lock"} /\ ~op.again => inputMu = "steer"

\* A relay that has taken operationMu holds it until it has read the events.
PollInv ==
  \A r \in RunId : relay[r].pc = "scan" /\ relay[r].locked => op.pc = "poll" /\ op.run = r

LockInv == ConsumerInv /\ GuardInv /\ PollInv

-----------------------------------------------------------------------------
(* Deliveries: the ledger tells what may have entered a turn.              *)

DeliveryInv ==
  /\ \A m \in MessageId :
       /\ delivered[m] <= 1
       /\ ledger[m].state \in {"none", "rejected"} => delivered[m] = 0
       /\ message[m].answer = "refused" => delivered[m] = 0
  /\ op.pc = "lock" => ledger[op.message].state = "none"
  /\ op.pc \in {"steer", "steered", "refused"} => ledger[op.message].state = "pending"
  /\ op.pc \in {"steer", "refused"} => delivered[op.message] = 0
  /\ op.pc \in RecordPC => ledger[op.message].state = "accepted"

-----------------------------------------------------------------------------
(* Inputs and their answers.                                               *)

\* Inputs are those of messages.  One stands once in the events of its run; what is
\* recorded or confirmed stands.
InputInv ==
  /\ \A r \in RunId : \A n \in 1..Len(outbox[r]) : outbox[r][n].type = "input" => outbox[r][n].of \in MessageId
  /\ \A m \in MessageId : \A k, n \in Inputs(message[m].run, m) : k = n
  /\ \A m \in MessageId :
       ledger[m].recorded \/ message[m].answer = "ok" => Inputs(message[m].run, m) # {}
  /\ op.pc \in {"mark", "report"} => Inputs(op.run, op.message) # {}

\* Outputs answer inputs that have entered a turn.
Answers(event, m) == event.type = "output" /\ event.of = m
Known(m) == m # 0 => m \in MessageId /\ delivered[m] > 0

AnswerInv ==
  /\ \A r \in RunId : \A n \in 1..Len(outbox[r]) : outbox[r][n].type = "output" => Known(outbox[r][n].of)
  /\ \A n \in 1..Len(notes) : notes[n].type = "output" => Known(notes[n].of)
  /\ consumer.todo # <<>> /\ consumer.note.type = "output" => Known(consumer.note.of)

\* Nothing of run r in the events answers message m.
Unanswered(r, m) == \A n \in 1..Len(outbox[r]) : ~Answers(outbox[r][n], m)

\* Nothing will answer message m any more.
Silent(m) ==
  /\ \A t \in TurnId : turn[t].run = message[m].run => turn[t].state # "running"
  /\ \A n \in 1..Len(notes) : ~Answers(notes[n], m)
  /\ consumer.todo # <<>> => ~Answers(consumer.note, m)

\* An input that App Server has taken and that is not recorded yet has no answer in the
\* events, and gets none: its steer keeps the consumer out, or the worker has restarted.
PlaceInv ==
  /\ InputPrecedesItsAnswer
  /\ op.pc = "steered" => Unanswered(op.run, op.message)
  /\ \A m \in MessageId :
       ledger[m].state = "accepted" /\ Inputs(message[m].run, m) = {} =>
         (op.pc = "record" /\ op.message = m /\ ~op.again) \/ Silent(m)

-----------------------------------------------------------------------------
(* Ends of runs: what a relay may rely on when it stops.                   *)

\* Run r will not be active again.
Over(r) ==
  /\ active.run = r => active.status \in Terminal
  /\ op.pc = "resume" => op.run # r

\* A relay has read a terminal status.
EndSeen(row) == row.pc \in {"scan", "final"} /\ row.status \in Terminal
SeenOver(r) == EndSeen(relay[r])

OverInv ==
  /\ \A r \in RunId : file[r] \in Terminal \/ SeenOver(r) => Over(r)
  /\ op.pc = "terminal" => active.status \in Terminal /\ op.status \in Terminal \ {"completed"}
  /\ consumer.todo = <<"file">> /\ consumer.run # 0 => Over(consumer.run)
  /\ monitor.pc = "file" /\ monitor.run # 0 => Over(monitor.run)

\* A relay that has read a terminal status holds operationMu, and no steer that delivers an
\* input is under way.
RelayInv ==
  /\ \A r \in RunId : /\ relay[r].pc = "scan" /\ relay[r].status \in Terminal => relay[r].locked
                      /\ relay[r].pc = "final" => relay[r].status \in Terminal
  /\ op.pc \in SteerPC \ {"lock"} /\ ~op.again => ~SeenOver(op.run)

\* A steer that the ledger knew when it was sent is not sent for the first time.
AttemptInv ==
  \A m \in MessageId :
    /\ message[m].attempts > 0
    /\ ledger[m].state # "none" /\ message[m].answer = "waiting" =>
         (op.pc \in SteerPC /\ op.message = m /\ ~op.again) \/ message[m].attempts > 1

BatchInv == OverInv /\ RelayInv /\ AttemptInv /\ FinalBatchHasInputs

-----------------------------------------------------------------------------
(* Completions.                                                            *)

CompletionIn(events) == \E n \in 1..Len(events) : events[n].type = "completed"
HasCompletion(r) == CompletionIn(outbox[r])

\* A run that its own turn has ended has the event of the completion.
EndInv ==
  /\ \A r \in RunId : \A t \in ended[r] : turn[t].run = r => HasCompletion(r)
  /\ consumer.todo = <<"append", "terminal", "file">> /\ turn[consumer.note.turn].run = active.run =>
       consumer.run = active.run
  /\ consumer.todo = <<"terminal", "file">> /\ turn[consumer.note.turn].run = active.run =>
       HasCompletion(active.run)
  /\ consumer.todo = <<"file">> /\ consumer.run # 0 => consumer.note.turn \in ended[consumer.run]
  /\ \A r \in RunId :
       file[r] = "completed" \/ (relay[r].pc \in {"scan", "final"} /\ relay[r].status = "completed")
         => ended[r] # {}

CompletionInv == EndInv /\ FinalBatchHasCompletion

IInv == Base /\ LockInv /\ DeliveryInv /\ InputInv /\ AnswerInv /\ PlaceInv /\ BatchInv /\ CompletionInv

-----------------------------------------------------------------------------
(* Sequences.                                                              *)

\* What adding an element does.
LEMMA Pushed ==
  ASSUME NEW S, NEW s \in Seq(S), NEW e \in S
  PROVE  /\ Append(s, e) \in Seq(S) /\ Len(Append(s, e)) = Len(s) + 1 /\ Len(s) \in Nat
         /\ DOMAIN s = 1..Len(s) /\ DOMAIN Append(s, e) = 1..(Len(s) + 1)
         /\ \A i \in 1..Len(s) : Append(s, e)[i] = s[i]
         /\ Append(s, e)[Len(s) + 1] = e
BY AppendProperties, LenProperties

\* What taking the first element does.
LEMMA Shifted ==
  ASSUME NEW S, NEW s \in Seq(S), s # <<>>
  PROVE  /\ Len(s) \in Nat \ {0} /\ Head(s) = s[1] /\ Head(s) \in S
         /\ Tail(s) \in Seq(S) /\ Len(Tail(s)) = Len(s) - 1
         /\ \A i \in 1..(Len(s) - 1) : Tail(s)[i] = s[i + 1]
BY HeadTailProperties, LenProperties, EmptySeq

LEMMA OneMore ==
  ASSUME NEW n \in Nat
  PROVE  1..(n + 1) = (1..n) \cup {n + 1}
OBVIOUS

\* What the types say of rows.
LEMMA Rows ==
  ASSUME TypeOK
  PROVE  /\ RunId = 1..Len(file) /\ Len(file) \in Nat /\ file \in [RunId -> Status]
         /\ MessageId = 1..Len(message) /\ Len(message) \in Nat /\ message \in [MessageId -> Message]
         /\ TurnId = 1..Len(turn) /\ Len(turn) \in Nat /\ turn \in [TurnId -> Turn]
         /\ \A r \in RunId : /\ outbox[r] \in Seq(Event) /\ Len(outbox[r]) \in Nat
                             /\ DOMAIN outbox[r] = 1..Len(outbox[r])
                             /\ \A n \in 1..Len(outbox[r]) : outbox[r][n] \in Event
         /\ Len(notes) \in Nat /\ \A n \in 1..Len(notes) : notes[n] \in Note
<1>1. file \in Seq(Status) /\ message \in Seq(Message) /\ turn \in Seq(Turn) /\ notes \in Seq(Note)
  BY DEF TypeOK, FilesTyped, CodexTyped, ServerTyped
<1>2. \A r \in RunId : outbox[r] \in Seq(Event)
  BY DEF TypeOK, FilesTyped
<1>3. /\ RunId = 1..Len(file) /\ Len(file) \in Nat /\ file \in [RunId -> Status]
      /\ MessageId = 1..Len(message) /\ Len(message) \in Nat /\ message \in [MessageId -> Message]
      /\ TurnId = 1..Len(turn) /\ Len(turn) \in Nat /\ turn \in [TurnId -> Turn]
  BY <1>1, LenProperties DEF RunId, MessageId, TurnId
<1>4. Len(notes) \in Nat /\ \A n \in 1..Len(notes) : notes[n] \in Note
  BY <1>1, LenProperties
<1>5. ASSUME NEW s \in Seq(Event)
      PROVE  Len(s) \in Nat /\ DOMAIN s = 1..Len(s) /\ \A n \in 1..Len(s) : s[n] \in Event
  BY <1>5, LenProperties
<1> QED
  BY <1>2, <1>3, <1>4, <1>5

\* What writing an element does.
LEMMA Rewritten ==
  ASSUME NEW S, NEW s \in Seq(S), NEW i, NEW e \in S
  PROVE  /\ [s EXCEPT ![i] = e] \in Seq(S) /\ Len([s EXCEPT ![i] = e]) = Len(s)
         /\ DOMAIN [s EXCEPT ![i] = e] = DOMAIN s
         /\ \A j \in DOMAIN s : [s EXCEPT ![i] = e][j] = IF j = i THEN e ELSE s[j]
<1>1. DOMAIN s = 1..Len(s)
  BY LenProperties
<1>2. CASE i \in 1..Len(s)
  BY <1>1, <1>2, ExceptSeq
<1>3. CASE i \notin 1..Len(s)
  <2>1. [s EXCEPT ![i] = e] = s
    BY <1>1, <1>3, LenProperties
  <2> QED
    BY <1>1, <1>3, <2>1
<1> QED
  BY <1>2, <1>3

\* The status of a run is written, or of none.
LEMMA StatusWritten ==
  ASSUME TypeOK, NEW r, NEW status \in Status, WriteStatus(r, status)
  PROVE  /\ file' \in Seq(Status) /\ Len(file') = Len(file) /\ RunId' = RunId
         /\ \A q \in RunId : file'[q] = IF q = r THEN status ELSE file[q]
<1>1. file \in Seq(Status) /\ 0 \notin RunId
  BY Rows DEF TypeOK, FilesTyped
<1>2. CASE r = 0
  BY <1>1, <1>2 DEF WriteStatus, RunId
<1>3. CASE r # 0
  <2>1. /\ [file EXCEPT ![r] = status] \in Seq(Status)
        /\ Len([file EXCEPT ![r] = status]) = Len(file)
        /\ DOMAIN [file EXCEPT ![r] = status] = DOMAIN file
        /\ \A q \in DOMAIN file : [file EXCEPT ![r] = status][q] = IF q = r THEN status ELSE file[q]
    BY <1>1, Rewritten
  <2> QED
    BY <1>3, <2>1 DEF WriteStatus, RunId
<1> QED
  BY <1>2, <1>3

\* A step, by what takes it.
Step ==
  \/ StartTurn \/ StartStep \/ Interrupt \/ InterruptStep \/ SteerStep \/ ConsumerStep \/ CodexStep
  \/ MonitorChecks \/ MonitorFails \/ MonitorWrites \/ Restarted
  \/ \E r \in RunId : SendSteer(r) \/ Poll(r) \/ Scan(r)
  \/ \E m \in MessageId : RepeatSteer(m) \/ SteerTaken(m)

LEMMA Steps ==
  ASSUME [Next]_vars
  PROVE  Step \/ UNCHANGED vars
BY DEF Next, Step, HandlerStep, MonitorStep, Crash, Exit

-----------------------------------------------------------------------------
(* The tables: what a step may do to each.                                 *)

\* A run is added, or a status is written, or all are recovered.
FileWritten ==
  \/ file' = file
  \/ \E r \in Nat, status \in Status : WriteStatus(r, status)
  \/ StartTurn
  \/ Restarted

LEMMA FileSteps ==
  ASSUME TypeOK, Step
  PROVE  FileWritten
<1>1. op.run \in Nat /\ op.status \in Status /\ consumer.run \in Nat /\ monitor.run \in Nat
      /\ consumer.note.status \in Status
  BY DEF TypeOK, MemoryTyped, Operation, Consumer, Note, Monitor
<1>2. CASE StartStep \/ InterruptStep \/ Interrupt
  BY <1>1, <1>2 DEF FileWritten, files, Status, Terminal, StartStep, InterruptStep, Interrupt,
     ThreadReady, ThreadFails, TurnStarts, TurnStartFails, WriteTerminal, TurnStarted, WriteRunning,
     Announce, TurnInterrupted, InterruptFails, Interrupted
<1>3. CASE ConsumerStep \/ CodexStep \/ MonitorChecks \/ MonitorFails \/ MonitorWrites
  BY <1>1, <1>3 DEF FileWritten, files, Status, Terminal, ConsumerStep, CodexStep, Skip, Consume,
     ConsumerAppends, ConsumerEndsRun, ConsumerWrites, CompleteForeign, AppServerDies,
     CompleteTurn, EmitOutput, MonitorChecks, MonitorFails, MonitorWrites
<1>4. CASE \/ SteerStep
           \/ \E r \in RunId : SendSteer(r) \/ Poll(r) \/ Scan(r)
           \/ \E m \in MessageId : RepeatSteer(m) \/ SteerTaken(m)
  BY <1>4 DEF FileWritten, files, SteerStep, SteerRefused, SteerPending, TurnSteered,
     TurnRefusesSteer, SteerRejected, SteerLost, SteerAccepted, RecordInput, MarkRecorded, Report,
     SendSteer, Poll, Scan, RepeatSteer, SteerTaken, SteerKnown, SteerNew
<1> QED
  BY <1>2, <1>3, <1>4 DEF Step, FileWritten

\* Runs stay; one is added by startTurn alone.
LEMMA FileGrows ==
  ASSUME TypeOK, Step
  PROVE  /\ file' \in Seq(Status) /\ Len(file') \in Nat
         /\ RunId' = 1..Len(file') /\ RunId \subseteq RunId' /\ Len(file) <= Len(file')
         /\ \/ RunId' = RunId /\ Len(file') = Len(file)
            \/ StartTurn /\ Len(file') = Len(file) + 1 /\ RunId' = RunId \cup {Len(file) + 1}
<1>1. file \in Seq(Status) /\ Len(file) \in Nat /\ RunId = 1..Len(file)
  BY Rows DEF TypeOK, FilesTyped
<1>2. CASE file' = file
  BY <1>1, <1>2 DEF RunId
<1>3. CASE \E r \in Nat, status \in Status : WriteStatus(r, status)
  BY <1>1, <1>3, StatusWritten
<1>4. CASE StartTurn
  <2>1. file' = Append(file, "starting") /\ "starting" \in Status
    BY <1>4 DEF StartTurn, Status
  <2>2. file' \in Seq(Status) /\ Len(file') = Len(file) + 1
    BY <1>1, <2>1, Pushed
  <2>3. Len(file') \in Nat /\ DOMAIN file' = 1..Len(file')
    BY <2>2, LenProperties
  <2>4. 1..Len(file') = (1..Len(file)) \cup {Len(file) + 1}
    BY <1>1, <2>2, OneMore
  <2>5. RunId' = 1..Len(file')
    BY <2>3 DEF RunId
  <2>6. RunId \subseteq RunId' /\ RunId' = RunId \cup {Len(file) + 1}
    BY <1>1, <2>4, <2>5
  <2> QED
    BY <1>1, <1>4, <2>2, <2>3, <2>5, <2>6
<1>5. CASE Restarted
  <2>1. file' = [r \in 1..Len(file) |-> Recovered(file[r])]
    BY <1>1, <1>5 DEF Restarted
  <2>2. \A r \in 1..Len(file) : Recovered(file[r]) \in Status
    BY <1>1, LenProperties DEF Recovered, Status, Terminal
  <2>3. file' \in Seq(Status) /\ Len(file') = Len(file)
    BY <1>1, <2>1, <2>2
  <2>4. Len(file') \in Nat /\ DOMAIN file' = 1..Len(file')
    BY <2>3, LenProperties
  <2> QED
    BY <1>1, <2>3, <2>4 DEF RunId
<1> QED
  BY <1>2, <1>3, <1>4, <1>5, FileSteps DEF FileWritten

\* A turn is added, or one or all of those that run come to an end.
TurnWritten ==
  \/ turn' = turn
  \/ TurnStarts
  \/ \E t \in TurnId, state \in {"completed", "interrupted"} :
       turn' = [turn EXCEPT ![t].state = state] /\ turn[t].state = "running"
  \/ turn' = Cut

LEMMA TurnSteps ==
  ASSUME TypeOK, Step
  PROVE  TurnWritten
<1>1. CASE TurnInterrupted
  <2>1. turn' = [turn EXCEPT ![active.turn].state = "interrupted"] /\ turn[active.turn].state = "running"
    BY <1>1 DEF TurnInterrupted, TurnState
  <2>2. active.turn \in 0..Len(turn)
    BY DEF TypeOK, MemoryTyped
  <2>3. CASE active.turn = 0
    <3>1. DOMAIN turn = 1..Len(turn)
      BY LenProperties DEF TypeOK, CodexTyped
    <3>2. 0 \notin DOMAIN turn
      BY <3>1
    <3>3. turn' = turn
      BY <2>1, <2>3, <3>2 DEF TypeOK, CodexTyped
    <3> QED
      BY <3>3 DEF TurnWritten
  <2>4. CASE active.turn # 0
    BY <2>1, <2>2, <2>4, Rows DEF TurnWritten
  <2> QED
    BY <2>3, <2>4
<1>2. CASE StartTurn \/ StartStep \/ Interrupt \/ InterruptFails \/ Interrupted
  BY <1>2 DEF TurnWritten, codex, StartTurn, StartStep, Interrupt, ThreadReady, ThreadFails,
     TurnStartFails, WriteTerminal, TurnStarted, WriteRunning, Announce, InterruptFails, Interrupted
<1>3. CASE ConsumerStep \/ CodexStep \/ MonitorChecks \/ MonitorFails \/ MonitorWrites \/ Restarted
  BY <1>3 DEF TurnWritten, codex, ConsumerStep, CodexStep, Skip, Consume, ConsumerAppends,
     ConsumerEndsRun, ConsumerWrites, CompleteForeign, AppServerDies, CompleteTurn, IsLive, EmitOutput,
     MonitorChecks, MonitorFails, MonitorWrites, Restarted
<1>4. CASE \/ SteerStep
           \/ \E r \in RunId : SendSteer(r) \/ Poll(r) \/ Scan(r)
           \/ \E m \in MessageId : RepeatSteer(m) \/ SteerTaken(m)
  BY <1>4 DEF TurnWritten, codex, SteerStep, SteerRefused, SteerPending, TurnSteered,
     TurnRefusesSteer, SteerRejected, SteerLost, SteerAccepted, RecordInput, MarkRecorded, Report,
     SendSteer, Poll, Scan, RepeatSteer, SteerTaken, SteerKnown, SteerNew
<1> QED
  BY <1>1, <1>2, <1>3, <1>4 DEF Step, InterruptStep

\* Turns stay, and so do the runs they belong to; one that does not run never runs again.
LEMMA TurnGrows ==
  ASSUME TypeOK, Step
  PROVE  /\ turn' \in Seq(Turn) /\ Len(turn') \in Nat
         /\ TurnId' = 1..Len(turn') /\ TurnId \subseteq TurnId' /\ Len(turn) <= Len(turn')
         /\ \/ TurnId' = TurnId /\ Len(turn') = Len(turn)
            \/ /\ TurnStarts /\ Len(turn') = Len(turn) + 1 /\ TurnId' = TurnId \cup {Len(turn) + 1}
               /\ turn'[Len(turn) + 1] = [run |-> op.run, state |-> "running"]
         /\ \A t \in TurnId : /\ turn'[t].run = turn[t].run
                              /\ turn[t].state # "running" => turn'[t].state # "running"
<1>1. /\ turn \in Seq(Turn) /\ Len(turn) \in Nat /\ TurnId = 1..Len(turn) /\ turn \in [TurnId -> Turn]
      /\ op.run \in Nat
  BY Rows DEF TypeOK, CodexTyped, MemoryTyped, Operation
<1>2. CASE turn' = turn
  BY <1>1, <1>2 DEF TurnId
<1>3. CASE TurnStarts
  <2>1. /\ turn' = Append(turn, [run |-> op.run, state |-> "running"])
        /\ [run |-> op.run, state |-> "running"] \in Turn
        /\ op.pc = "call"
    BY <1>1, <1>3 DEF TurnStarts, Turn
  <2>2. /\ turn' \in Seq(Turn) /\ Len(turn') = Len(turn) + 1
        /\ \A t \in 1..Len(turn) : turn'[t] = turn[t]
        /\ turn'[Len(turn) + 1] = [run |-> op.run, state |-> "running"]
    BY <1>1, <2>1, Pushed
  <2>3. Len(turn') \in Nat /\ DOMAIN turn' = 1..Len(turn')
    BY <2>2, LenProperties
  <2>4. 1..Len(turn') = (1..Len(turn)) \cup {Len(turn) + 1}
    BY <1>1, <2>2, OneMore
  <2>5. TurnId' = 1..Len(turn')
    BY <2>3 DEF TurnId
  <2>6. TurnId \subseteq TurnId' /\ TurnId' = TurnId \cup {Len(turn) + 1}
    BY <1>1, <2>4, <2>5
  <2>7. \A t \in TurnId : turn'[t] = turn[t]
    BY <1>1, <2>2
  <2>8. Len(turn) <= Len(turn')
    BY <1>1, <2>2
  <2> HIDE <1>1
  <2> QED
    BY <1>3, <2>2, <2>3, <2>5, <2>6, <2>7, <2>8
<1>4. ASSUME NEW new \in [1..Len(turn) -> Turn], turn' = new,
             \A t \in 1..Len(turn) : /\ new[t].run = turn[t].run
                                     /\ turn[t].state # "running" => new[t].state # "running"
      PROVE  /\ turn' \in Seq(Turn) /\ Len(turn') \in Nat
             /\ TurnId' = 1..Len(turn') /\ TurnId \subseteq TurnId' /\ Len(turn) <= Len(turn')
             /\ TurnId' = TurnId /\ Len(turn') = Len(turn)
             /\ \A t \in TurnId : /\ turn'[t].run = turn[t].run
                                  /\ turn[t].state # "running" => turn'[t].state # "running"
  <2>1. turn' \in Seq(Turn) /\ Len(turn') = Len(turn)
    BY <1>1, <1>4
  <2>2. Len(turn') \in Nat /\ DOMAIN turn' = 1..Len(turn')
    BY <2>1, LenProperties
  <2> QED
    BY <1>1, <1>4, <2>1, <2>2 DEF TurnId
<1>5. CASE \E t \in TurnId, state \in {"completed", "interrupted"} :
             turn' = [turn EXCEPT ![t].state = state] /\ turn[t].state = "running"
  <2>1. PICK t \in TurnId, state \in {"completed", "interrupted"} :
               turn' = [turn EXCEPT ![t].state = state] /\ turn[t].state = "running"
    BY <1>5
  <2>2. turn' \in [1..Len(turn) -> Turn]
    BY <1>1, <2>1 DEF Turn
  <2>3. \A i \in 1..Len(turn) : /\ turn'[i].run = turn[i].run
                                /\ turn[i].state # "running" => turn'[i].state # "running"
    BY <1>1, <2>1 DEF Turn
  <2> QED
    BY <1>4, <2>2, <2>3
<1>6. CASE turn' = Cut
  <2>1. turn' = [t \in 1..Len(turn) |-> IF turn[t].state = "running"
                          THEN [turn[t] EXCEPT !.state = "interrupted"] ELSE turn[t]]
    BY <1>1, <1>6 DEF Cut
  <2>2. turn' \in [1..Len(turn) -> Turn]
    BY <1>1, <2>1 DEF Turn
  <2>3. \A i \in 1..Len(turn) : /\ turn'[i].run = turn[i].run
                                /\ turn[i].state # "running" => turn'[i].state # "running"
    BY <1>1, <2>1 DEF Turn
  <2> QED
    BY <1>4, <2>2, <2>3
<1> QED
  BY <1>2, <1>3, <1>5, <1>6, TurnSteps DEF TurnWritten

\* A message is added or repeated, or one or all of those that wait get their answer.
MessageWritten ==
  \/ message' = message
  \/ \E r \in RunId : SendSteer(r)
  \/ \E m \in MessageId : RepeatSteer(m)
  \/ /\ SteerRefused \/ SteerRejected \/ SteerLost \/ Report \/ \E m \in MessageId : SteerTaken(m)
     /\ \E m \in MessageId, answer \in {"ok", "refused", "unknown"} :
          message' = [message EXCEPT ![m].answer = answer] /\ message[m].answer = "waiting"
  \/ Restarted

LEMMA MessageSteps ==
  ASSUME TypeOK, SteerInv, Step
  PROVE  MessageWritten
<1>1. CASE StartTurn \/ StartStep \/ Interrupt \/ InterruptStep \/ Restarted
  BY <1>1 DEF MessageWritten, server, StartTurn, StartStep, Interrupt, InterruptStep, TurnInterrupted,
     ThreadReady, ThreadFails, TurnStarts, TurnStartFails, WriteTerminal, TurnStarted, WriteRunning,
     Announce, InterruptFails, Interrupted
<1>2. CASE ConsumerStep \/ CodexStep \/ MonitorChecks \/ MonitorFails \/ MonitorWrites
  BY <1>2 DEF MessageWritten, server, ConsumerStep, CodexStep, Skip, Consume, ConsumerAppends,
     ConsumerEndsRun, ConsumerWrites, CompleteForeign, AppServerDies, CompleteTurn, EmitOutput,
     MonitorChecks, MonitorFails, MonitorWrites
<1>3. CASE SteerPending \/ TurnSteered \/ TurnRefusesSteer \/ SteerAccepted \/ RecordInput \/ MarkRecorded
  BY <1>3 DEF MessageWritten, server, SteerPending, TurnSteered, TurnRefusesSteer, SteerAccepted,
     RecordInput, MarkRecorded
<1>4. CASE SteerRefused \/ SteerRejected \/ SteerLost \/ Report
  <2>1. op.message \in MessageId /\ message[op.message].answer = "waiting"
    BY <1>4, Rows DEF SteerInv, SteerPC, SteerRefused, SteerRejected, SteerLost, Report, TypeOK, MemoryTyped
  <2>2. \E answer \in {"ok", "refused", "unknown"} : Answered(op.message, answer)
    BY <1>4 DEF SteerRefused, SteerRejected, SteerLost, Report, UnknownAnswer
  <2> QED
    BY <1>4, <2>1, <2>2 DEF MessageWritten, Answered
<1>5. CASE \E m \in MessageId : SteerTaken(m)
  <2>1. PICK m \in MessageId : SteerTaken(m)
    BY <1>5
  <2>2. message' = message \/ \E answer \in {"ok", "refused", "unknown"} : Answered(m, answer)
    BY <2>1 DEF server, SteerTaken, SteerKnown, SteerNew
  <2>3. message[m].answer = "waiting"
    BY <2>1 DEF SteerTaken, SteerKnown, SteerNew
  <2> QED
    BY <1>5, <2>2, <2>3 DEF MessageWritten, Answered
<1>6. CASE \E r \in RunId : Poll(r) \/ Scan(r)
  BY <1>6 DEF MessageWritten, Poll, Scan
<1> QED
  BY <1>1, <1>2, <1>3, <1>4, <1>5, <1>6 DEF Step, SteerStep, MessageWritten

LEMMA RepeatedType ==
  ASSUME NEW row \in Message
  PROVE  /\ [row EXCEPT !.attempts = row.attempts + 1, !.answer = "waiting"] \in Message
         /\ [row EXCEPT !.attempts = row.attempts + 1, !.answer = "waiting"].run = row.run
         /\ [row EXCEPT !.attempts = row.attempts + 1, !.answer = "waiting"].attempts = row.attempts + 1
         /\ [row EXCEPT !.attempts = row.attempts + 1, !.answer = "waiting"].answer = "waiting"
<1> DEFINE new == [row EXCEPT !.attempts = row.attempts + 1, !.answer = "waiting"]
<1>1. /\ new.run = row.run /\ new.attempts = row.attempts + 1 /\ new.answer = "waiting"
  BY DEF Message

<1>3. row.attempts + 1 \in Nat
  BY DEF Message
<1>4. new = [[row EXCEPT !.attempts = row.attempts + 1] EXCEPT !.answer = "waiting"]
  OBVIOUS
<1>5. [row EXCEPT !.attempts = row.attempts + 1] \in Message
  BY <1>3 DEF Message
<1>6. new \in Message
  BY <1>4, <1>5 DEF Message
<1> QED
  BY <1>1, <1>6

\* Messages stay, with the runs they are for.
LEMMA MessageGrows ==
  ASSUME TypeOK, SteerInv, Step
  PROVE  /\ message' \in Seq(Message) /\ Len(message') \in Nat
         /\ MessageId' = 1..Len(message') /\ MessageId \subseteq MessageId' /\ Len(message) <= Len(message')
         /\ \/ MessageId' = MessageId /\ Len(message') = Len(message)
            \/ \E r \in RunId :
                 /\ SendSteer(r)
                 /\ Len(message') = Len(message) + 1 /\ MessageId' = MessageId \cup {Len(message) + 1}
                 /\ message'[Len(message) + 1] = [run |-> r, attempts |-> 1, answer |-> "waiting"]
         /\ \A m \in MessageId : /\ message'[m].run = message[m].run
                                 /\ message[m].attempts <= message'[m].attempts
<1>1. /\ message \in Seq(Message) /\ Len(message) \in Nat /\ MessageId = 1..Len(message)
      /\ message \in [MessageId -> Message] /\ RunId \subseteq Nat
  BY Rows DEF TypeOK, ServerTyped
<1>2. CASE message' = message
  BY <1>1, <1>2 DEF MessageId, Message
<1>3. CASE \E r \in RunId : SendSteer(r)
  <2>1. PICK r \in RunId : SendSteer(r)
    BY <1>3
  <2>2. /\ message' = Append(message, [run |-> r, attempts |-> 1, answer |-> "waiting"])
        /\ [run |-> r, attempts |-> 1, answer |-> "waiting"] \in Message
    BY <1>1, <2>1 DEF SendSteer, Message
  <2>3. /\ message' \in Seq(Message) /\ Len(message') = Len(message) + 1
        /\ \A m \in 1..Len(message) : message'[m] = message[m]
        /\ message'[Len(message) + 1] = [run |-> r, attempts |-> 1, answer |-> "waiting"]
    BY <1>1, <2>2, Pushed
  <2>4. Len(message') \in Nat /\ DOMAIN message' = 1..Len(message')
    BY <2>3, LenProperties
  <2>5. 1..Len(message') = (1..Len(message)) \cup {Len(message) + 1}
    BY <1>1, <2>3, OneMore
  <2>6. MessageId' = 1..Len(message')
    BY <2>4 DEF MessageId
  <2>7. MessageId \subseteq MessageId' /\ MessageId' = MessageId \cup {Len(message) + 1}
    BY <1>1, <2>5, <2>6
  <2>8. ASSUME NEW m \in MessageId
        PROVE  message'[m].run = message[m].run /\ message[m].attempts <= message'[m].attempts
    <3>1. message'[m] = message[m] /\ message[m] \in Message
      BY <1>1, <2>3
    <3>2. message[m].attempts \in Nat
      BY <3>1 DEF Message
    <3> QED
      BY <3>1, <3>2
  <2>9. Len(message) <= Len(message')
    BY <1>1, <2>3
  <2> HIDE <1>1
  <2> QED
    BY <2>1, <2>3, <2>4, <2>6, <2>7, <2>8, <2>9
<1>4. ASSUME NEW new \in [1..Len(message) -> Message], message' = new,
             \A m \in 1..Len(message) : /\ new[m].run = message[m].run
                                        /\ message[m].attempts <= new[m].attempts
      PROVE  /\ message' \in Seq(Message) /\ Len(message') \in Nat
             /\ MessageId' = 1..Len(message') /\ MessageId \subseteq MessageId' /\ Len(message) <= Len(message')
             /\ MessageId' = MessageId /\ Len(message') = Len(message)
             /\ \A m \in MessageId : /\ message'[m].run = message[m].run
                                     /\ message[m].attempts <= message'[m].attempts
  <2>1. message' \in Seq(Message) /\ Len(message') = Len(message)
    BY <1>1, <1>4
  <2>2. Len(message') \in Nat /\ DOMAIN message' = 1..Len(message')
    BY <2>1, LenProperties
  <2> QED
    BY <1>1, <1>4, <2>1, <2>2 DEF MessageId
<1>5. CASE \E m \in MessageId : RepeatSteer(m)
  <2>1. PICK m \in MessageId : RepeatSteer(m)
    BY <1>5
  <2>2. message' \in [1..Len(message) -> Message]
    BY <1>1, <2>1, RepeatedType DEF RepeatSteer
  <2>3. \A i \in 1..Len(message) : /\ message'[i].run = message[i].run
                                   /\ message[i].attempts <= message'[i].attempts
    BY <1>1, <2>1 DEF Message, RepeatSteer
  <2> QED
    BY <1>4, <2>2, <2>3
<1>6. CASE \E m \in MessageId, answer \in {"ok", "refused", "unknown"} :
             message' = [message EXCEPT ![m].answer = answer] /\ message[m].answer = "waiting"
  <2>1. PICK m \in MessageId, answer \in {"ok", "refused", "unknown"} :
               message' = [message EXCEPT ![m].answer = answer] /\ message[m].answer = "waiting"
    BY <1>6
  <2>2. message' \in [1..Len(message) -> Message]
    BY <1>1, <2>1 DEF Message
  <2>3. \A i \in 1..Len(message) : /\ message'[i].run = message[i].run
                                   /\ message[i].attempts <= message'[i].attempts
    BY <1>1, <2>1 DEF Message
  <2> QED
    BY <1>4, <2>2, <2>3
<1>7. CASE Restarted
  <2>1. message' = [m \in 1..Len(message) |-> IF message[m].answer = "waiting"
                                     THEN [message[m] EXCEPT !.answer = "unknown"] ELSE message[m]]
    BY <1>1, <1>7 DEF Restarted
  <2>2. message' \in [1..Len(message) -> Message]
    BY <1>1, <2>1 DEF Message
  <2>3. \A i \in 1..Len(message) : /\ message'[i].run = message[i].run
                                   /\ message[i].attempts <= message'[i].attempts
    BY <1>1, <2>1 DEF Message
  <2> QED
    BY <1>4, <2>2, <2>3
<1> QED
  BY <1>2, <1>3, <1>5, <1>6, <1>7, MessageSteps DEF MessageWritten
\* The number of the next event of a run is one more than there are.
LEMMA HighestIsLast ==
  ASSUME Base, NEW m \in MessageId
  PROVE  Highest(message[m].run, m) = Len(outbox[message[m].run])
<1> DEFINE r == message[m].run
           known == {outbox[r][n].sequence : n \in DOMAIN outbox[r]} \cup {ledger[m].after}
                      \cup (IF active.run = r THEN {active.sequence} ELSE {})
           last == Len(outbox[r])
<1>a. r \in RunId /\ r # 0 /\ last \in Nat /\ DOMAIN outbox[r] = 1..last
  BY Rows DEF Base, TypeOK, ServerTyped
<1>b. active.sequence \in Nat /\ ledger[m].after \in Nat
  BY DEF Base, TypeOK, FilesTyped, MemoryTyped, Active, Delivery
<1>c. /\ \A n \in 1..last : outbox[r][n].sequence = n
      /\ ledger[m].after <= last
      /\ active.run = r => active.sequence <= last
  BY <1>a DEF Base, NumberInv
<1>1. /\ r \in RunId /\ r # 0 /\ last \in Nat /\ DOMAIN outbox[r] = 1..last
      /\ \A n \in 1..last : outbox[r][n].sequence = n
      /\ ledger[m].after \in Nat /\ ledger[m].after <= last
      /\ active.sequence \in Nat
      /\ active.run = r => active.sequence <= last
  BY <1>a, <1>b, <1>c
<1> HIDE DEF r, last
<1>2. \A k \in known : k \in Nat /\ k <= last
  BY <1>1
<1>3. last \in known
  <2>1. CASE last = 0
    BY <1>1, <2>1
  <2>2. CASE last # 0
    <3>1. last \in 1..last /\ outbox[r][last].sequence = last
      BY <1>1, <2>2
    <3> QED
      BY <1>1, <3>1
  <2> QED
    BY <2>1, <2>2
<1> DEFINE Is(h) == h \in known /\ \A k \in known : k <= h
<1>4. last \in 0..(last + active.sequence + ledger[m].after) /\ Is(last)
  BY <1>1, <1>2, <1>3
<1>5. ASSUME NEW h \in Nat, Is(h) PROVE h = last
  <2> HIDE DEF known
  <2>1. h <= last /\ last <= h
    BY <1>2, <1>3, <1>5
  <2> QED
    BY <1>1, <2>1
<1>6. Highest(r, m) = CHOOSE h \in 0..(last + active.sequence + ledger[m].after) : Is(h)
  BY DEF Highest, last
<1> HIDE DEF known, Is
<1>7. (CHOOSE h \in 0..(last + active.sequence + ledger[m].after) : Is(h)) = last
  BY <1>4, <1>5
<1> QED
  BY <1>6, <1>7 DEF r, last

\* An event of run r is added, behind all others.
Added(r, type, of) ==
  outbox' = [outbox EXCEPT ![r] =
               Append(outbox[r], [sequence |-> Len(outbox[r]) + 1, type |-> type, of |-> of])]

EventType == {"started", "input", "steered", "output", "completed"}

LEMMA AppendedIsAdded ==
  ASSUME Base, Unlocked, NEW r, NEW type \in EventType, NEW of \in Nat, Appended(r, type, of)
  PROVE  \/ active.run # r /\ UNCHANGED <<active, outbox>>
         \/ active.run = r /\ r = 0 /\ outbox' = outbox /\ active' = [active EXCEPT !.sequence = @ + 1]
         \/ /\ active.run = r /\ r \in RunId
            /\ active' = [active EXCEPT !.sequence = @ + 1] /\ active.sequence = Len(outbox[r])
            /\ Added(r, type, of)
<1>1. CASE active.run # r
  BY <1>1 DEF Appended
<1>2. CASE active.run = r /\ r = 0
  <2>1. 0 \notin DOMAIN outbox
    BY Rows DEF Base, TypeOK, FilesTyped
  <2>2. outbox' = outbox /\ active' = [active EXCEPT !.sequence = @ + 1]
    BY <1>2, <2>1 DEF Appended, Base, TypeOK, FilesTyped
  <2> QED
    BY <1>2, <2>2
<1>3. CASE active.run = r /\ r # 0
  <2>1. r \in RunId /\ active.sequence = Len(outbox[r])
    BY <1>3, Rows DEF Base, TypeOK, MemoryTyped, NumberInv, Unlocked
  <2> QED
    BY <1>3, <2>1 DEF Appended, Added
<1> QED
  BY <1>1, <1>2, <1>3

\* Events are added one at a time: those of the request in hand, and the consumer's.
OutboxWritten ==
  \/ outbox' = outbox
  \/ StartTurn
  \/ Announce /\ active.run = op.run /\ op.run \in RunId /\ Added(op.run, "started", 0)
  \/ /\ RecordInput /\ op.run \in RunId /\ op.message \in MessageId /\ ~HasInput(op.run, op.message)
     /\ ~ledger[op.message].recorded /\ Added(op.run, "input", op.message)
  \/ Report /\ active.run = op.run /\ op.run \in RunId /\ Added(op.run, "steered", op.message)
  \/ /\ ConsumerAppends /\ active.run = consumer.run /\ consumer.run \in RunId
     /\ Added(consumer.run, consumer.note.type, consumer.note.of)

LEMMA OutboxSteps ==
  ASSUME Base, Step
  PROVE  OutboxWritten
<1>1. CASE Announce
  <2>1. Unlocked /\ Appended(op.run, "started", 0)
    BY <1>1 DEF Announce, Unlocked
  <2> QED
    BY <1>1, <2>1, AppendedIsAdded DEF OutboxWritten, EventType
<1>2. CASE Report
  <2>1. Unlocked /\ (Appended(op.run, "steered", op.message) \/ outbox' = outbox)
    BY <1>2 DEF Report, Unlocked
  <2>2. op.message \in Nat
    BY DEF Base, TypeOK, MemoryTyped, Operation
  <2> QED
    BY <1>2, <2>1, <2>2, AppendedIsAdded DEF OutboxWritten, EventType
<1>3. CASE ConsumerAppends
  <2>1. Unlocked /\ Appended(consumer.run, consumer.note.type, consumer.note.of)
    BY <1>3 DEF ConsumerAppends
  <2>2. consumer.note.type \in EventType /\ consumer.note.of \in Nat
    BY Zenon DEF Base, TypeOK, MemoryTyped, Consumer, Note, EventType
  <2> QED
    BY <1>3, <2>1, <2>2, AppendedIsAdded DEF OutboxWritten
<1>4. CASE RecordInput
  <2>1. op.message \in MessageId /\ op.run = message[op.message].run /\ op.run \in RunId /\ op.pc = "record"
    BY <1>4, Rows DEF RecordInput, Base, SteerInv, SteerPC, TypeOK, MemoryTyped, ServerTyped
  <2>2. Highest(op.run, op.message) = Len(outbox[op.run])
    BY <2>1, HighestIsLast
  <2> QED
    BY <1>4, <2>1, <2>2 DEF RecordInput, OutboxWritten, Added, Found
<1>5. CASE StartTurn \/ Interrupt \/ InterruptStep \/ Restarted
  BY <1>5 DEF OutboxWritten, files, Interrupt, InterruptStep, TurnInterrupted, InterruptFails, Interrupted,
     Restarted
<1>6. CASE ThreadReady \/ ThreadFails \/ TurnStarts \/ TurnStartFails("failed") \/ TurnStartFails("unknown")
           \/ WriteTerminal \/ TurnStarted \/ WriteRunning
  BY <1>6 DEF OutboxWritten, files, ThreadReady, ThreadFails, TurnStarts, TurnStartFails, WriteTerminal,
     TurnStarted, WriteRunning
<1>7. CASE SteerRefused \/ SteerPending \/ TurnSteered \/ TurnRefusesSteer \/ SteerRejected
           \/ SteerLost \/ SteerAccepted \/ MarkRecorded
  BY <1>7 DEF OutboxWritten, files, SteerRefused, SteerPending, TurnSteered, TurnRefusesSteer,
     SteerRejected, SteerLost, SteerAccepted, MarkRecorded
<1>8. CASE \/ Skip \/ Consume \/ ConsumerEndsRun \/ ConsumerWrites \/ CodexStep
           \/ MonitorChecks \/ MonitorFails \/ MonitorWrites
  BY <1>8 DEF OutboxWritten, files, CodexStep, Skip, Consume, ConsumerEndsRun, ConsumerWrites,
     CompleteForeign, AppServerDies, CompleteTurn, EmitOutput, MonitorChecks, MonitorFails, MonitorWrites
<1>9. CASE \/ \E r \in RunId : SendSteer(r) \/ Poll(r) \/ Scan(r)
           \/ \E m \in MessageId : RepeatSteer(m) \/ SteerTaken(m)
  BY <1>9 DEF OutboxWritten, files, SendSteer, Poll, Scan, RepeatSteer, SteerTaken, SteerKnown, SteerNew
<1> QED
  BY <1>1, <1>2, <1>3, <1>4, <1>5, <1>6, <1>7, <1>8, <1>9 DEF Step, StartStep, SteerStep, ConsumerStep

\* What adding an event does.
LEMMA AddedEvent ==
  ASSUME Base, NEW r \in RunId, NEW type \in EventType, NEW of \in Nat, Added(r, type, of)
  PROVE  /\ outbox' \in [RunId -> Seq(Event)]
         /\ Len(outbox[r]) \in Nat /\ Len(outbox'[r]) = Len(outbox[r]) + 1
         /\ \A n \in 1..Len(outbox[r]) : outbox'[r][n] = outbox[r][n]
         /\ outbox'[r][Len(outbox[r]) + 1] = [sequence |-> Len(outbox[r]) + 1, type |-> type, of |-> of]
         /\ \A q \in RunId : q # r => outbox'[q] = outbox[q]
<1> DEFINE e == [sequence |-> Len(outbox[r]) + 1, type |-> type, of |-> of]
<1>1. outbox[r] \in Seq(Event) /\ Len(outbox[r]) \in Nat /\ outbox \in [RunId -> Seq(Event)]
  BY Rows DEF Base, TypeOK, FilesTyped
<1>2. e \in Event
  BY <1>1 DEF Event, EventType
<1>3. outbox' = [outbox EXCEPT ![r] = Append(outbox[r], e)]
  BY DEF Added
<1> HIDE DEF e
<1>4. /\ Append(outbox[r], e) \in Seq(Event) /\ Len(Append(outbox[r], e)) = Len(outbox[r]) + 1
      /\ \A i \in 1..Len(outbox[r]) : Append(outbox[r], e)[i] = outbox[r][i]
      /\ Append(outbox[r], e)[Len(outbox[r]) + 1] = e
  BY <1>1, <1>2, Pushed
<1>5. outbox' \in [RunId -> Seq(Event)] /\ outbox'[r] = Append(outbox[r], e)
      /\ \A q \in RunId : q # r => outbox'[q] = outbox[q]
  BY <1>1, <1>3, <1>4
<1> QED
  BY <1>1, <1>4, <1>5 DEF e

LEMMA RowAdded ==
  ASSUME NEW S, NEW s \in Seq(S), NEW e \in S
  PROVE  /\ Append(s, e) \in Seq(S) /\ Len(Append(s, e)) = Len(s) + 1
         /\ Append(s, e)[Len(s) + 1] = e
         /\ \A i \in 1..Len(s) : Append(s, e)[i] = s[i]
BY Pushed

\* What the start of a run adds.
LEMMA RunAdded ==
  ASSUME Base, StartTurn
  PROVE  /\ Len(file') = Len(file) + 1 /\ Len(file) \in Nat /\ RunId' = RunId \cup {Len(file) + 1}
         /\ RunId = 1..Len(file)
         /\ file' \in [RunId' -> Status] /\ file'[Len(file) + 1] = "starting"
         /\ \A r \in RunId : file'[r] = file[r]
         /\ outbox' \in [RunId' -> Seq(Event)] /\ outbox'[Len(file) + 1] = <<>>
         /\ \A r \in RunId : outbox'[r] = outbox[r]
         /\ relay' \in [RunId' -> Relay] /\ relay'[Len(file) + 1] = NoPoll
         /\ \A r \in RunId : relay'[r] = relay[r]
         /\ ended' \in [RunId' -> SUBSET TurnId] /\ ended'[Len(file) + 1] = {}
         /\ \A r \in RunId : ended'[r] = ended[r]
<1> DEFINE n == Len(file)
<1>1. n \in Nat /\ RunId = 1..n
  BY Rows DEF Base
<1>2. Step
  BY DEF Step
<1>3. RunId' = 1..(n + 1) /\ Len(file') = n + 1
  <2>1. file \in Seq(Status) /\ "starting" \in Status /\ file' = Append(file, "starting")
    BY DEF Base, TypeOK, FilesTyped, Status, StartTurn
  <2>2. Len(file') = n + 1 /\ file' \in Seq(Status)
    BY <2>1, Pushed
  <2> QED
    BY <2>2, LenProperties DEF RunId
<1>4. /\ file \in [1..n -> Status] /\ outbox \in [1..n -> Seq(Event)] /\ relay \in [1..n -> Relay]
      /\ ended \in [1..n -> SUBSET TurnId]
  BY <1>1, Rows DEF Base, TypeOK, FilesTyped, ServerTyped
<1>0. /\ file \in Seq(Status) /\ outbox \in Seq(Seq(Event)) /\ relay \in Seq(Relay)
       /\ ended \in Seq(SUBSET TurnId)
       /\ Len(file) = n /\ Len(outbox) = n /\ Len(relay) = n /\ Len(ended) = n
  <2>1. file \in Seq(Status) /\ Len(file) = n
    BY <1>1, <1>4
  <2> HIDE DEF n
  <2>2. outbox \in Seq(Seq(Event)) /\ Len(outbox) = n
    BY <1>1, <1>4
  <2>3. relay \in Seq(Relay) /\ Len(relay) = n
    BY <1>1, <1>4
  <2>4. ended \in Seq(SUBSET TurnId) /\ Len(ended) = n
    BY <1>1, <1>4
  <2> QED
    BY <2>1, <2>2, <2>3, <2>4
<1>5. "starting" \in Status /\ <<>> \in Seq(Event) /\ NoPoll \in Relay /\ {} \in SUBSET TurnId
  BY DEF Status, NoPoll, Relay, Terminal
<1>6. /\ file' = Append(file, "starting") /\ outbox' = Append(outbox, <<>>)
      /\ relay' = Append(relay, NoPoll) /\ ended' = Append(ended, {})
  BY DEF StartTurn
<1>7. file' \in [1..(n + 1) -> Status] /\ file'[n + 1] = "starting" /\ \A r \in 1..n : file'[r] = file[r]
  <2>1. /\ file' \in Seq(Status) /\ Len(file') = n + 1 /\ file'[n + 1] = "starting"
        /\ \A i \in 1..n : file'[i] = file[i]
    BY <1>0, <1>5, <1>6, RowAdded
  <2> QED
    BY <2>1, LenProperties
<1>8. outbox' \in [1..(n + 1) -> Seq(Event)] /\ outbox'[n + 1] = <<>>
      /\ \A r \in 1..n : outbox'[r] = outbox[r]
  <2>1. /\ outbox' \in Seq(Seq(Event)) /\ Len(outbox') = n + 1 /\ outbox'[n + 1] = <<>>
        /\ \A i \in 1..n : outbox'[i] = outbox[i]
    BY <1>0, <1>5, <1>6, RowAdded
  <2> QED
    BY <2>1, LenProperties
<1>9. relay' \in [1..(n + 1) -> Relay] /\ relay'[n + 1] = NoPoll /\ \A r \in 1..n : relay'[r] = relay[r]
  <2>1. /\ relay' \in Seq(Relay) /\ Len(relay') = n + 1 /\ relay'[n + 1] = NoPoll
        /\ \A i \in 1..n : relay'[i] = relay[i]
    BY <1>0, <1>5, <1>6, RowAdded
  <2> QED
    BY <2>1, LenProperties
<1>10. ended' \in [1..(n + 1) -> SUBSET TurnId] /\ ended'[n + 1] = {}
       /\ \A r \in 1..n : ended'[r] = ended[r]
  <2>1. /\ ended' \in Seq(SUBSET TurnId) /\ Len(ended') = n + 1 /\ ended'[n + 1] = {}
        /\ \A i \in 1..n : ended'[i] = ended[i]
    BY <1>0, <1>5, <1>6, RowAdded
  <2> QED
    BY <2>1, LenProperties
<1>11. 1..(n + 1) = (1..n) \cup {n + 1}
  BY <1>1, OneMore
<1> HIDE DEF n
<1>12. RunId' = RunId \cup {n + 1}
  BY <1>1, <1>3, <1>11
<1>13. /\ file' \in [RunId' -> Status] /\ file'[n + 1] = "starting" /\ \A r \in RunId : file'[r] = file[r]
       /\ outbox' \in [RunId' -> Seq(Event)] /\ outbox'[n + 1] = <<>> /\ \A r \in RunId : outbox'[r] = outbox[r]
  BY <1>1, <1>3, <1>7, <1>8
<1>14. /\ relay' \in [RunId' -> Relay] /\ relay'[n + 1] = NoPoll /\ \A r \in RunId : relay'[r] = relay[r]
       /\ ended' \in [RunId' -> SUBSET TurnId] /\ ended'[n + 1] = {} /\ \A r \in RunId : ended'[r] = ended[r]
  BY <1>1, <1>3, <1>9, <1>10
<1> QED
  BY <1>1, <1>3, <1>12, <1>13, <1>14 DEF n

\* What the first sending of a steer adds.
LEMMA MessageAdded ==
  ASSUME Base, NEW run \in RunId, SendSteer(run)
  PROVE  /\ Len(message) \in Nat /\ MessageId' = MessageId \cup {Len(message) + 1}
         /\ MessageId = 1..Len(message) /\ Len(message') = Len(message) + 1
         /\ message'[Len(message) + 1] = [run |-> run, attempts |-> 1, answer |-> "waiting"]
         /\ \A m \in MessageId : message'[m] = message[m]
         /\ ledger' \in [MessageId' -> Delivery] /\ ledger'[Len(message) + 1] = NoDelivery
         /\ \A m \in MessageId : ledger'[m] = ledger[m]
         /\ delivered' \in [MessageId' -> Nat] /\ delivered'[Len(message) + 1] = 0
         /\ \A m \in MessageId : delivered'[m] = delivered[m]
<1> DEFINE n == Len(message)
           row == [run |-> run, attempts |-> 1, answer |-> "waiting"]
<1>1. n \in Nat /\ MessageId = 1..n /\ message \in [1..n -> Message] /\ message \in Seq(Message) /\ run \in Nat
  BY Rows DEF Base, TypeOK, ServerTyped
<1>2. row \in Message
  BY <1>1 DEF Message
<1>3. MessageId' = 1..(n + 1) /\ Len(message') = n + 1
  <2>1. message' = Append(message, row)
    BY DEF SendSteer
  <2>2. Len(message') = n + 1 /\ message' \in Seq(Message)
    BY <1>1, <1>2, <2>1, Pushed
  <2> QED
    BY <2>2, LenProperties DEF MessageId
<1>4. ledger \in [1..n -> Delivery] /\ delivered \in [1..n -> Nat]
  BY <1>1, Rows DEF Base, TypeOK, FilesTyped, ServerTyped
<1>14. ledger \in Seq(Delivery) /\ delivered \in Seq(Nat) /\ Len(ledger) = n /\ Len(delivered) = n
  BY <1>1, <1>4
<1>5. NoDelivery \in Delivery
  BY DEF NoDelivery, Delivery
<1>6. message' = Append(message, row) /\ ledger' = Append(ledger, NoDelivery) /\ delivered' = Append(delivered, 0)
  BY DEF SendSteer
<1> HIDE DEF row
<1>7. message'[n + 1] = row /\ \A m \in 1..n : message'[m] = message[m]
  BY <1>1, <1>2, <1>6, RowAdded
<1>8. ledger' \in [1..(n + 1) -> Delivery] /\ ledger'[n + 1] = NoDelivery
      /\ \A m \in 1..n : ledger'[m] = ledger[m]
  <2>1. /\ ledger' \in Seq(Delivery) /\ Len(ledger') = n + 1 /\ ledger'[n + 1] = NoDelivery
        /\ \A i \in 1..n : ledger'[i] = ledger[i]
    BY <1>14, <1>5, <1>6, RowAdded
  <2> QED
    BY <2>1, LenProperties
<1>9. delivered' \in [1..(n + 1) -> Nat] /\ delivered'[n + 1] = 0
      /\ \A m \in 1..n : delivered'[m] = delivered[m]
  <2>1. /\ delivered' \in Seq(Nat) /\ Len(delivered') = n + 1 /\ delivered'[n + 1] = 0
        /\ \A i \in 1..n : delivered'[i] = delivered[i]
    BY <1>14, <1>5, <1>6, RowAdded
  <2> QED
    BY <2>1, LenProperties
<1>10. 1..(n + 1) = (1..n) \cup {n + 1}
  BY <1>1, OneMore
<1> HIDE DEF n
<1>11. MessageId' = MessageId \cup {n + 1}
  BY <1>1, <1>3, <1>10
<1>12. /\ message'[n + 1] = row /\ \A m \in MessageId : message'[m] = message[m]
       /\ ledger' \in [MessageId' -> Delivery] /\ ledger'[n + 1] = NoDelivery
       /\ \A m \in MessageId : ledger'[m] = ledger[m]
       /\ delivered' \in [MessageId' -> Nat] /\ delivered'[n + 1] = 0
       /\ \A m \in MessageId : delivered'[m] = delivered[m]
  BY <1>1, <1>3, <1>7, <1>8, <1>9
<1> QED
  BY <1>1, <1>3, <1>11, <1>12 DEF n, row

\* Events stay where they are; a new run has none.
LEMMA OutboxGrows ==
  ASSUME Base, Step
  PROVE  /\ outbox' \in [RunId' -> Seq(Event)]
         /\ \A r \in RunId : /\ Len(outbox[r]) \in Nat /\ Len(outbox'[r]) \in Nat
                             /\ Len(outbox[r]) <= Len(outbox'[r])
                             /\ \A n \in 1..Len(outbox[r]) : outbox'[r][n] = outbox[r][n]
         /\ \A r \in RunId' : r \notin RunId => outbox'[r] = <<>>
<1>1. outbox \in [RunId -> Seq(Event)] /\ \A r \in RunId : Len(outbox[r]) \in Nat
  BY Rows DEF Base, TypeOK, FilesTyped
<1>2. CASE StartTurn
  <2>1. /\ outbox' \in [RunId' -> Seq(Event)] /\ outbox'[Len(file) + 1] = <<>>
        /\ RunId' = RunId \cup {Len(file) + 1} /\ \A r \in RunId : outbox'[r] = outbox[r]
    BY <1>2, RunAdded
  <2> QED
    BY <1>1, <2>1
<1>3. CASE ~StartTurn
  <2>1. RunId' = RunId
    BY <1>3, FileGrows DEF Base
  <2>2. CASE outbox' = outbox
    BY <1>1, <2>1, <2>2
  <2>3. ASSUME NEW r \in RunId, NEW type \in EventType, NEW of \in Nat, Added(r, type, of)
        PROVE  /\ outbox' \in [RunId -> Seq(Event)]
               /\ \A q \in RunId : /\ Len(outbox'[q]) \in Nat /\ Len(outbox[q]) <= Len(outbox'[q])
                                   /\ \A n \in 1..Len(outbox[q]) : outbox'[q][n] = outbox[q][n]
    <3>1. /\ outbox' \in [RunId -> Seq(Event)]
          /\ Len(outbox[r]) \in Nat /\ Len(outbox'[r]) = Len(outbox[r]) + 1
          /\ \A n \in 1..Len(outbox[r]) : outbox'[r][n] = outbox[r][n]
          /\ \A q \in RunId : q # r => outbox'[q] = outbox[q]
      BY <2>3, AddedEvent
    <3>2. ASSUME NEW q \in RunId
          PROVE  /\ Len(outbox'[q]) \in Nat /\ Len(outbox[q]) <= Len(outbox'[q])
                 /\ \A n \in 1..Len(outbox[q]) : outbox'[q][n] = outbox[q][n]
      <4>1. CASE q = r
        BY <3>1, <4>1
      <4>2. CASE q # r
        BY <1>1, <3>1, <4>2
      <4> QED
        BY <4>1, <4>2
    <3> QED
      BY <3>1, <3>2
  <2>4. op.message \in Nat /\ consumer.note.type \in EventType /\ consumer.note.of \in Nat
    BY DEF Base, TypeOK, MemoryTyped, Operation, Consumer, Note, EventType
  <2>5. outbox' = outbox \/ \E r \in RunId, type \in EventType, of \in Nat : Added(r, type, of)
    BY <1>3, <2>4, OutboxSteps DEF OutboxWritten, EventType
  <2> QED
    BY <1>1, <2>1, <2>2, <2>3, <2>5
<1> QED
  BY <1>2, <1>3

\* The events of every run keep their numbers.
LEMMA Numbered ==
  ASSUME Base, Step
  PROVE  \A r \in RunId' : \A n \in 1..Len(outbox'[r]) : outbox'[r][n].sequence = n
<1>1. \A r \in RunId : Len(outbox[r]) \in Nat /\ \A n \in 1..Len(outbox[r]) : outbox[r][n].sequence = n
  BY Rows DEF Base, NumberInv
<1>2. CASE StartTurn
  <2>1. /\ RunId' = RunId \cup {Len(file) + 1} /\ outbox'[Len(file) + 1] = <<>>
        /\ \A r \in RunId : outbox'[r] = outbox[r]
    BY <1>2, RunAdded
  <2> QED
    BY <1>1, <2>1
<1>3. CASE ~StartTurn
  <2>1. RunId' = RunId
    BY <1>3, FileGrows DEF Base
  <2>2. CASE outbox' = outbox
    BY <1>1, <2>1, <2>2
  <2>3. ASSUME NEW r \in RunId, NEW type \in EventType, NEW of \in Nat, Added(r, type, of),
               NEW q \in RunId, NEW n \in 1..Len(outbox'[q])
        PROVE  outbox'[q][n].sequence = n
    <3>0. outbox'[r][Len(outbox[r]) + 1] = [sequence |-> Len(outbox[r]) + 1, type |-> type, of |-> of]
      BY <2>3, AddedEvent
    <3>1. /\ Len(outbox[r]) \in Nat /\ Len(outbox'[r]) = Len(outbox[r]) + 1
          /\ \A i \in 1..Len(outbox[r]) : outbox'[r][i] = outbox[r][i]
          /\ outbox'[r][Len(outbox[r]) + 1].sequence = Len(outbox[r]) + 1
          /\ q # r => outbox'[q] = outbox[q]
      BY <2>3, <3>0, AddedEvent
    <3>2. CASE q = r
      BY <1>1, <3>1, <3>2
    <3>3. CASE q # r
      BY <1>1, <3>1, <3>3
    <3> QED
      BY <3>2, <3>3
  <2>4. op.message \in Nat /\ consumer.note.type \in EventType /\ consumer.note.of \in Nat
    BY DEF Base, TypeOK, MemoryTyped, Operation, Consumer, Note, EventType
  <2>5. outbox' = outbox \/ \E r \in RunId, type \in EventType, of \in Nat : Added(r, type, of)
    BY <1>3, <2>4, OutboxSteps DEF OutboxWritten, EventType
  <2> QED
    BY <2>1, <2>2, <2>3, <2>5
<1> QED
  BY <1>2, <1>3

-----------------------------------------------------------------------------
(* Types.                                                                  *)

\* A new request of any kind.
LEMMA RequestTyped ==
  ASSUME NEW pc \in {"idle", "resume", "interrupt", "lock", "poll"}, NEW r \in Nat, NEW m \in Nat
  PROVE  /\ Request(pc, r, m) \in Operation /\ Repetition(r, m) \in Operation
         /\ Request(pc, r, m).run = r /\ Repetition(r, m).run = r
         /\ Request(pc, r, m).message = m /\ Repetition(r, m).message = m
BY DEF Request, Repetition, Operation, Status, Terminal

\* A step leaves the request alone, or brings it to its next point, or ends it, or is a
\* new one.
LEMMA OperationTyped ==
  ASSUME Base, Step
  PROVE  op' \in Operation /\ op'.run \in 0..Len(file') /\ op'.message \in 0..Len(message')
<1>1. op \in Operation
  BY DEF Base, TypeOK, MemoryTyped
<1>2. /\ Len(file) \in Nat /\ Len(message) \in Nat /\ Len(file) <= Len(file') /\ Len(message) <= Len(message')
      /\ Len(file') \in Nat /\ Len(message') \in Nat
      /\ op.run \in 0..Len(file) /\ op.message \in 0..Len(message)
      /\ RunId = 1..Len(file) /\ MessageId = 1..Len(message) /\ active.run \in 0..Len(file)
  BY Rows, FileGrows, MessageGrows DEF Base, TypeOK, MemoryTyped
<1>3. ASSUME op' = Free
      PROVE  op' \in Operation /\ op'.run \in 0..Len(file') /\ op'.message \in 0..Len(message')
  BY <1>2, <1>3 DEF Free, Request, Operation, Status, Terminal
<1>4. ASSUME op' \in Operation, op'.run = op.run, op'.message = op.message
      PROVE  op' \in Operation /\ op'.run \in 0..Len(file') /\ op'.message \in 0..Len(message')
  BY <1>2, <1>4
<1>5. CASE StartTurn
  <2>1. op' = Request("resume", Len(file) + 1, 0) /\ Len(file') = Len(file) + 1
    BY <1>5, RunAdded DEF StartTurn
  <2>2. op' \in Operation /\ op'.run = Len(file) + 1 /\ op'.message = 0
    BY <1>2, <2>1 DEF Request, Operation, Status, Terminal, Free
  <2>3. Len(file) + 1 \in 0..Len(file') /\ 0 \in 0..Len(message')
    BY <1>2, <2>1
  <2> QED
    BY <2>2, <2>3
<1>6. CASE StartStep \/ InterruptStep
  <2>1. \/ op' = Free
        \/ /\ op'.run = op.run /\ op'.message = op.message /\ op' \in Operation
    BY <1>1, <1>6, ZenonT(60) DEF Operation, Status, Terminal, StartStep, ThreadReady, ThreadFails, TurnStarts,
     TurnStartFails, WriteTerminal, TurnStarted, WriteRunning, Announce, InterruptStep, TurnInterrupted,
     InterruptFails, Interrupted
  <2> QED
    BY <1>3, <1>4, <2>1
<1>7. CASE Interrupt
  <2>1. op' = Request("interrupt", active.run, 0)
    BY <1>7 DEF Interrupt
  <2>2. op' \in Operation /\ op'.run = active.run /\ op'.message = 0
    BY <1>2, <2>1 DEF Request, Operation, Status, Terminal, Free
  <2> QED
    BY <1>2, <2>2
<1>8. CASE SteerStep
  <2>1. op' = Free \/ op' = op \/ \E pc \in {"steer", "steered", "refused", "record", "mark", "report"} :
                                    op' = [op EXCEPT !.pc = pc]
    BY <1>8 DEF SteerStep, SteerRefused, SteerPending, TurnSteered, TurnRefusesSteer, SteerRejected,
       SteerLost, SteerAccepted, RecordInput, MarkRecorded, Report, Answered
  <2>2. op' = Free \/ (op'.run = op.run /\ op'.message = op.message /\ op' \in Operation)
    BY <1>1, <2>1 DEF Operation
  <2> QED
    BY <1>3, <1>4, <2>2
<1>9. CASE ConsumerStep \/ CodexStep \/ MonitorChecks \/ MonitorFails \/ MonitorWrites \/ Restarted
           \/ \E m \in MessageId : RepeatSteer(m)
  <2>1. op' = Free \/ op' = op
    BY <1>9 DEF memory, ConsumerStep, CodexStep, Skip, Consume, ConsumerAppends, ConsumerEndsRun,
       ConsumerWrites, CompleteForeign, AppServerDies, CompleteTurn, EmitOutput, MonitorChecks,
       MonitorFails, MonitorWrites, Restarted, RepeatSteer
  <2> QED
    BY <1>1, <1>3, <1>4, <2>1
<1>10. CASE \E r \in RunId : SendSteer(r) \/ Poll(r) \/ Scan(r)
  <2>1. op' = Free \/ op' = op \/ \E r \in RunId : op' = Request("poll", r, 0)
    BY <1>10 DEF memory, SendSteer, Poll, Scan
  <2>2. ASSUME NEW r \in RunId, op' = Request("poll", r, 0)
        PROVE  op' \in Operation /\ op'.run = r /\ op'.message = 0
    BY <1>2, <2>2 DEF Request, Operation, Status, Terminal, Free
  <2>3. RunId \subseteq 0..Len(file') /\ 0 \in 0..Len(message')
    BY <1>2
  <2> QED
    BY <1>1, <1>3, <1>4, <2>1, <2>2, <2>3
<1>11. CASE \E m \in MessageId : SteerTaken(m)
  <2>1. PICK m \in MessageId : SteerTaken(m)
    BY <1>11
  <2>2. message[m].run \in RunId
    BY <2>1 DEF Base, TypeOK, ServerTyped
  <2>5. message[m].run \in Nat /\ m \in Nat /\ message[m].run \in 0..Len(file') /\ m \in 0..Len(message')
    BY <1>2, <2>2
  <2>3. \/ op' = Free
        \/ op' = Repetition(message[m].run, m)
        \/ op' = Request("lock", message[m].run, m)
    BY <2>1 DEF SteerTaken, SteerKnown, SteerNew, Answered
  <2>4. op' = Free \/ (op' \in Operation /\ op'.run = message[m].run /\ op'.message = m)
    BY <2>3, <2>5, RequestTyped
  <2> QED
    BY <1>3, <2>5, <2>4
<1> QED
  BY <1>5, <1>6, <1>7, <1>8, <1>9, <1>10, <1>11 DEF Step

\* The run in memory is left alone, replaced, or one of its fields changes.
ActiveWritten ==
  \/ active' = active
  \/ Restarted /\ active' = NoRun
  \/ ThreadReady
  \/ TurnStarted /\ active' = [active EXCEPT !.turn = Len(turn), !.status = "running"]
  \/ \E status \in Terminal : active' = [active EXCEPT !.status = status]
  \/ /\ Announce \/ Report \/ ConsumerAppends \/ MarkRecorded
     /\ \E sequence \in Nat : active' = [active EXCEPT !.sequence = sequence]

LEMMA ActiveSteps ==
  ASSUME Base, Step
  PROVE  ActiveWritten \/ (ConsumerEndsRun /\ active' = [active EXCEPT !.status = consumer.note.status])
<1>1. CASE Announce \/ Report \/ ConsumerAppends
  <2>1. active.sequence + 1 \in Nat
    BY DEF Base, TypeOK, MemoryTyped, Active
  <2>2. active' = active \/ active' = [active EXCEPT !.sequence = active.sequence + 1]
    BY <1>1 DEF Announce, Report, ConsumerAppends, Appended
  <2> QED
    BY <1>1, <2>1, <2>2 DEF ActiveWritten
<1>2. CASE MarkRecorded
  <2>1. op.message \in MessageId /\ op.run = message[op.message].run /\ op.run \in RunId
    BY <1>2, Rows DEF MarkRecorded, Base, SteerInv, SteerPC, TypeOK, MemoryTyped, ServerTyped
  <2>2. Highest(op.run, op.message) = Len(outbox[op.run]) /\ Len(outbox[op.run]) \in Nat
    BY <2>1, HighestIsLast, Rows DEF Base
  <2>3. active' = active \/ active' = [active EXCEPT !.sequence = Highest(op.run, op.message)]
    BY <1>2 DEF MarkRecorded, Adopted
  <2> QED
    BY <1>2, <2>2, <2>3 DEF ActiveWritten
<1>3. CASE StartTurn \/ Interrupt \/ TurnInterrupted \/ InterruptFails \/ Interrupted \/ Restarted
  BY <1>3 DEF ActiveWritten, memory, StartTurn, Interrupt, TurnInterrupted, InterruptFails, Interrupted,
     SetTerminal, Terminal, Restarted
<1>4. CASE ThreadReady \/ ThreadFails \/ TurnStarts \/ TurnStartFails("failed") \/ TurnStartFails("unknown")
           \/ WriteTerminal \/ TurnStarted \/ WriteRunning
  BY <1>4 DEF ActiveWritten, Terminal, ThreadFails, TurnStarts, TurnStartFails, WriteTerminal,
     TurnStarted, WriteRunning, SetTerminal
<1>5. CASE SteerRefused \/ SteerPending \/ TurnSteered \/ TurnRefusesSteer \/ SteerRejected
           \/ SteerLost \/ SteerAccepted \/ RecordInput
  BY <1>5 DEF ActiveWritten, SteerRefused, SteerPending, TurnSteered, TurnRefusesSteer,
     SteerRejected, SteerLost, SteerAccepted, RecordInput
<1>6. CASE \/ Skip \/ Consume \/ ConsumerWrites \/ CodexStep \/ MonitorChecks \/ MonitorFails \/ MonitorWrites
  BY <1>6 DEF ActiveWritten, memory, Terminal, CodexStep, Skip, Consume, ConsumerWrites,
     CompleteForeign, AppServerDies, CompleteTurn, EmitOutput, MonitorChecks, MonitorFails, MonitorWrites,
     SetTerminal
<1>7. CASE ConsumerEndsRun
  BY <1>7 DEF ConsumerEndsRun, SetTerminal
<1>8. CASE \/ \E r \in RunId : SendSteer(r) \/ Poll(r) \/ Scan(r)
           \/ \E m \in MessageId : RepeatSteer(m) \/ SteerTaken(m)
  BY <1>8 DEF ActiveWritten, memory, SendSteer, Poll, Scan, RepeatSteer, SteerTaken, SteerKnown, SteerNew
<1> QED
  BY <1>1, <1>2, <1>3, <1>4, <1>5, <1>6, <1>7, <1>8 DEF Step, StartStep, SteerStep, ConsumerStep, InterruptStep

LEMMA ActiveTyped ==
  ASSUME Base, Step
  PROVE  active' \in Active /\ active'.run \in 0..Len(file') /\ active'.turn \in 0..Len(turn')
<1>1. active \in Active /\ active.run \in Nat /\ active.turn \in Nat
  BY DEF Base, TypeOK, MemoryTyped, Active
<1>2. /\ active.run \in 0..Len(file') /\ active.turn \in 0..Len(turn')
      /\ op.run \in 0..Len(file') /\ 0 \in 0..Len(turn') /\ 0 \in 0..Len(file')
      /\ Len(turn) \in Nat /\ op.run \in Nat
  BY Rows, FileGrows, TurnGrows DEF Base, TypeOK, MemoryTyped
<1>3. Len(turn) \in 0..Len(turn')
  BY <1>2, TurnGrows DEF Base
<1>4. CASE active' = active
  BY <1>1, <1>2, <1>4
<1>5. CASE active' = NoRun
  BY <1>2, <1>5 DEF NoRun, Active, Status
<1>6. CASE ThreadReady
  BY <1>2, <1>6 DEF ThreadReady, Active, Status
<1>7. CASE active' = [active EXCEPT !.turn = Len(turn), !.status = "running"]
  <2>1. active' \in Active /\ active'.run = active.run /\ active'.turn = Len(turn)
    BY <1>1, <1>2, <1>7 DEF Active, Status
  <2> QED
    BY <1>2, <1>3, <2>1
<1>8. ASSUME NEW status \in Status, active' = [active EXCEPT !.status = status]
      PROVE  active' \in Active /\ active'.run = active.run /\ active'.turn = active.turn
  BY <1>1, <1>8 DEF Active
<1>9. ASSUME NEW sequence \in Nat, active' = [active EXCEPT !.sequence = sequence]
      PROVE  active' \in Active /\ active'.run = active.run /\ active'.turn = active.turn
  BY <1>1, <1>9 DEF Active
<1>10. consumer.note.status \in Status /\ Terminal \subseteq Status
  BY DEF Base, TypeOK, MemoryTyped, Consumer, Note, Status
<1> QED
  BY <1>2, <1>4, <1>5, <1>6, <1>7, <1>8, <1>9, <1>10, ActiveSteps DEF ActiveWritten

\* The notifications lose their first, get one more, or are cut off.
NotesWritten ==
  \/ notes' = notes
  \/ notes' = <<>>
  \/ notes # <<>> /\ notes' = Tail(notes)
  \/ \E note \in Note : notes' = Append(notes, note)
  \/ \E n \in 0..Len(notes) : notes' = SubSeq(notes, 1, n)

LEMMA NotesSteps ==
  ASSUME Base, Step
  PROVE  NotesWritten
<1>0. active.turn \in Nat /\ \A t \in TurnId : t \in Nat
  BY Rows DEF Base, TypeOK, MemoryTyped, Active
<1>9. \A m \in MessageId : m \in Nat
  BY Rows DEF Base
<1>1. CASE TurnInterrupted
  BY <1>0, <1>1 DEF NotesWritten, TurnInterrupted, Completion, Note, Status, Terminal
<1>2. CASE \/ CompleteForeign \/ \E t \in TurnId : CompleteTurn(t)
  <2>1. ASSUME NEW t \in Nat PROVE Completion(t, "completed") \in Note
    BY DEF Completion, Note, Status, Terminal
  <2>2. [Completion(0, "completed") EXCEPT !.own = FALSE] \in Note
    BY DEF Completion, Note, Status, Terminal
  <2> QED
    BY <1>0, <1>2, <2>1, <2>2 DEF NotesWritten, CompleteForeign, CompleteTurn
<1>3. CASE \E t \in TurnId : \E m \in Answerable(t) : EmitOutput(t, m)
  <2>0. PICK t \in TurnId : \E m \in Answerable(t) : EmitOutput(t, m)
    BY <1>3
  <2>1. PICK m \in Answerable(t) : EmitOutput(t, m)
    BY <2>0
  <2>2. m \in Nat /\ t \in Nat
    BY <1>0, <1>9, <2>1 DEF Answerable
  <2> QED
    BY <2>1, <2>2 DEF NotesWritten, EmitOutput, Note, Status
<1>4. CASE StartTurn \/ Interrupt \/ InterruptFails \/ Interrupted \/ Restarted \/ StartStep
  BY <1>4 DEF NotesWritten, codex, StartTurn, Interrupt, InterruptFails, Interrupted, Restarted,
     StartStep, ThreadReady, ThreadFails, TurnStarts, TurnStartFails, WriteTerminal, TurnStarted, WriteRunning,
     Announce
<1>5. CASE SteerStep
  BY <1>5 DEF NotesWritten, codex, SteerStep, SteerRefused, SteerPending, TurnSteered, TurnRefusesSteer,
     SteerRejected, SteerLost, SteerAccepted, RecordInput, MarkRecorded, Report
<1>6. CASE ConsumerStep \/ AppServerDies \/ MonitorChecks \/ MonitorFails \/ MonitorWrites
  BY <1>6 DEF NotesWritten, codex, ConsumerStep, Skip, Consume, ConsumerAppends, ConsumerEndsRun,
     ConsumerWrites, AppServerDies, MonitorChecks, MonitorFails, MonitorWrites
<1>7. CASE \/ \E r \in RunId : SendSteer(r) \/ Poll(r) \/ Scan(r)
           \/ \E m \in MessageId : RepeatSteer(m) \/ SteerTaken(m)
  BY <1>7 DEF NotesWritten, codex, SendSteer, Poll, Scan, RepeatSteer, SteerTaken, SteerKnown, SteerNew
<1> QED
  BY <1>1, <1>2, <1>3, <1>4, <1>5, <1>6, <1>7 DEF Step, InterruptStep, CodexStep

\* What a property of every note needs to survive: that it holds of a new one.
LEMMA NotesKept ==
  ASSUME Base, NEW N, N \subseteq Note, \A n \in 1..Len(notes) : notes[n] \in N,
         \/ notes' = notes
         \/ notes' = <<>>
         \/ notes # <<>> /\ notes' = Tail(notes)
         \/ \E note \in N : notes' = Append(notes, note)
         \/ \E n \in 0..Len(notes) : notes' = SubSeq(notes, 1, n)
  PROVE  notes' \in Seq(N) /\ \A n \in 1..Len(notes') : notes'[n] \in N
<1>1. notes \in Seq(Note) /\ Len(notes) \in Nat
  BY Rows DEF Base, TypeOK, CodexTyped
<1>2. notes \in Seq(N)
  BY <1>1, LenProperties
<1>3. notes' \in Seq(N)
  <2>1. CASE notes # <<>> /\ notes' = Tail(notes)
    BY <1>2, <2>1, Shifted
  <2>2. CASE \E note \in N : notes' = Append(notes, note)
    BY <1>2, <2>2, Pushed
  <2>3. CASE \E n \in 0..Len(notes) : notes' = SubSeq(notes, 1, n)
    BY <1>1, <1>2, <2>3, SubSeqProperties
  <2>4. <<>> \in Seq(N)
    OBVIOUS
  <2> QED
    BY <1>2, <2>1, <2>2, <2>3, <2>4
<1> QED
  BY <1>3, LenProperties

LEMMA NotesTyped ==
  ASSUME Base, Step
  PROVE  notes' \in Seq(Note)
<1>1. \A n \in 1..Len(notes) : notes[n] \in Note
  BY Rows DEF Base
<1> QED
  BY <1>1, NotesSteps, NotesKept DEF NotesWritten

\* Whom the locks, the consumer and the monitor follow.
LEMMA ConsumerKept ==
  ASSUME Step, ~(ConsumerAppends \/ ConsumerEndsRun \/ ConsumerWrites \/ Consume)
  PROVE  consumer' = consumer \/ (Restarted /\ consumer' = Waiting)
<1>1. CASE StartTurn \/ StartStep \/ Interrupt \/ InterruptStep
  BY <1>1 DEF memory, StartTurn, StartStep, Interrupt, InterruptStep, ThreadReady, ThreadFails, TurnStarts,
     TurnStartFails, WriteTerminal, TurnStarted, WriteRunning, Announce, TurnInterrupted, InterruptFails,
     Interrupted
<1>2. CASE SteerStep
  BY <1>2 DEF SteerStep, SteerRefused, SteerPending, TurnSteered, TurnRefusesSteer,
     SteerRejected, SteerLost, SteerAccepted, RecordInput, MarkRecorded, Report
<1>3. CASE Skip \/ CodexStep \/ MonitorChecks \/ MonitorFails \/ MonitorWrites \/ Restarted
  BY <1>3 DEF memory, Skip, CodexStep, CompleteForeign, AppServerDies, CompleteTurn, EmitOutput,
     MonitorChecks, MonitorFails, MonitorWrites, Restarted
<1>4. CASE \/ \E r \in RunId : SendSteer(r) \/ Poll(r) \/ Scan(r)
           \/ \E m \in MessageId : RepeatSteer(m) \/ SteerTaken(m)
  BY <1>4 DEF memory, SendSteer, Poll, Scan, RepeatSteer, SteerTaken, SteerKnown, SteerNew
<1> QED
  BY <1>1, <1>2, <1>3, <1>4 DEF Step, ConsumerStep

LEMMA ConsumerTyped ==
  ASSUME Base, ConsumerInv, Step
  PROVE  consumer' \in Consumer /\ consumer'.run \in 0..Len(file')
<1>1. /\ consumer \in Consumer /\ consumer.run \in 0..Len(file') /\ active.run \in 0..Len(file')
      /\ 0 \in 0..Len(file') /\ consumer.run \in Nat /\ active.run \in Nat /\ consumer.note \in Note
  BY Rows, FileGrows DEF Base, TypeOK, MemoryTyped, Consumer
<1>2. Waiting \in Consumer /\ Waiting.run = 0
  <2>1. NoNote \in Note
    BY DEF NoNote, Note, Status
  <2>2. <<>> \in Seq({"append", "terminal", "file"})
    OBVIOUS
  <2> QED
    BY <2>1, <2>2 DEF Waiting, Consumer
<1>3. ASSUME NEW todo \in Seq({"append", "terminal", "file"}), NEW r \in 0..Len(file'), NEW note \in Note,
             r \in Nat, consumer' = [todo |-> todo, run |-> r, note |-> note]
      PROVE  consumer' \in Consumer /\ consumer'.run \in 0..Len(file')
  BY <1>3 DEF Consumer
<1>4. ASSUME NEW r \in 0..Len(file'), r \in Nat, ConsumerGoesOn(r), consumer.todo # <<>>
      PROVE  consumer' \in Consumer /\ consumer'.run \in 0..Len(file')
  <2>1. Tail(consumer.todo) \in Seq({"append", "terminal", "file"})
    BY <1>1, <1>4, Shifted DEF Consumer
  <2> QED
    BY <1>1, <1>2, <1>3, <1>4, <2>1 DEF ConsumerGoesOn
<1>5. CASE ConsumerAppends \/ ConsumerEndsRun \/ ConsumerWrites
  BY <1>1, <1>4, <1>5 DEF ConsumerAppends, ConsumerEndsRun, ConsumerWrites, ConsumerIs
<1>6. CASE Consume
  <2>1. Head(notes) \in Note
    BY <1>6, Shifted DEF Consume, Base, TypeOK, CodexTyped
  <2> DEFINE Steppings == {"append", "terminal", "file"}
  <2>3. <<"append">> \in Seq(Steppings)
    OBVIOUS
  <2>4. <<"append", "terminal", "file">> \in Seq(Steppings)
    OBVIOUS
  <2>2. Todo(Head(notes)) \in Seq(Steppings)
    BY <2>3, <2>4 DEF Todo
  <2> QED
    BY <1>1, <1>3, <1>6, <2>1, <2>2 DEF Consume
<1>7. CASE ~(ConsumerAppends \/ ConsumerEndsRun \/ ConsumerWrites \/ Consume)
  <2>1. consumer' = consumer \/ consumer' = Waiting
    BY <1>7, ConsumerKept
  <2> QED
    BY <1>1, <1>2, <2>1
<1> QED
  BY <1>5, <1>6, <1>7

\* inputMu is taken and given by the consumer and by steers, and lost by a restart.
LEMMA InputMuTyped ==
  ASSUME Base, Step
  PROVE  /\ inputMu' \in {"free", "steer", "consumer"}
         /\ inputMu' = inputMu \/ SteerStep \/ ConsumerStep \/ Restarted \/ \E m \in MessageId : SteerTaken(m)
<1>0. inputMu \in {"free", "steer", "consumer"}
  BY DEF Base, TypeOK, MemoryTyped
<1>1. CASE StartTurn \/ StartStep \/ Interrupt \/ InterruptStep
  BY <1>0, <1>1 DEF memory, StartTurn, StartStep, Interrupt, InterruptStep, ThreadReady, ThreadFails, TurnStarts,
     TurnStartFails, WriteTerminal, TurnStarted, WriteRunning, Announce, TurnInterrupted, InterruptFails,
     Interrupted
<1>2. CASE SteerStep
  BY <1>0, <1>2 DEF SteerStep, SteerRefused, SteerPending, TurnSteered, TurnRefusesSteer,
     SteerRejected, SteerLost, SteerAccepted, RecordInput, MarkRecorded, Report, Answered, Guarded
<1>3. CASE ConsumerStep
  BY <1>0, <1>3 DEF ConsumerStep, Skip, Consume, ConsumerAppends, ConsumerEndsRun, ConsumerWrites,
     ConsumerGoesOn, Released
<1>4. CASE CodexStep \/ MonitorChecks \/ MonitorFails \/ MonitorWrites \/ Restarted
  BY <1>0, <1>4 DEF memory, Skip, CodexStep, CompleteForeign, AppServerDies, CompleteTurn, EmitOutput,
     MonitorChecks, MonitorFails, MonitorWrites, Restarted
<1>5. CASE \/ \E r \in RunId : SendSteer(r) \/ Poll(r) \/ Scan(r)
           \/ \E m \in MessageId : RepeatSteer(m) \/ SteerTaken(m)
  BY <1>0, <1>5 DEF memory, SendSteer, Poll, Scan, RepeatSteer, SteerTaken, SteerKnown, SteerNew, Answered
<1> QED
  BY <1>1, <1>2, <1>3, <1>4, <1>5 DEF Step

LEMMA MonitorTyped ==
  ASSUME Base, Step
  PROVE  /\ monitor' \in Monitor /\ monitor'.run \in 0..Len(file')
         /\ monitor' = monitor \/ AppServerDies \/ MonitorChecks \/ MonitorFails \/ MonitorWrites \/ Restarted
<1>0. /\ monitor \in Monitor /\ monitor.run \in 0..Len(file') /\ active.run \in 0..Len(file')
      /\ 0 \in 0..Len(file') /\ active.run \in Nat
  BY Rows, FileGrows DEF Base, TypeOK, MemoryTyped
<1>1. CASE StartTurn \/ StartStep \/ Interrupt \/ InterruptStep
  BY <1>0, <1>1 DEF memory, StartTurn, StartStep, Interrupt, InterruptStep, ThreadReady, ThreadFails, TurnStarts,
     TurnStartFails, WriteTerminal, TurnStarted, WriteRunning, Announce, TurnInterrupted, InterruptFails,
     Interrupted
<1>2. CASE SteerStep
  BY <1>0, <1>2 DEF SteerStep, SteerRefused, SteerPending, TurnSteered, TurnRefusesSteer,
     SteerRejected, SteerLost, SteerAccepted, RecordInput, MarkRecorded, Report
<1>3. CASE ConsumerStep \/ CompleteForeign
           \/ \E t \in TurnId : CompleteTurn(t) \/ \E m \in Answerable(t) : EmitOutput(t, m)
  BY <1>0, <1>3 DEF memory, ConsumerStep, Skip, Consume, ConsumerAppends, ConsumerEndsRun, ConsumerWrites,
     CompleteForeign, CompleteTurn, EmitOutput
<1>4. CASE AppServerDies \/ MonitorChecks \/ MonitorFails \/ MonitorWrites \/ Restarted
  BY <1>0, <1>4 DEF AppServerDies, MonitorChecks, MonitorFails, MonitorWrites, Restarted, Monitor, Watching
<1>5. CASE \/ \E r \in RunId : SendSteer(r) \/ Poll(r) \/ Scan(r)
           \/ \E m \in MessageId : RepeatSteer(m) \/ SteerTaken(m)
  BY <1>0, <1>5 DEF memory, SendSteer, Poll, Scan, RepeatSteer, SteerTaken, SteerKnown, SteerNew
<1> QED
  BY <1>1, <1>2, <1>3, <1>4, <1>5 DEF Step, CodexStep

\* The ledger has one more entry, or one entry is written by the steer in hand.
LedgerWritten ==
  \/ ledger' = ledger
  \/ \E r \in RunId : SendSteer(r)
  \/ SteerPending /\ op.message \in MessageId
     /\ ledger' = [ledger EXCEPT ![op.message] = [ledger[op.message] EXCEPT !.state = "pending", !.after = active.sequence]]
  \/ SteerRejected /\ op.message \in MessageId /\ ledger' = [ledger EXCEPT ![op.message].state = "rejected"]
  \/ SteerAccepted /\ op.message \in MessageId /\ ledger' = [ledger EXCEPT ![op.message].state = "accepted"]
  \/ MarkRecorded /\ op.message \in MessageId /\ ledger' = [ledger EXCEPT ![op.message].recorded = TRUE]

LEMMA LedgerSteps ==
  ASSUME Base, Step
  PROVE  LedgerWritten
<1>1. CASE StartTurn \/ StartStep \/ Interrupt \/ InterruptStep
  BY <1>1 DEF LedgerWritten, files, StartTurn, StartStep, Interrupt, InterruptStep, ThreadReady, ThreadFails,
     TurnStarts, TurnStartFails, WriteTerminal, TurnStarted, WriteRunning, Announce, TurnInterrupted,
     InterruptFails, Interrupted
<1>2. CASE SteerPending \/ SteerRejected \/ SteerAccepted \/ MarkRecorded
  <2>1. op.message \in MessageId
    BY <1>2, Rows DEF SteerInv, SteerPC, SteerPending, SteerRejected, SteerAccepted, MarkRecorded, Base,
       TypeOK, MemoryTyped
  <2> QED
    BY <1>2, <2>1 DEF LedgerWritten, SteerPending, SteerRejected, SteerAccepted, MarkRecorded, Declared
<1>3. CASE SteerRefused \/ TurnSteered \/ TurnRefusesSteer \/ SteerLost \/ RecordInput \/ Report
  BY <1>3 DEF LedgerWritten, files, SteerRefused, TurnSteered, TurnRefusesSteer, SteerLost, RecordInput, Report
<1>4. CASE ConsumerStep \/ CodexStep \/ MonitorChecks \/ MonitorFails \/ MonitorWrites \/ Restarted
  BY <1>4 DEF LedgerWritten, files, ConsumerStep, CodexStep, Skip, Consume, ConsumerAppends, ConsumerEndsRun,
     ConsumerWrites, CompleteForeign, AppServerDies, CompleteTurn, EmitOutput, MonitorChecks, MonitorFails,
     MonitorWrites, Restarted
<1>5. CASE \/ \E r \in RunId : SendSteer(r) \/ Poll(r) \/ Scan(r)
           \/ \E m \in MessageId : RepeatSteer(m) \/ SteerTaken(m)
  BY <1>5 DEF LedgerWritten, files, SendSteer, Poll, Scan, RepeatSteer, SteerTaken, SteerKnown, SteerNew
<1> QED
  BY <1>1, <1>2, <1>3, <1>4, <1>5 DEF Step, SteerStep

\* What the steer in hand writes into its entry.
LEMMA EntryWritten ==
  ASSUME NEW row \in Delivery, NEW n \in Nat
  PROVE  /\ [row EXCEPT !.state = "pending", !.after = n] \in Delivery
         /\ [row EXCEPT !.state = "pending", !.after = n].after = n
         /\ [row EXCEPT !.state = "pending", !.after = n].state = "pending"
         /\ [row EXCEPT !.state = "pending", !.after = n].recorded = row.recorded
<1>1. [row EXCEPT !.state = "pending", !.after = n] \in Delivery
  BY DEF Delivery
<1> QED
  BY <1>1 DEF Delivery

LEMMA LedgerTyped ==
  ASSUME Base, Step
  PROVE  /\ ledger' \in [MessageId' -> Delivery]
         /\ \A m \in MessageId : \/ ledger'[m].after = ledger[m].after
                                 \/ SteerPending /\ m = op.message /\ ledger'[m].after = active.sequence
         /\ \A m \in MessageId : ledger[m].recorded => ledger'[m].recorded
         /\ \A m \in MessageId' : m \notin MessageId => ledger'[m] = NoDelivery
<1>1. ledger \in [MessageId -> Delivery] /\ active.sequence \in Nat
  BY DEF Base, TypeOK, FilesTyped, MemoryTyped, Active
<1>2. CASE \E r \in RunId : SendSteer(r)
  <2>1. /\ MessageId' = MessageId \cup {Len(message) + 1}
        /\ ledger' \in [MessageId' -> Delivery] /\ ledger'[Len(message) + 1] = NoDelivery
        /\ \A m \in MessageId : ledger'[m] = ledger[m]
    BY <1>2, MessageAdded
  <2> QED
    BY <2>1
<1>3. CASE ~\E r \in RunId : SendSteer(r)
  <2>1. MessageId' = MessageId
    BY <1>3, MessageGrows DEF Base
  <2>2. CASE ledger' = ledger
    BY <1>1, <2>1, <2>2
  <2>3. CASE SteerPending /\ op.message \in MessageId
             /\ ledger' = [ledger EXCEPT ![op.message] = [ledger[op.message] EXCEPT !.state = "pending", !.after = active.sequence]]
    <3>1. PICK e \in Delivery : e = [ledger[op.message] EXCEPT !.state = "pending", !.after = active.sequence]
      BY <1>1, <2>3, EntryWritten
    <3>2. e.after = active.sequence /\ e.recorded = ledger[op.message].recorded
      BY <1>1, <2>3, <3>1, EntryWritten
    <3>3. ledger' = [ledger EXCEPT ![op.message] = e]
      BY <2>3, <3>1
    <3> QED
      BY <1>1, <2>1, <2>3, <3>2, <3>3
  <2>4. CASE /\ op.message \in MessageId
             /\ \/ ledger' = [ledger EXCEPT ![op.message].state = "rejected"]
                \/ ledger' = [ledger EXCEPT ![op.message].state = "accepted"]
                \/ ledger' = [ledger EXCEPT ![op.message].recorded = TRUE]
    <3>1. ledger' \in [MessageId -> Delivery]
      BY <1>1, <2>4, ZenonT(60) DEF Delivery
    <3>2. \A m \in MessageId : ledger'[m].after = ledger[m].after
      BY <1>1, <2>4 DEF Delivery
    <3>3. \A m \in MessageId : ledger[m].recorded => ledger'[m].recorded
      BY <1>1, <2>4 DEF Delivery
    <3> QED
      BY <2>1, <3>1, <3>2, <3>3
  <2> QED
    BY <1>3, <2>2, <2>3, <2>4, LedgerSteps DEF LedgerWritten
<1> QED
  BY <1>2, <1>3

\* A delivery is counted when App Server takes the input.
DeliveredWritten ==
  \/ delivered' = delivered
  \/ \E r \in RunId : SendSteer(r)
  \/ /\ TurnSteered /\ op.message \in MessageId
     /\ delivered' = [delivered EXCEPT ![op.message] = delivered[op.message] + 1]

LEMMA DeliveredSteps ==
  ASSUME Base, Step
  PROVE  DeliveredWritten
<1>1. CASE StartTurn \/ StartStep \/ Interrupt \/ InterruptStep
  BY <1>1 DEF DeliveredWritten, ghosts, StartTurn, StartStep, Interrupt, InterruptStep, ThreadReady, ThreadFails,
     TurnStarts, TurnStartFails, WriteTerminal, TurnStarted, WriteRunning, Announce, TurnInterrupted,
     InterruptFails, Interrupted
<1>2. CASE TurnSteered
  <2>1. op.message \in MessageId
    BY <1>2, Rows DEF SteerInv, SteerPC, TurnSteered, Base, TypeOK, MemoryTyped
  <2> QED
    BY <1>2, <2>1 DEF DeliveredWritten, TurnSteered
<1>3. CASE SteerRefused \/ SteerPending \/ TurnRefusesSteer \/ SteerLost \/ SteerRejected \/ SteerAccepted
           \/ MarkRecorded \/ RecordInput \/ Report
  BY <1>3 DEF DeliveredWritten, ghosts, SteerRefused, SteerPending, TurnRefusesSteer, SteerLost, SteerRejected,
     SteerAccepted, MarkRecorded, RecordInput, Report
<1>4. CASE ConsumerStep \/ CodexStep \/ MonitorChecks \/ MonitorFails \/ MonitorWrites \/ Restarted
  BY <1>4 DEF DeliveredWritten, ghosts, ConsumerStep, CodexStep, Skip, Consume, ConsumerAppends, ConsumerEndsRun,
     ConsumerWrites, CompleteForeign, AppServerDies, CompleteTurn, EmitOutput, MonitorChecks, MonitorFails,
     MonitorWrites, Restarted
<1>5. CASE \/ \E r \in RunId : SendSteer(r) \/ Poll(r) \/ Scan(r)
           \/ \E m \in MessageId : RepeatSteer(m) \/ SteerTaken(m)
  BY <1>5 DEF DeliveredWritten, ghosts, SendSteer, Poll, Scan, RepeatSteer, SteerTaken, SteerKnown, SteerNew
<1> QED
  BY <1>1, <1>2, <1>3, <1>4, <1>5 DEF Step, SteerStep

LEMMA DeliveredTyped ==
  ASSUME Base, Step
  PROVE  /\ delivered' \in [MessageId' -> Nat]
         /\ \A m \in MessageId : \/ delivered'[m] = delivered[m]
                                 \/ TurnSteered /\ m = op.message /\ delivered'[m] = delivered[m] + 1
<1>1. delivered \in [MessageId -> Nat]
  BY DEF Base, TypeOK, ServerTyped
<1>2. CASE \E r \in RunId : SendSteer(r)
  BY <1>2, MessageAdded
<1>3. CASE ~\E r \in RunId : SendSteer(r)
  <2>1. MessageId' = MessageId
    BY <1>3, MessageGrows DEF Base
  <2> QED
    BY <1>1, <1>3, <2>1, DeliveredSteps DEF DeliveredWritten
<1> QED
  BY <1>2, <1>3

\* A run is ended by the completion of a turn that exists.
EndedWritten ==
  \/ ended' = ended
  \/ StartTurn
  \/ ConsumerEndsRun

LEMMA EndedSteps ==
  ASSUME Step
  PROVE  EndedWritten
<1>1. CASE StartStep \/ Interrupt \/ InterruptStep
  BY <1>1 DEF EndedWritten, ghosts, StartStep, Interrupt, InterruptStep, ThreadReady, ThreadFails,
     TurnStarts, TurnStartFails, WriteTerminal, TurnStarted, WriteRunning, Announce, TurnInterrupted,
     InterruptFails, Interrupted
<1>2. CASE SteerStep
  BY <1>2 DEF EndedWritten, ghosts, SteerStep, SteerRefused, SteerPending, TurnSteered, TurnRefusesSteer,
     SteerLost, SteerRejected, SteerAccepted, MarkRecorded, RecordInput, Report
<1>3. CASE Skip \/ Consume \/ ConsumerAppends \/ ConsumerWrites \/ CodexStep \/ MonitorChecks \/ MonitorFails
           \/ MonitorWrites \/ Restarted
  BY <1>3 DEF EndedWritten, ghosts, CodexStep, Skip, Consume, ConsumerAppends,
     ConsumerWrites, CompleteForeign, AppServerDies, CompleteTurn, EmitOutput, MonitorChecks, MonitorFails,
     MonitorWrites, Restarted
<1>4. CASE \/ \E r \in RunId : SendSteer(r) \/ Poll(r) \/ Scan(r)
           \/ \E m \in MessageId : RepeatSteer(m) \/ SteerTaken(m)
  BY <1>4 DEF EndedWritten, ghosts, SendSteer, Poll, Scan, RepeatSteer, SteerTaken, SteerKnown, SteerNew
<1> QED
  BY <1>1, <1>2, <1>3, <1>4 DEF Step, ConsumerStep, EndedWritten

LEMMA EndedTyped ==
  ASSUME Base, Step
  PROVE  ended' \in [RunId' -> SUBSET TurnId']
<1>1. ended \in [RunId -> SUBSET TurnId] /\ TurnId \subseteq TurnId'
  BY TurnGrows DEF Base, TypeOK, ServerTyped
<1>2. CASE StartTurn
  BY <1>1, <1>2, RunAdded
<1>3. CASE ~StartTurn
  <2>1. RunId' = RunId
    BY <1>3, FileGrows DEF Base
  <2>2. CASE ended' = ended
    BY <1>1, <2>1, <2>2
  <2>3. CASE ConsumerEndsRun
    <3>1. consumer.note.turn \in TurnId
      BY <2>3 DEF ConsumerEndsRun, ConsumerIs, Base, NoteInv
    <3>2. ended' = [ended EXCEPT ![active.run] = ended[active.run] \cup {consumer.note.turn}]
      BY <2>3 DEF ConsumerEndsRun
    <3> QED
      BY <1>1, <2>1, <3>1, <3>2
  <2> QED
    BY <1>3, <2>2, <2>3, EndedSteps DEF EndedWritten
<1> QED
  BY <1>2, <1>3

\* The relays: a new one for a new run, a poll, a scan, or all of them asked anew.
RelayWritten ==
  \/ relay' = relay
  \/ StartTurn
  \/ \E r \in RunId : Poll(r) \/ Scan(r)
  \/ Restarted

LEMMA RelaySteps ==
  ASSUME Step
  PROVE  RelayWritten
<1>1. CASE StartStep \/ Interrupt \/ InterruptStep
  BY <1>1 DEF RelayWritten, server, StartStep, Interrupt, InterruptStep, ThreadReady, ThreadFails,
     TurnStarts, TurnStartFails, WriteTerminal, TurnStarted, WriteRunning, Announce, TurnInterrupted,
     InterruptFails, Interrupted
<1>2. CASE SteerStep
  BY <1>2 DEF RelayWritten, server, SteerStep, SteerRefused, SteerPending, TurnSteered, TurnRefusesSteer,
     SteerLost, SteerRejected, SteerAccepted, MarkRecorded, RecordInput, Report
<1>3. CASE ConsumerStep \/ CodexStep \/ MonitorChecks \/ MonitorFails \/ MonitorWrites
  BY <1>3 DEF RelayWritten, server, ConsumerStep, CodexStep, Skip, Consume, ConsumerAppends, ConsumerEndsRun,
     ConsumerWrites, CompleteForeign, AppServerDies, CompleteTurn, EmitOutput, MonitorChecks, MonitorFails,
     MonitorWrites
<1>4. CASE \/ \E r \in RunId : SendSteer(r)
           \/ \E m \in MessageId : RepeatSteer(m) \/ SteerTaken(m)
  BY <1>4 DEF RelayWritten, server, SendSteer, RepeatSteer, SteerTaken, SteerKnown, SteerNew
<1> QED
  BY <1>1, <1>2, <1>3, <1>4 DEF Step, RelayWritten

\* What a poll and a scan write.
PolledRow(row, status) == [row EXCEPT !.pc = "scan", !.status = status, !.locked = TryLock]
ScannedRow(row, got) == [row EXCEPT !.pc = IF row.status \in Terminal THEN "final" ELSE "idle", !.got = got]

LEMMA Polled ==
  ASSUME NEW row \in Relay, NEW status \in Status
  PROVE  /\ PolledRow(row, status) \in Relay
         /\ PolledRow(row, status).pc = "scan" /\ PolledRow(row, status).status = status
         /\ PolledRow(row, status).locked = TryLock /\ PolledRow(row, status).got = row.got
<1> DEFINE new == [row EXCEPT !.pc = "scan", !.status = status, !.locked = TryLock]
<1>1. new \in Relay
  BY DEF Relay, TryLock
<1>2. new.pc = "scan" /\ new.status = status /\ new.got = row.got
  BY DEF Relay
<1>3. new.locked = TryLock
  BY DEF Relay, TryLock
<1> QED
  BY <1>1, <1>2, <1>3 DEF PolledRow

LEMMA Scanned ==
  ASSUME NEW row \in Relay, NEW got \in Nat
  PROVE  /\ ScannedRow(row, got) \in Relay
         /\ ScannedRow(row, got).pc = (IF row.status \in Terminal THEN "final" ELSE "idle")
         /\ ScannedRow(row, got).status = row.status /\ ScannedRow(row, got).got = got
<1> DEFINE pc == IF row.status \in Terminal THEN "final" ELSE "idle"
           new == [row EXCEPT !.pc = pc, !.got = got]
<1>1. pc \in {"final", "idle"}
  OBVIOUS
<1> HIDE DEF pc
<1>2. new \in Relay
  BY <1>1 DEF Relay
<1>3. new.pc = pc /\ new.status = row.status /\ new.got = got
  BY <1>1 DEF Relay
<1> QED
  BY <1>2, <1>3 DEF pc, ScannedRow

\* What a poll, a scan and a restart do to a relay.
LEMMA RelayRows ==
  ASSUME Base, Step
  PROVE  /\ relay' \in [RunId' -> Relay]
         /\ \A r \in RunId :
              \/ relay'[r] = relay[r]
              \/ /\ Poll(r) /\ relay'[r].pc = "scan" /\ relay'[r].status = Seen(r) /\ relay'[r].locked = TryLock
                 /\ relay'[r].got = relay[r].got
              \/ /\ Scan(r) /\ relay'[r].pc = (IF relay[r].status \in Terminal THEN "final" ELSE "idle")
                 /\ relay'[r].status = relay[r].status /\ relay'[r].got = Len(outbox[r])
              \/ /\ Restarted /\ relay[r].pc = "scan" /\ relay'[r].pc = "idle" /\ relay'[r].got = relay[r].got
         /\ \A r \in RunId' : r \notin RunId => relay'[r] = NoPoll
<1>1. /\ relay \in [RunId -> Relay] /\ \A r \in RunId : Len(outbox[r]) \in Nat
      /\ file \in [RunId -> Status]
  BY Rows DEF Base, TypeOK, ServerTyped
<1>2. CASE StartTurn
  <2>1. /\ relay' \in [RunId' -> Relay] /\ relay'[Len(file) + 1] = NoPoll /\ \A r \in RunId : relay'[r] = relay[r]
        /\ RunId' = RunId \cup {Len(file) + 1}
    BY <1>2, RunAdded
  <2> QED
    BY <2>1
<1>3. CASE ~StartTurn
  <2>1. RunId' = RunId
    BY <1>3, FileGrows DEF Base
  <2>2. CASE relay' = relay
    BY <1>1, <2>1, <2>2
  <2>3. ASSUME NEW q \in RunId, Poll(q)
        PROVE  /\ relay' \in [RunId -> Relay] /\ \A r \in RunId : r # q => relay'[r] = relay[r]
               /\ relay'[q].pc = "scan" /\ relay'[q].status = Seen(q) /\ relay'[q].locked = TryLock
               /\ relay'[q].got = relay[q].got
    <3>1. Seen(q) \in Status /\ TryLock \in BOOLEAN
      BY <1>1, <2>3 DEF Seen, Status, TryLock
    <3>2. relay' = [relay EXCEPT ![q] = PolledRow(relay[q], Seen(q))]
      BY <2>3 DEF Poll, PolledRow
    <3>3. relay[q] \in Relay
      BY <1>1
    <3> QED
      BY <1>1, <3>1, <3>2, <3>3, Polled
  <2>4. ASSUME NEW q \in RunId, Scan(q)
        PROVE  /\ relay' \in [RunId -> Relay] /\ \A r \in RunId : r # q => relay'[r] = relay[r]
               /\ relay'[q].pc = (IF relay[q].status \in Terminal THEN "final" ELSE "idle")
               /\ relay'[q].status = relay[q].status /\ relay'[q].got = Len(outbox[q])
    <3>1. Len(outbox[q]) \in Nat
      BY <1>1
    <3>2. relay' = [relay EXCEPT ![q] = ScannedRow(relay[q], Len(outbox[q]))]
      BY <2>4 DEF Scan, ScannedRow
    <3>3. relay[q] \in Relay
      BY <1>1
    <3> QED
      BY <1>1, <3>1, <3>2, <3>3, Scanned
  <2>5. CASE Restarted
    <3>1. relay' = [r \in RunId |-> IF relay[r].pc = "scan" THEN [relay[r] EXCEPT !.pc = "idle"] ELSE relay[r]]
      BY <2>5 DEF Restarted
    <3>2. relay' \in [RunId -> Relay]
      BY <1>1, <3>1 DEF Relay
    <3>3. \A r \in RunId : \/ relay'[r] = relay[r]
                           \/ relay[r].pc = "scan" /\ relay'[r].pc = "idle" /\ relay'[r].got = relay[r].got
      BY <1>1, <3>1 DEF Relay
    <3> QED
      BY <2>1, <2>5, <3>2, <3>3
  <2> QED
    BY <1>3, <2>1, <2>2, <2>3, <2>4, <2>5, RelaySteps DEF RelayWritten
<1> QED
  BY <1>2, <1>3

LEMMA TypesKept ==
  ASSUME Base, ConsumerInv, Step
  PROVE  TypeOK'
<1>1. MemoryTyped'
  BY OperationTyped, ActiveTyped, InputMuTyped, ConsumerTyped, MonitorTyped DEF MemoryTyped
<1>2. FilesTyped'
  BY FileGrows, OutboxGrows, LedgerTyped DEF FilesTyped, Base
<1>3. CodexTyped'
  <2>1. turn' \in Seq(Turn) /\ notes' \in Seq(Note) /\ RunId \subseteq RunId'
    BY TurnGrows, NotesTyped, FileGrows DEF Base
  <2>2. \A t \in TurnId' : turn'[t].run \in RunId'
    <3>1. \A t \in TurnId : turn'[t].run \in RunId'
      BY <2>1, TurnGrows DEF Base, TypeOK, CodexTyped
    <3>2. CASE TurnId' = TurnId
      BY <3>1, <3>2
    <3>3. CASE /\ TurnStarts /\ TurnId' = TurnId \cup {Len(turn) + 1}
               /\ turn'[Len(turn) + 1] = [run |-> op.run, state |-> "running"]
      <4>1. op.run \in RunId
        BY <3>3, Rows DEF TurnStarts, Base, StartInv, TurnPC, TypeOK, MemoryTyped
      <4> QED
        BY <2>1, <3>1, <3>3, <4>1
    <3> QED
      BY <3>2, <3>3, TurnGrows DEF Base
  <2> QED
    BY <2>1, <2>2 DEF CodexTyped
<1>4. ServerTyped'
  <2>1. relay' \in [RunId' -> Relay] /\ message' \in Seq(Message) /\ RunId \subseteq RunId'
        /\ delivered' \in [MessageId' -> Nat] /\ ended' \in [RunId' -> SUBSET TurnId']
    BY RelayRows, MessageGrows, DeliveredTyped, EndedTyped, FileGrows DEF Base
  <2>2. ASSUME NEW r \in RunId' PROVE relay'[r].got <= Len(outbox'[r])
    <3>1. CASE r \notin RunId
      <4>1. relay'[r] = NoPoll /\ outbox'[r] = <<>>
        BY <3>1, RelayRows, OutboxGrows
      <4> QED
        BY <4>1 DEF NoPoll
    <3>2. CASE r \in RunId
      <4>1. /\ relay[r].got <= Len(outbox[r]) /\ Len(outbox[r]) <= Len(outbox'[r])
            /\ Len(outbox[r]) \in Nat /\ Len(outbox'[r]) \in Nat /\ relay[r].got \in Nat
        BY <3>2, OutboxGrows DEF Base, TypeOK, ServerTyped, Relay
      <4>2. relay'[r].got = relay[r].got \/ relay'[r].got = Len(outbox[r])
        BY <3>2, RelayRows
      <4> QED
        BY <4>1, <4>2
    <3> QED
      BY <3>1, <3>2
  <2>3. \A m \in MessageId' : message'[m].run \in RunId'
    <3>1. \A m \in MessageId : message'[m].run \in RunId'
      BY <2>1, MessageGrows DEF Base, TypeOK, ServerTyped
    <3>2. CASE MessageId' = MessageId
      BY <3>1, <3>2
    <3>3. CASE \E r \in RunId : SendSteer(r)
      <4>1. PICK r \in RunId : SendSteer(r)
        BY <3>3
      <4>2. /\ message'[Len(message) + 1] = [run |-> r, attempts |-> 1, answer |-> "waiting"]
            /\ MessageId' = MessageId \cup {Len(message) + 1}
        BY <4>1, MessageAdded
      <4>3. message'[Len(message) + 1].run = r
        BY <4>2
      <4> QED
        BY <2>1, <3>1, <4>2, <4>3
    <3> QED
      BY <3>2, <3>3, MessageGrows DEF Base
  <2> QED
    BY <2>1, <2>2, <2>3 DEF ServerTyped
<1> QED
  BY <1>1, <1>2, <1>3, <1>4 DEF TypeOK

-----------------------------------------------------------------------------
(* What requests, notifications and events refer to.                       *)

\* A turn of a run stays one; only the start of a turn adds one.
LEMMA TurnsOfRuns ==
  ASSUME TypeOK, Step
  PROVE  /\ \A t \in TurnId : t \in TurnId' /\ turn'[t].run = turn[t].run
         /\ \A t \in TurnId' : t \in TurnId \/ (TurnStarts /\ turn'[t].run = op.run)
<1>1. TurnId \subseteq TurnId' /\ \A t \in TurnId : turn'[t].run = turn[t].run
  BY TurnGrows
<1>2. CASE TurnId' = TurnId
  BY <1>1, <1>2
<1>3. CASE /\ TurnStarts /\ TurnId' = TurnId \cup {Len(turn) + 1}
           /\ turn'[Len(turn) + 1] = [run |-> op.run, state |-> "running"]
  BY <1>1, <1>3
<1> QED
  BY <1>2, <1>3, TurnGrows

\* The consumer ends a run for the completion of a turn.
LEMMA EndsRun ==
  ASSUME Base, ConsumerInv, ConsumerEndsRun
  PROVE  /\ consumer.note.type = "completed" /\ consumer.note.status \in Terminal
         /\ active' = [active EXCEPT !.status = consumer.note.status]
<1>1. consumer.todo # <<>> /\ Head(consumer.todo) = "terminal"
  BY DEF ConsumerEndsRun, ConsumerIs
<1>2. consumer.todo \notin {<<>>, <<"append">>}
  BY <1>1
<1> QED
  BY <1>1, <1>2 DEF ConsumerInv, Base, NoteInv, Ends, ConsumerEndsRun, SetTerminal

\* Run 0 never runs.
LEMMA NothingRuns ==
  ASSUME Base, ConsumerInv, Step, active'.run = 0
  PROVE  ~IsRunning(active')
<1>1. active \in Active /\ (active.run = 0 => ~IsRunning(active))
  BY DEF Base, TypeOK, MemoryTyped, StartInv
<1>2. CASE active' = NoRun
  BY <1>2 DEF NoRun, IsRunning
<1>3. CASE ThreadReady
  BY <1>3 DEF ThreadReady, Base, StartInv
<1>4. CASE TurnStarted /\ active' = [active EXCEPT !.turn = Len(turn), !.status = "running"]
  BY <1>1, <1>4 DEF TurnStarted, Base, StartInv, TurnPC, Active
<1>5. ASSUME NEW status \in Terminal, active' = [active EXCEPT !.status = status]
      PROVE  ~IsRunning(active')
  BY <1>1, <1>5 DEF Active, IsRunning, Terminal
<1>6. ASSUME NEW sequence \in Nat, active' = [active EXCEPT !.sequence = sequence]
      PROVE  ~IsRunning(active')
  BY <1>1, <1>6 DEF Active, IsRunning
<1> QED
  BY <1>1, <1>2, <1>3, <1>4, <1>5, <1>6, ActiveSteps, EndsRun DEF ActiveWritten

\* The run in memory is replaced when a thread is ready, and lost with a restart.
LEMMA ActiveStays ==
  ASSUME Base, Step
  PROVE  active'.run = active.run \/ ThreadReady \/ (Restarted /\ active' = NoRun)
<1>1. active \in Active
  BY DEF Base, TypeOK, MemoryTyped
<1>2. ASSUME NEW status, active' = [active EXCEPT !.status = status]
      PROVE  active'.run = active.run
  BY <1>1, <1>2 DEF Active
<1>3. ASSUME NEW sequence, active' = [active EXCEPT !.sequence = sequence]
      PROVE  active'.run = active.run
  BY <1>1, <1>3 DEF Active
<1>4. ASSUME active' = [active EXCEPT !.turn = Len(turn), !.status = "running"]
      PROVE  active'.run = active.run
  BY <1>1, <1>4 DEF Active
<1> QED
  BY <1>2, <1>3, <1>4, ActiveSteps DEF ActiveWritten

\* Only the run in memory and that of the steer in hand get events.
LEMMA EventsOf ==
  ASSUME Base, Step, NEW r \in RunId, r # active.run, ~(RecordInput /\ r = op.run)
  PROVE  outbox'[r] = outbox[r]
<1>1. ASSUME NEW q \in RunId, NEW type \in EventType, NEW of \in Nat, Added(q, type, of), q # r
      PROVE  outbox'[r] = outbox[r]
  BY <1>1, AddedEvent
<1>2. op.message \in Nat /\ consumer.note.type \in EventType /\ consumer.note.of \in Nat
  BY DEF Base, TypeOK, MemoryTyped, Operation, Consumer, Note, EventType
<1>3. CASE StartTurn
  BY <1>3, RunAdded
<1> QED
  BY <1>1, <1>2, <1>3, OutboxSteps DEF OutboxWritten, EventType

\* What a step does to the request in hand, when it does not start, interrupt or steer.
LEMMA OperationElse ==
  ASSUME Step
  PROVE  \/ op' = op \/ op' = Free
         \/ StartTurn \/ StartStep \/ Interrupt \/ InterruptStep \/ SteerStep
         \/ op.pc = "idle" /\ \E r \in RunId : Poll(r) /\ op' = Request("poll", r, 0)
         \/ \E m \in MessageId : SteerTaken(m)
<1>1. CASE ConsumerStep \/ CodexStep \/ MonitorChecks \/ MonitorFails \/ MonitorWrites \/ Restarted
           \/ \E m \in MessageId : RepeatSteer(m)
  BY <1>1 DEF memory, ConsumerStep, CodexStep, Skip, Consume, ConsumerAppends, ConsumerEndsRun,
       ConsumerWrites, CompleteForeign, AppServerDies, CompleteTurn, EmitOutput, MonitorChecks,
       MonitorFails, MonitorWrites, Restarted, RepeatSteer
<1>2. CASE \E r \in RunId : SendSteer(r) \/ Poll(r) \/ Scan(r)
  BY <1>2 DEF memory, SendSteer, Poll, TryLock, Scan
<1> QED
  BY <1>1, <1>2 DEF Step

LEMMA StartKept ==
  ASSUME Base, ConsumerInv, Step
  PROVE  StartInv'
<1>0. active'.run = 0 => ~IsRunning(active')
  BY NothingRuns
<1>a. op \in Operation /\ StartInv /\ active \in Active
  BY DEF Base, TypeOK, MemoryTyped
<1>b. ASSUME op'.pc \notin TurnPC \cup {"resume"}
      PROVE  StartInv'
  BY <1>0, <1>b DEF StartInv, TurnPC, IsRunning
<1>1. CASE op' = Free
  BY <1>1, <1>b DEF Free, Request, TurnPC
<1>2. CASE StartTurn
  <2>1. /\ op'.pc = "resume" /\ op'.run = Len(file) + 1 /\ outbox'[Len(file) + 1] = <<>>
        /\ active' = active /\ Len(file) \in Nat /\ turn' = turn
    BY <1>2, RunAdded DEF StartTurn, Request, codex
  <2>2. active.run # Len(file) + 1
    BY <2>1 DEF Base, TypeOK, MemoryTyped
  <2>3. \A t \in TurnId : turn[t].run # Len(file) + 1
    BY <2>1, Rows DEF Base, TypeOK, CodexTyped
  <2>4. \A t \in TurnId' : turn'[t].run # op'.run
    BY <2>1, <2>3 DEF TurnId
  <2>5. (op'.pc \notin TurnPC) /\ op'.run # 0 /\ active'.run # op'.run /\ outbox'[op'.run] = <<>>
    BY <2>1, <2>2 DEF TurnPC
  <2> QED
    BY <1>0, <2>4, <2>5 DEF StartInv, IsRunning
<1>3. CASE ThreadReady
  <2>1. op'.pc = "call" /\ op'.run = op.run /\ active'.run = op.run /\ op.pc = "resume" /\ turn' = turn
    BY <1>a, <1>3 DEF ThreadReady, Operation, codex
  <2> QED
    BY <1>0, <1>a, <2>1 DEF StartInv, TurnPC, IsRunning, TurnId
<1>4. CASE TurnStarts \/ TurnStartFails("failed") \/ TurnStartFails("unknown") \/ TurnStarted \/ WriteRunning
           \/ TurnInterrupted \/ Interrupted
  <2>1. /\ op'.pc \in TurnPC \ {"call"} /\ op'.run = op.run /\ op.pc \in TurnPC /\ active'.run = active.run
    BY <1>a, <1>4 DEF TurnStarts, TurnStartFails, TurnStarted, WriteRunning, TurnInterrupted, Interrupted,
       Operation, Active, TurnPC, SetTerminal
  <2> QED
    BY <1>0, <1>a, <2>1 DEF StartInv, TurnPC, IsRunning
<1>5. CASE ThreadFails \/ WriteTerminal \/ Announce \/ InterruptFails
  BY <1>1, <1>5 DEF ThreadFails, WriteTerminal, Announce, InterruptFails
<1>6. CASE Interrupt
  <2>1. op'.pc = "interrupt" /\ op'.run = active.run /\ active' = active /\ active.run # 0
    BY <1>a, <1>6 DEF Interrupt, Request, StartInv
  <2> QED
    BY <1>0, <2>1 DEF StartInv, TurnPC, IsRunning
<1>7. CASE SteerStep
  <2>1. op' = Free \/ op'.pc \in SteerPC
    BY <1>a, <1>7 DEF SteerStep, SteerRefused, SteerPending, TurnSteered, TurnRefusesSteer, SteerRejected,
       SteerLost, SteerAccepted, RecordInput, MarkRecorded, Report, Answered, Operation, SteerPC
  <2> QED
    BY <1>1, <1>b, <2>1 DEF SteerPC, TurnPC
<1>8. CASE \E r \in RunId : op' = Request("poll", r, 0)
  BY <1>8, <1>b DEF Request, TurnPC
<1>9. CASE \E m \in MessageId : SteerTaken(m)
  <2>1. op' = Free \/ op'.pc \in {"record", "lock"}
    BY <1>9 DEF SteerTaken, SteerKnown, SteerNew, Answered, Request, Repetition
  <2> QED
    BY <1>1, <1>b, <2>1 DEF TurnPC
<1>10. CASE op' = op /\ ~StartStep /\ ~SteerStep /\ ~Restarted
  <2>1. active'.run = active.run
    BY <1>10, ActiveStays DEF StartStep
  <2>2. op.pc \in {"resume", "call"} => \A t \in TurnId' : turn'[t].run # op.run
    BY <1>a, <1>10, TurnsOfRuns DEF StartStep, StartInv, Base
  <2>3. op.pc = "resume" => outbox'[op.run] = <<>>
    <3>1. CASE op.pc = "resume"
      <4>1. op.run \in RunId /\ op.run # active.run
        BY <1>a, <3>1, Rows DEF StartInv, Base, TypeOK, MemoryTyped
      <4> QED
        BY <1>a, <1>10, <3>1, <4>1, EventsOf DEF StartInv, SteerStep
    <3> QED
      BY <3>1
  <2> QED
    BY <1>0, <1>a, <1>10, <2>1, <2>2, <2>3 DEF StartInv, IsRunning
<1>11. CASE Restarted
  BY <1>1, <1>11 DEF Restarted
<1> QED
  BY <1>1, <1>2, <1>3, <1>4, <1>5, <1>6, <1>7, <1>8, <1>9, <1>10, <1>11, OperationElse DEF StartStep, InterruptStep

\* The request in hand moves on.
Moved(pc) == op'.pc = pc /\ op'.run = op.run /\ op'.message = op.message /\ op'.again = op.again

\* What a step does to the request in hand, seen from a steer.
SteerMoved ==
  \/ SteerPending /\ op.pc = "lock" /\ Moved("steer")
  \/ TurnSteered /\ op.pc = "steer" /\ Moved("steered")
  \/ TurnRefusesSteer /\ op.pc = "steer" /\ Moved("refused")
  \/ SteerAccepted /\ op.pc = "steered" /\ Moved("record")
  \/ RecordInput /\ op.pc = "record" /\ (Moved("report") \/ Moved("mark"))
  \/ MarkRecorded /\ op.pc = "mark" /\ Moved("report")

Taken(m) ==
  /\ op.pc = "idle" /\ message[m].answer = "waiting"
  /\ \/ SteerNew(m) /\ ledger[m].state = "none" /\ op' = Request("lock", message[m].run, m)
     \/ SteerKnown(m) /\ ledger[m].state = "accepted" /\ op' = Repetition(message[m].run, m)
  /\ UNCHANGED message

OperationMoved ==
  \/ op' = op /\ ~SteerStep
  \/ op' = Free
  \/ op.pc \notin SteerPC /\ op'.pc \notin SteerPC /\ ~op'.again /\ ~SteerStep
  \/ SteerMoved
  \/ \E m \in MessageId : Taken(m)

LEMMA OperationMoves ==
  ASSUME Base, Step
  PROVE  OperationMoved
<1>0. op \in Operation /\ (op.again => op.pc \in RecordPC)
  BY DEF Base, TypeOK, MemoryTyped, SteerInv
<1>1. CASE StartTurn \/ Interrupt
  <2>1. op'.pc \in {"resume", "interrupt"} /\ ~op'.again /\ op.pc = "idle"
    BY <1>1 DEF StartTurn, Interrupt, Request
  <2>2. ~SteerStep
    BY <2>1 DEF SteerStep, SteerRefused, SteerPending, TurnSteered, TurnRefusesSteer, SteerRejected,
       SteerLost, SteerAccepted, RecordInput, MarkRecorded, Report
  <2> QED
    BY <2>1, <2>2 DEF OperationMoved, SteerPC
<1>2. CASE StartStep \/ InterruptStep
  <2>1. op.pc \in TurnPC \cup {"resume"}
    BY <1>2 DEF TurnPC, StartStep, ThreadReady, ThreadFails, TurnStarts,
     TurnStartFails, WriteTerminal, TurnStarted, WriteRunning, Announce, InterruptStep, TurnInterrupted,
     InterruptFails, Interrupted
  <2>2. \/ op' = Free
        \/ op'.pc \in TurnPC \cup {"resume"} /\ op'.again = op.again
    BY <1>0, <1>2 DEF Operation, TurnPC, StartStep, ThreadReady, ThreadFails, TurnStarts,
     TurnStartFails, WriteTerminal, TurnStarted, WriteRunning, Announce, InterruptStep, TurnInterrupted,
     InterruptFails, Interrupted
  <2>3. ~SteerStep
    BY <2>1 DEF SteerStep, SteerRefused, SteerPending, TurnSteered, TurnRefusesSteer, SteerRejected,
       SteerLost, SteerAccepted, RecordInput, MarkRecorded, Report, TurnPC
  <2>4. ~op.again
    BY <1>0, <2>1 DEF TurnPC, RecordPC
  <2> QED
    BY <2>1, <2>2, <2>3, <2>4 DEF OperationMoved, SteerPC, TurnPC
<1>3. CASE SteerRefused \/ SteerRejected \/ SteerLost \/ Report
  BY <1>3 DEF SteerRefused, SteerRejected, SteerLost, Report, Answered, OperationMoved
<1>4. CASE SteerPending \/ TurnSteered \/ TurnRefusesSteer \/ SteerAccepted \/ RecordInput \/ MarkRecorded
  <2>1. ASSUME NEW pc, op' = [op EXCEPT !.pc = pc]
        PROVE  Moved(pc)
    BY <1>0, <2>1 DEF Operation, Moved
  <2>2. SteerMoved
    BY <1>4, <2>1 DEF SteerMoved, SteerPending, TurnSteered, TurnRefusesSteer, SteerAccepted, RecordInput, MarkRecorded
  <2> QED
    BY <2>2 DEF OperationMoved
<1>5. CASE \E m \in MessageId : SteerTaken(m)
  <2>1. PICK m \in MessageId : SteerTaken(m)
    BY <1>5
  <2>2. op' = Free \/ Taken(m)
    BY <2>1 DEF SteerTaken, SteerKnown, SteerNew, Answered, Taken, server
  <2> QED
    BY <2>2 DEF OperationMoved
<1>6. CASE op.pc = "idle" /\ \E r \in RunId : Poll(r) /\ op' = Request("poll", r, 0)
  <2>1. op'.pc = "poll" /\ ~op'.again /\ op.pc = "idle"
    BY <1>6 DEF Request
  <2>2. ~SteerStep
    BY <2>1 DEF SteerStep, SteerRefused, SteerPending, TurnSteered, TurnRefusesSteer, SteerRejected,
       SteerLost, SteerAccepted, RecordInput, MarkRecorded, Report
  <2> QED
    BY <2>1, <2>2 DEF OperationMoved, SteerPC
<1>7. CASE op' = Free \/ (op' = op /\ ~SteerStep)
  BY <1>7 DEF OperationMoved
<1> QED
  BY <1>1, <1>2, <1>3, <1>4, <1>5, <1>6, <1>7, OperationElse DEF SteerStep

\* What a step does to a message.
Answering(m, answer) ==
  op' = Free /\ message[m].answer = "waiting" /\ message'[m].answer = answer
  /\ message'[m].attempts = message[m].attempts

MessageMoved(m) ==
  \/ message'[m] = message[m]
  \/ /\ RepeatSteer(m) /\ message[m].answer = "unknown" /\ message'[m].answer = "waiting"
     /\ message'[m].attempts = message[m].attempts + 1
  \/ Answering(m, "unknown")
  \/ /\ Answering(m, "refused")
     /\ \/ (SteerRefused \/ SteerRejected) /\ m = op.message
        \/ SteerKnown(m) /\ ledger[m].state = "rejected"
  \/ Answering(m, "ok") /\ Report /\ m = op.message

LEMMA MessageMoves ==
  ASSUME Base, Step, NEW m \in MessageId
  PROVE  MessageMoved(m)
<1>1. message \in [MessageId -> Message]
  BY Rows DEF Base
<1>2. CASE \E r \in RunId : SendSteer(r)
  BY <1>2, MessageAdded DEF MessageMoved
<1>3. CASE \E k \in MessageId : RepeatSteer(k)
  <2>1. PICK k \in MessageId : RepeatSteer(k)
    BY <1>3
  <2>2. message' = [message EXCEPT ![k] = [message[k] EXCEPT !.attempts = message[k].attempts + 1, !.answer = "waiting"]]
        /\ message[k].answer = "unknown"
    BY <2>1 DEF RepeatSteer
  <2>3. message[k] \in Message
    BY <1>1
  <2>4. m = k => /\ message'[m].answer = "waiting"
                 /\ message'[m].attempts = message[m].attempts + 1
    BY <1>1, <2>2, <2>3, RepeatedType
  <2> QED
    BY <1>1, <2>1, <2>2, <2>4 DEF MessageMoved
<1>4. CASE Restarted
  <2>1. /\ \/ message'[m] = message[m]
           \/ message[m].answer = "waiting" /\ message'[m] = [message[m] EXCEPT !.answer = "unknown"]
        /\ op' = Free
    BY <1>4 DEF Restarted
  <2> QED
    BY <1>1, <2>1 DEF MessageMoved, Answering, Message
<1>5. ASSUME NEW k \in MessageId, NEW answer, Answered(k, answer)
      PROVE  \/ message'[m] = message[m]
             \/ m = k /\ op' = Free /\ message'[m].answer = answer /\ message'[m].attempts = message[m].attempts
  BY <1>1, <1>5 DEF Answered, Message
<1>6. CASE SteerRefused \/ SteerRejected \/ SteerLost \/ Report
  <2>1. op.message \in MessageId /\ message[op.message].answer = "waiting"
    BY <1>6, Rows DEF Base, SteerInv, SteerPC, SteerRefused, SteerRejected, SteerLost, Report, TypeOK, MemoryTyped
  <2>2. \/ Answered(op.message, "unknown")
        \/ (SteerRefused \/ SteerRejected) /\ Answered(op.message, "refused")
        \/ Report /\ Answered(op.message, "ok")
    BY <1>6 DEF SteerRefused, SteerRejected, SteerLost, Report, UnknownAnswer
  <2> QED
    BY <2>1, <2>2, <1>5 DEF MessageMoved, Answering
<1>7. CASE \E k \in MessageId : SteerTaken(k)
  <2>1. PICK k \in MessageId : SteerTaken(k)
    BY <1>7
  <2>2. \/ message' = message
        \/ message[k].answer = "waiting" /\ Answered(k, "unknown")
        \/ message[k].answer = "waiting" /\ Answered(k, "refused") /\ SteerKnown(k) /\ ledger[k].state = "rejected"
    BY <2>1 DEF SteerTaken, SteerKnown, SteerNew, server
  <2> QED
    BY <2>1, <2>2, <1>5 DEF MessageMoved, Answering
<1>8. CASE message' = message
  BY <1>8 DEF MessageMoved
<1> QED
  BY <1>2, <1>3, <1>4, <1>6, <1>7, <1>8, MessageSteps DEF MessageWritten, Base

\* What a step does to the ledger entry of a message.
LedgerMoved(m) ==
  \/ ledger'[m] = ledger[m]
  \/ /\ SteerPending /\ m = op.message /\ ledger'[m].state = "pending"
     /\ ledger'[m].after = active.sequence /\ ledger'[m].recorded = ledger[m].recorded
  \/ /\ SteerRejected /\ m = op.message /\ ledger'[m].state = "rejected"
     /\ ledger'[m].after = ledger[m].after /\ ledger'[m].recorded = ledger[m].recorded
  \/ /\ SteerAccepted /\ m = op.message /\ ledger'[m].state = "accepted"
     /\ ledger'[m].after = ledger[m].after /\ ledger'[m].recorded = ledger[m].recorded
  \/ /\ MarkRecorded /\ m = op.message /\ ledger'[m].state = ledger[m].state
     /\ ledger'[m].after = ledger[m].after /\ ledger'[m].recorded

LEMMA LedgerMoves ==
  ASSUME Base, Step, NEW m \in MessageId
  PROVE  LedgerMoved(m)
<1>1. ledger \in [MessageId -> Delivery] /\ active.sequence \in Nat
  BY DEF Base, TypeOK, FilesTyped, MemoryTyped, Active
<1>2. CASE \E r \in RunId : SendSteer(r)
  BY <1>2, MessageAdded DEF LedgerMoved
<1>3. CASE SteerPending /\ op.message \in MessageId
           /\ ledger' = [ledger EXCEPT ![op.message] = [ledger[op.message] EXCEPT !.state = "pending", !.after = active.sequence]]
  <2>1. /\ [ledger[op.message] EXCEPT !.state = "pending", !.after = active.sequence].after = active.sequence
        /\ [ledger[op.message] EXCEPT !.state = "pending", !.after = active.sequence].state = "pending"
        /\ [ledger[op.message] EXCEPT !.state = "pending", !.after = active.sequence].recorded = ledger[op.message].recorded
    BY <1>1, <1>3, EntryWritten
  <2> QED
    BY <1>1, <1>3, <2>1 DEF LedgerMoved
<1>4. CASE SteerRejected /\ op.message \in MessageId /\ ledger' = [ledger EXCEPT ![op.message].state = "rejected"]
  BY <1>1, <1>4 DEF LedgerMoved, Delivery
<1>5. CASE SteerAccepted /\ op.message \in MessageId /\ ledger' = [ledger EXCEPT ![op.message].state = "accepted"]
  BY <1>1, <1>5 DEF LedgerMoved, Delivery
<1>6. CASE MarkRecorded /\ op.message \in MessageId /\ ledger' = [ledger EXCEPT ![op.message].recorded = TRUE]
  BY <1>1, <1>6 DEF LedgerMoved, Delivery
<1>7. CASE ledger' = ledger
  BY <1>7 DEF LedgerMoved
<1> QED
  BY <1>2, <1>3, <1>4, <1>5, <1>6, <1>7, LedgerSteps DEF LedgerWritten

\* Event e is added to run r.
EventAdded(r, e) ==
  /\ Len(outbox[r]) \in Nat /\ Len(outbox'[r]) = Len(outbox[r]) + 1
  /\ \A n \in 1..Len(outbox[r]) : outbox'[r][n] = outbox[r][n]
  /\ outbox'[r][Len(outbox[r]) + 1] = e
  /\ \A q \in RunId : q # r => outbox'[q] = outbox[q]

EventOf(r, type, of) == [sequence |-> Len(outbox[r]) + 1, type |-> type, of |-> of]

\* What a step does to the events of the runs there are.
OutboxMoved ==
  \/ \A r \in RunId : outbox'[r] = outbox[r]
  \/ Announce /\ active.run = op.run /\ op.run \in RunId /\ EventAdded(op.run, EventOf(op.run, "started", 0))
  \/ /\ RecordInput /\ op.run \in RunId /\ op.message \in MessageId /\ ~HasInput(op.run, op.message)
     /\ ~ledger[op.message].recorded /\ EventAdded(op.run, EventOf(op.run, "input", op.message))
  \/ /\ Report /\ active.run = op.run /\ op.run \in RunId
     /\ EventAdded(op.run, EventOf(op.run, "steered", op.message))
  \/ /\ ConsumerAppends /\ active.run = consumer.run /\ consumer.run \in RunId
     /\ EventAdded(consumer.run, EventOf(consumer.run, consumer.note.type, consumer.note.of))

LEMMA OutboxMoves ==
  ASSUME Base, Step
  PROVE  OutboxMoved
<1>1. CASE StartTurn
  BY <1>1, RunAdded DEF OutboxMoved
<1>2. op.message \in Nat /\ consumer.note.type \in EventType /\ consumer.note.of \in Nat
  BY DEF Base, TypeOK, MemoryTyped, Operation, Consumer, Note, EventType
<1>3. ASSUME NEW r \in RunId, NEW type \in EventType, NEW of \in Nat, Added(r, type, of)
      PROVE  EventAdded(r, EventOf(r, type, of))
  BY <1>3, AddedEvent DEF EventAdded, EventOf
<1>4. {"started", "input", "steered"} \subseteq EventType
  BY DEF EventType
<1> QED
  BY <1>1, <1>2, <1>3, <1>4, OutboxSteps DEF OutboxWritten, OutboxMoved

-----------------------------------------------------------------------------
LEMMA SteerKept ==
  ASSUME Base, Step
  PROVE  SteerInv'
<1>1. /\ SteerInv /\ op \in Operation
      /\ op.pc \in SteerPC => op.message \in MessageId
  BY Rows DEF Base, SteerInv, SteerPC, TypeOK, MemoryTyped
<1>2. \A m \in MessageId' : \E t \in TurnId' : turn'[t].run = message'[m].run
  <2>1. ASSUME NEW r, HasTurn(r) PROVE \E t \in TurnId' : turn'[t].run = r
    BY <2>1, TurnsOfRuns DEF HasTurn, Base
  <2>2. \A m \in MessageId : \E t \in TurnId' : turn'[t].run = message'[m].run
    <3>1. \A m \in MessageId : \E t \in TurnId' : turn'[t].run = message[m].run
      BY <1>1, <2>1 DEF SteerInv
    <3> QED
      BY <3>1, MessageGrows DEF Base
  <2>3. CASE \E r \in RunId : SendSteer(r)
    <3>1. PICK r \in RunId : SendSteer(r)
      BY <2>3
    <3>2. HasTurn(r)
      BY <3>1 DEF SendSteer, HasTurn
    <3>3. /\ MessageId' = MessageId \cup {Len(message) + 1}
          /\ message'[Len(message) + 1] = [run |-> r, attempts |-> 1, answer |-> "waiting"]
      BY <3>1, MessageAdded
    <3>4. message'[Len(message) + 1].run = r
      BY <3>3
    <3> QED
      BY <2>1, <2>2, <3>2, <3>3, <3>4
  <2>4. CASE MessageId' = MessageId
    BY <2>2, <2>4
  <2> QED
    BY <2>3, <2>4, MessageGrows DEF Base
<1>3. ASSUME op.pc \in SteerPC, op'.message = op.message, op'.run = op.run, op' # Free
      PROVE  op'.message # 0 /\ op'.run = message'[op'.message].run /\ message'[op'.message].answer = "waiting"
  <2>1. message'[op.message].run = message[op.message].run
    BY <1>1, <1>3, MessageGrows DEF Base
  <2>2. message'[op.message].answer = "waiting"
    BY <1>1, <1>3, MessageMoves DEF MessageMoved, Answering, SteerInv
  <2> QED
    BY <1>1, <1>3, <2>1, <2>2 DEF SteerInv
<1>4. CASE op' = op
  <2>1. op.pc \in SteerPC => op # Free
    BY DEF SteerPC, Free, Request
  <2> QED
    BY <1>1, <1>2, <1>3, <1>4, <2>1 DEF SteerInv, HasTurn
<1>5. CASE op' = Free
  BY <1>2, <1>5 DEF SteerInv, Free, Request, SteerPC, HasTurn
<1>6. CASE op'.pc \notin SteerPC /\ ~op'.again
  BY <1>2, <1>6 DEF SteerInv, HasTurn
<1>7. CASE SteerMoved
  <2>1. op.pc \in SteerPC /\ op'.pc \in SteerPC /\ op'.run = op.run /\ op'.message = op.message /\ op'.again = op.again
    BY <1>7 DEF SteerMoved, Moved, SteerPC
  <2>2. op.again => op'.pc \in RecordPC
    BY <1>1, <1>7 DEF SteerMoved, Moved, SteerInv, RecordPC
  <2>3. op' # Free
    BY <2>1 DEF SteerPC, Free, Request
  <2> QED
    BY <1>2, <1>3, <2>1, <2>2, <2>3 DEF SteerInv, HasTurn
<1>8. CASE \E m \in MessageId : Taken(m)
  <2>1. PICK m \in MessageId : Taken(m)
    BY <1>8
  <2>2. m \in Nat \ {0} /\ message' = message /\ message[m].answer = "waiting"
    BY <2>1, Rows DEF Taken, Base
  <2>3. op'.run = message[m].run /\ op'.message = m /\ (op'.again => op'.pc \in RecordPC)
    BY <2>1 DEF Taken, Request, Repetition, RecordPC
  <2> QED
    BY <1>2, <2>2, <2>3 DEF SteerInv, HasTurn
<1> QED
  BY <1>4, <1>5, <1>6, <1>7, <1>8, OperationMoves DEF OperationMoved

\* A steer in hand is answered, or lost with a restart.
LEMMA Freed ==
  ASSUME Base, PollInv, Step, op' = Free, op.pc \in SteerPC
  PROVE  SteerRefused \/ SteerRejected \/ SteerLost \/ Report \/ Restarted
<1>0. op.pc # "idle" /\ op # Free /\ (op.pc \notin TurnPC) /\ op.pc # "resume" /\ op.pc # "poll"
  BY DEF SteerPC, Free, Request, TurnPC
<1>1. ~(StartTurn \/ StartStep \/ Interrupt \/ InterruptStep)
  BY <1>0 DEF TurnPC, StartTurn, StartStep, Interrupt, InterruptStep, ThreadReady, ThreadFails, TurnStarts,
     TurnStartFails, WriteTerminal, TurnStarted, WriteRunning, Announce, TurnInterrupted, InterruptFails,
     Interrupted
<1>2. ~(ConsumerStep \/ CodexStep \/ MonitorChecks \/ MonitorFails \/ MonitorWrites)
  BY <1>0 DEF memory, ConsumerStep, CodexStep, Skip, Consume, ConsumerAppends, ConsumerEndsRun,
     ConsumerWrites, CompleteForeign, AppServerDies, CompleteTurn, EmitOutput, MonitorChecks,
     MonitorFails, MonitorWrites
<1>3. ~((\E m \in MessageId : RepeatSteer(m) \/ SteerTaken(m)) \/ \E r \in RunId : SendSteer(r) \/ Poll(r))
  BY <1>0 DEF memory, RepeatSteer, SteerTaken, SteerKnown, SteerNew, SendSteer, Poll, TryLock
<1>4. ~\E r \in RunId : Scan(r)
  BY <1>0 DEF Scan, PollInv
<1>5. ASSUME NEW pc \in {"steer", "steered", "refused", "record", "mark", "report"}, op' = [op EXCEPT !.pc = pc]
      PROVE  FALSE
  <2>1. op'.pc = pc /\ op'.pc = "idle"
    BY <1>5 DEF Free, Request, Base, TypeOK, MemoryTyped, Operation
  <2> QED
    BY <2>1
<1>6. ~(SteerPending \/ TurnSteered \/ TurnRefusesSteer \/ SteerAccepted \/ RecordInput \/ MarkRecorded)
  BY <1>5 DEF SteerPending, TurnSteered, TurnRefusesSteer, SteerAccepted, RecordInput, MarkRecorded
<1> QED
  BY <1>1, <1>2, <1>3, <1>4, <1>6 DEF Step, SteerStep

\* The number of the last event that the run in memory knows.
SequenceMoved ==
  \/ active'.sequence = active.sequence /\ \A r \in RunId : outbox'[r] = outbox[r]
  \/ RecordInput /\ active' = active
  \/ MarkRecorded
  \/ /\ Announce \/ Report \/ ConsumerAppends
     /\ active'.sequence = active.sequence + 1 /\ Unlocked
     /\ active.run # 0 => active.run \in RunId /\ Len(outbox'[active.run]) = Len(outbox[active.run]) + 1
  \/ ThreadReady
  \/ Restarted

LEMMA SequenceMoves ==
  ASSUME Base, Step
  PROVE  SequenceMoved
<1>0. active \in Active
  BY DEF Base, TypeOK, MemoryTyped
<1>1. ASSUME NEW r, NEW type \in EventType, NEW of \in Nat, Unlocked, Appended(r, type, of),
             Announce \/ Report \/ ConsumerAppends
      PROVE  SequenceMoved
  <2>1. CASE active.run # r /\ UNCHANGED <<active, outbox>>
    BY <2>1 DEF SequenceMoved
  <2>2. CASE active.run = r /\ r = 0 /\ active' = [active EXCEPT !.sequence = @ + 1]
    <3>1. active'.sequence = active.sequence + 1
      BY <1>0, <2>2 DEF Active
    <3> QED
      BY <1>1, <2>2, <3>1 DEF SequenceMoved
  <2>3. CASE /\ active.run = r /\ r \in RunId
             /\ active' = [active EXCEPT !.sequence = @ + 1]
             /\ Added(r, type, of)
    <3>1. active'.sequence = active.sequence + 1
      BY <1>0, <2>3 DEF Active
    <3>2. Len(outbox'[r]) = Len(outbox[r]) + 1
      BY <1>1, <2>3, AddedEvent
    <3> QED
      BY <1>1, <2>3, <3>1, <3>2 DEF SequenceMoved
  <2> QED
    BY <1>1, <2>1, <2>2, <2>3, AppendedIsAdded
<1>2. CASE Announce \/ Report \/ ConsumerAppends
  <2>1. Unlocked
    BY <1>2 DEF Announce, Report, ConsumerAppends, Unlocked
  <2>2. {"started", "steered"} \subseteq EventType /\ op.message \in Nat /\ 0 \in Nat
        /\ consumer.note.type \in EventType /\ consumer.note.of \in Nat
    BY DEF Base, TypeOK, MemoryTyped, Operation, Consumer, Note, EventType
  <2>3. \/ Appended(op.run, "started", 0)
        \/ Appended(op.run, "steered", op.message)
        \/ Appended(consumer.run, consumer.note.type, consumer.note.of)
        \/ UNCHANGED <<active, outbox>>
    BY <1>2 DEF Announce, Report, ConsumerAppends
  <2>4. CASE UNCHANGED <<active, outbox>>
    BY <2>4 DEF SequenceMoved
  <2> QED
    BY <1>1, <1>2, <2>1, <2>2, <2>3, <2>4
<1>3. CASE RecordInput \/ MarkRecorded \/ ThreadReady \/ Restarted
  BY <1>3 DEF SequenceMoved, RecordInput
<1>4. CASE ~(Announce \/ Report \/ ConsumerAppends \/ RecordInput \/ MarkRecorded \/ ThreadReady \/ Restarted)
  <2>1. \A r \in RunId : outbox'[r] = outbox[r]
    BY <1>4, OutboxMoves DEF OutboxMoved
  <2>2. ASSUME NEW status, active' = [active EXCEPT !.status = status]
        PROVE  active'.sequence = active.sequence
    BY <1>0, <2>2 DEF Active
  <2>3. ASSUME active' = [active EXCEPT !.turn = Len(turn), !.status = "running"]
        PROVE  active'.sequence = active.sequence
    BY <1>0, <2>3 DEF Active
  <2>4. active'.sequence = active.sequence
    BY <1>4, <2>2, <2>3, ActiveSteps DEF ActiveWritten
  <2> QED
    BY <2>1, <2>4 DEF SequenceMoved
<1> QED
  BY <1>2, <1>3, <1>4

LEMMA NumberKept ==
  ASSUME Base, PollInv, Step
  PROVE  NumberInv'
<1>1. \A r \in RunId' : \A n \in 1..Len(outbox'[r]) : outbox'[r][n].sequence = n
  BY Numbered
<1>2. \A r \in RunId : Len(outbox[r]) \in Nat /\ Len(outbox'[r]) \in Nat /\ Len(outbox[r]) <= Len(outbox'[r])
  BY OutboxGrows
<1>3. \A m \in MessageId' : ledger'[m].after <= Len(outbox'[message'[m].run])
  <2>1. ASSUME NEW m \in MessageId PROVE ledger'[m].after <= Len(outbox'[message'[m].run])
    <3>1. message'[m].run = message[m].run /\ message[m].run \in RunId /\ ledger[m].after \in Nat
          /\ active.sequence \in Nat
      BY MessageGrows DEF Base, TypeOK, ServerTyped, FilesTyped, Delivery, MemoryTyped, Active
    <3>2. CASE ledger'[m].after = ledger[m].after
      <4>1. ledger[m].after <= Len(outbox[message[m].run])
        BY DEF Base, NumberInv
      <4> QED
        BY <1>2, <3>1, <3>2, <4>1
    <3>3. CASE SteerPending /\ m = op.message /\ ledger'[m].after = active.sequence
      <4>1. active.run = op.run /\ op.run = message[m].run /\ active.run # 0
        BY <3>1, <3>3, Rows DEF SteerPending, Matches, Base, SteerInv, SteerPC
      <4>2. active.sequence <= Len(outbox[active.run])
        BY <4>1 DEF Base, NumberInv
      <4> QED
        BY <1>2, <3>1, <3>3, <4>1, <4>2
    <3> QED
      BY <3>2, <3>3, LedgerTyped
  <2>2. ASSUME NEW m \in MessageId', m \notin MessageId PROVE ledger'[m].after <= Len(outbox'[message'[m].run])
    <3>1. ledger'[m].after = 0
      BY <2>2, LedgerTyped DEF NoDelivery
    <3>2. TypeOK' => Len(outbox'[message'[m].run]) \in Nat
      <4>1. \E r \in RunId : message'[m].run = r
        <5>1. PICK r \in RunId : SendSteer(r)
          BY <2>2, MessageGrows DEF Base
        <5>2. m = Len(message) + 1 /\ message'[m] = [run |-> r, attempts |-> 1, answer |-> "waiting"]
          BY <2>2, <5>1, MessageAdded
        <5> QED
          BY <5>2
      <4> QED
        BY <1>2, <4>1
    <3> QED
      BY <3>1, <3>2
  <2> QED
    BY <2>1, <2>2
<1> DEFINE Goal == active'.run # 0 =>
       /\ active'.sequence <= Len(outbox'[active'.run])
       /\ (op'.pc = "mark" /\ op'.run = active'.run) \/ active'.sequence = Len(outbox'[active'.run])
<1>4. Goal
  <2>0. /\ active \in Active /\ active.sequence \in Nat
        /\ active.run # 0 => active.run \in RunId
        /\ active.run # 0 =>
             /\ active.sequence <= Len(outbox[active.run])
             /\ (op.pc = "mark" /\ op.run = active.run) \/ active.sequence = Len(outbox[active.run])
    BY Rows DEF Base, TypeOK, MemoryTyped, Active, NumberInv
  <2>1. CASE Restarted
    <3>1. active'.run = 0
      BY <2>1 DEF Restarted, NoRun
    <3> QED
      BY <3>1
  <2>2. CASE ThreadReady
    <3>1. /\ active'.run = op.run /\ active'.sequence = 0 /\ outbox' = outbox
          /\ op.pc = "resume" /\ outbox[op.run] = <<>>
      BY <2>2 DEF ThreadReady, files, Base, StartInv
    <3> QED
      BY <3>1
  <2>3. CASE RecordInput /\ active' = active
    <3>1. (op' = [op EXCEPT !.pc = "report"] /\ outbox' = outbox) \/ op' = [op EXCEPT !.pc = "mark"]
      BY <2>3 DEF RecordInput
    <3>2. op.pc = "record"
      BY <2>3 DEF RecordInput
    <3>3. CASE outbox' = outbox
      BY <2>0, <2>3, <3>2, <3>3
    <3>4. CASE op' = [op EXCEPT !.pc = "mark"] /\ active.run # op.run
      <4>1. active.run # 0 => outbox'[active.run] = outbox[active.run]
        <5>1. ~Report /\ ~Announce
          BY <3>2 DEF Report, Announce
        <5>2. active.run # 0 => \/ outbox'[active.run] = outbox[active.run]
                                \/ RecordInput /\ EventAdded(op.run, EventOf(op.run, "input", op.message))
                                \/ ConsumerAppends
          BY <2>0, <5>1, OutboxMoves DEF OutboxMoved
        <5>3. ~ConsumerAppends
          <6>1. op'.pc = "mark"
            BY <3>4 DEF Base, TypeOK, MemoryTyped, Operation
          <6> QED
            BY <3>2, <6>1 DEF ConsumerAppends
        <5> QED
          BY <2>0, <3>4, <5>2, <5>3 DEF EventAdded
      <4> QED
        BY <2>0, <2>3, <3>2, <4>1
    <3>5. CASE op' = [op EXCEPT !.pc = "mark"] /\ active.run = op.run
      <4>1. op'.pc = "mark" /\ op'.run = op.run
        BY <3>5 DEF Base, TypeOK, MemoryTyped, Operation
      <4>2. active.run # 0 => active.sequence <= Len(outbox'[active.run])
        BY <1>2, <2>0
      <4> QED
        BY <2>3, <3>5, <4>1, <4>2
    <3> QED
      BY <3>1, <3>3, <3>4, <3>5
  <2>4. CASE MarkRecorded
    <3>1. op.message \in MessageId /\ op.run = message[op.message].run /\ op.run \in RunId
          /\ op.pc = "mark" /\ outbox' = outbox
      BY <2>4, Rows DEF MarkRecorded, Base, SteerInv, SteerPC, TypeOK, MemoryTyped, ServerTyped
    <3>2. Highest(op.run, op.message) = Len(outbox[op.run])
      BY <3>1, HighestIsLast
    <3>3. CASE active.run = op.run
      <4>1. active' = [active EXCEPT !.sequence = Len(outbox[op.run])]
        BY <2>4, <3>2, <3>3 DEF MarkRecorded, Adopted
      <4>2. active'.run = active.run /\ active'.sequence = Len(outbox[op.run])
        BY <2>0, <4>1 DEF Active
      <4> QED
        BY <1>2, <3>1, <3>3, <4>2
    <3>4. CASE active.run # op.run
      <4>1. active' = active
        BY <2>4, <3>4 DEF MarkRecorded, Adopted
      <4> QED
        BY <2>0, <3>1, <3>4, <4>1
    <3> QED
      BY <3>3, <3>4
  <2>5. CASE /\ Announce \/ Report \/ ConsumerAppends
             /\ ~ThreadReady /\ ~Restarted
             /\ active'.sequence = active.sequence + 1 /\ Unlocked
             /\ active.run # 0 => active.run \in RunId /\ Len(outbox'[active.run]) = Len(outbox[active.run]) + 1
    <3>1. active'.run = active.run
      BY <2>5, ActiveStays
    <3> QED
      BY <1>2, <2>0, <2>5, <3>1 DEF Unlocked
  <2>6. CASE /\ active'.sequence = active.sequence /\ \A r \in RunId : outbox'[r] = outbox[r]
             /\ ~ThreadReady /\ ~Restarted /\ ~MarkRecorded
    <3>1. active'.run = active.run
      BY <2>6, ActiveStays
    <3>2. CASE active.run # 0 /\ op.pc = "mark"
      <4>1. op' = op \/ op' = Free
        BY <2>6, <3>2, OperationMoves DEF OperationMoved, SteerMoved, Taken, SteerPC
      <4>2. op' # Free
        BY <2>6, <3>2, Freed DEF SteerPC, SteerRefused, SteerRejected, SteerLost, Report
      <4> QED
        BY <2>0, <2>6, <3>1, <3>2, <4>1, <4>2
    <3>3. CASE ~(active.run # 0 /\ op.pc = "mark")
      BY <2>0, <2>6, <3>1, <3>3
    <3> QED
      BY <3>2, <3>3
  <2> QED
    BY <2>1, <2>2, <2>3, <2>4, <2>5, <2>6, SequenceMoves DEF SequenceMoved
<1> QED
  BY <1>1, <1>3, <1>4 DEF NumberInv

\* What the consumer does to its work.
ConsumerMoved ==
  \/ consumer' = consumer /\ ~Consume
  \/ Restarted /\ consumer' = Waiting
  \/ Consume /\ consumer' = [todo |-> Todo(Head(notes)), run |-> active.run, note |-> Head(notes)]
  \/ /\ ConsumerAppends \/ ConsumerEndsRun \/ ConsumerWrites
     /\ \/ consumer' = Waiting /\ inputMu' = "free"
        \/ /\ consumer'.todo = Tail(consumer.todo) /\ consumer'.note = consumer.note /\ inputMu' = inputMu
           /\ consumer.todo # <<>> /\ Len(consumer.todo) # 1
           /\ consumer'.run = IF ConsumerEndsRun THEN active.run ELSE consumer.run

LEMMA ConsumerMoves ==
  ASSUME Base, Step
  PROVE  ConsumerMoved
<1>1. CASE Consume
  BY <1>1 DEF Consume, ConsumerMoved
<1>2. ASSUME NEW r, ConsumerGoesOn(r), consumer.todo # <<>>
      PROVE  \/ consumer' = Waiting /\ inputMu' = "free"
             \/ /\ consumer'.todo = Tail(consumer.todo) /\ consumer'.note = consumer.note /\ inputMu' = inputMu
                /\ consumer.todo # <<>> /\ Len(consumer.todo) # 1
                /\ consumer'.run = r
  <2>1. CASE Len(consumer.todo) = 1
    BY <1>2, <2>1 DEF ConsumerGoesOn
  <2>2. CASE Len(consumer.todo) # 1
    <3>1. consumer' = [todo |-> Tail(consumer.todo), run |-> r, note |-> consumer.note] /\ inputMu' = inputMu
      BY <1>2, <2>2 DEF ConsumerGoesOn
    <3>2. consumer'.todo = Tail(consumer.todo) /\ consumer'.note = consumer.note /\ consumer'.run = r
      BY <3>1
    <3> QED
      BY <1>2, <2>2, <3>1, <3>2
  <2> QED
    BY <2>1, <2>2
<1>3. CASE ConsumerEndsRun
  BY <1>2, <1>3 DEF ConsumerEndsRun, ConsumerIs, ConsumerMoved
<1>4. CASE (ConsumerAppends \/ ConsumerWrites) /\ ~ConsumerEndsRun
  BY <1>2, <1>4 DEF ConsumerAppends, ConsumerWrites, ConsumerIs, ConsumerMoved
<1> QED
  BY <1>1, <1>3, <1>4, ConsumerKept DEF ConsumerMoved

\* An event is a new note about what it says.
LEMMA NotesMoves ==
  ASSUME Base, Step
  PROVE  \/ notes' = notes \/ notes' = <<>>
         \/ notes # <<>> /\ notes' = Tail(notes)
         \/ \E n \in 0..Len(notes) : notes' = SubSeq(notes, 1, n)
         \/ TurnInterrupted /\ notes' = Append(notes, Completion(active.turn, "interrupted"))
         \/ \E t \in TurnId : CompleteTurn(t) /\ notes' = Append(notes, Completion(t, "completed"))
         \/ notes' = Append(notes, [Completion(0, "completed") EXCEPT !.own = FALSE])
         \/ \E t \in TurnId : \E m \in Answerable(t) :
              /\ EmitOutput(t, m)
              /\ notes' = Append(notes, [type |-> "output", turn |-> t, of |-> m, status |-> "running",
                                         own |-> TRUE])
<1>1. CASE TurnInterrupted
  BY <1>1 DEF TurnInterrupted
<1>2. CASE CodexStep
  BY <1>2 DEF CodexStep, CompleteForeign, CompleteTurn, AppServerDies, EmitOutput
<1>4. CASE StartTurn \/ Interrupt \/ InterruptFails \/ Interrupted \/ Restarted \/ StartStep
  BY <1>4 DEF codex, StartTurn, Interrupt, InterruptFails, Interrupted, Restarted,
     StartStep, ThreadReady, ThreadFails, TurnStarts, TurnStartFails, WriteTerminal, TurnStarted, WriteRunning,
     Announce
<1>5. CASE SteerStep
  BY <1>5 DEF codex, SteerStep, SteerRefused, SteerPending, TurnSteered, TurnRefusesSteer,
     SteerRejected, SteerLost, SteerAccepted, RecordInput, MarkRecorded, Report
<1>6. CASE ConsumerStep \/ MonitorChecks \/ MonitorFails \/ MonitorWrites
  BY <1>6 DEF codex, ConsumerStep, Skip, Consume, ConsumerAppends, ConsumerEndsRun,
     ConsumerWrites, MonitorChecks, MonitorFails, MonitorWrites
<1>7. CASE \/ \E r \in RunId : SendSteer(r) \/ Poll(r) \/ Scan(r)
           \/ \E m \in MessageId : RepeatSteer(m) \/ SteerTaken(m)
  BY <1>7 DEF codex, SendSteer, Poll, Scan, RepeatSteer, SteerTaken, SteerKnown, SteerNew
<1> QED
  BY <1>1, <1>2, <1>4, <1>5, <1>6, <1>7 DEF Step, InterruptStep

LEMMA NoteKept ==
  ASSUME Base, Step
  PROVE  NoteInv'
<1> DEFINE N == {note \in Note : (note.own => note.turn \in TurnId') /\ Ends(note)}
<1>0. /\ TurnId \subseteq TurnId' /\ TurnId = 1..Len(turn) /\ Len(turn) \in Nat
      /\ active.turn \in 0..Len(turn) /\ op \in Operation /\ active \in Active
  BY TurnGrows, Rows DEF Base, TypeOK, MemoryTyped
<1>1. \A n \in 1..Len(notes) : notes[n] \in N
  BY <1>0, Rows DEF Base, NoteInv
<1>2. ASSUME NEW t \in TurnId, NEW status \in {"interrupted", "completed"} PROVE Completion(t, status) \in N
  <2>1. Completion(t, status) \in Note
    BY <1>0 DEF Completion, Note, Status, Terminal
  <2> QED
    BY <1>0, <2>1 DEF Completion, Ends, Terminal
<1>3. [Completion(0, "completed") EXCEPT !.own = FALSE] \in N
  BY DEF Completion, Ends, Note, Status, Terminal
<1>4. ASSUME NEW t \in TurnId, NEW m \in Answerable(t)
      PROVE  [type |-> "output", turn |-> t, of |-> m, status |-> "running", own |-> TRUE] \in N
  <2>1. m \in Nat /\ t \in Nat
    BY <1>0, Rows DEF Answerable, Base
  <2>2. [type |-> "output", turn |-> t, of |-> m, status |-> "running", own |-> TRUE] \in Note
    BY <2>1 DEF Note, Status
  <2> QED
    BY <1>0, <2>2 DEF Ends
<1>5. TurnInterrupted => active.turn \in TurnId
  BY <1>0 DEF TurnInterrupted, Base, NoteInv
<1>6. N \subseteq Note
  OBVIOUS
<1> HIDE DEF N
<1>7. \A n \in 1..Len(notes') : notes'[n] \in N
  <2>1. CASE notes' = notes \/ notes' = <<>> \/ (notes # <<>> /\ notes' = Tail(notes))
             \/ \E n \in 0..Len(notes) : notes' = SubSeq(notes, 1, n)
    BY <1>1, <1>6, <2>1, NotesKept
  <2>2. CASE \E note \in N : notes' = Append(notes, note)
    BY <1>1, <1>6, <2>2, NotesKept
  <2> QED
    BY <1>2, <1>3, <1>4, <1>5, <2>1, <2>2, NotesMoves
<1>8. \A n \in 1..Len(notes') : (notes'[n].own => notes'[n].turn \in TurnId') /\ Ends(notes'[n])
  BY <1>7 DEF N
<1>9. consumer'.todo # <<>> => consumer'.note.turn \in TurnId' /\ Ends(consumer'.note)
  <2>1. consumer.todo # <<>> => consumer.note.turn \in TurnId' /\ Ends(consumer.note)
    BY <1>0 DEF Base, NoteInv
  <2>2. CASE consumer' = Waiting
    BY <2>2 DEF Waiting
  <2>3. CASE consumer' = consumer
    BY <2>1, <2>3
  <2>4. CASE Consume
    <3>1. notes # <<>> /\ Belongs(Head(notes)) /\ consumer'.note = Head(notes)
      BY <2>4 DEF Consume
    <3>2. Head(notes) = notes[1] /\ 1 \in 1..Len(notes)
      BY <3>1, Shifted DEF Base, TypeOK, CodexTyped
    <3> QED
      BY <1>1, <3>1, <3>2 DEF Belongs, N
  <2>5. CASE consumer'.note = consumer.note /\ consumer.todo # <<>>
    BY <2>1, <2>5
  <2> QED
    BY <2>2, <2>3, <2>4, <2>5, ConsumerMoves DEF ConsumerMoved
<1>10. op'.pc = "interrupt" => active'.turn # 0
  <2>1. ASSUME op'.pc = "interrupt" PROVE op' = op \/ Interrupt
    <3>1. StartStep \/ InterruptStep => op' = Free \/ op'.pc # "interrupt"
      BY <1>0 DEF StartStep, ThreadReady, ThreadFails, TurnStarts,
        TurnStartFails, WriteTerminal, TurnStarted, WriteRunning, Announce, InterruptStep, TurnInterrupted,
        InterruptFails, Interrupted, Operation
    <3>2. SteerMoved => op'.pc # "interrupt"
      BY DEF SteerMoved, Moved
    <3>3. ~(\E m \in MessageId : Taken(m)) /\ op' # Free /\ ~StartTurn
      BY <2>1 DEF Taken, Request, Repetition, Free, StartTurn
    <3>4. ~\E r \in RunId : op' = Request("poll", r, 0)
      BY <2>1 DEF Request
    <3>5. SteerStep => SteerMoved \/ op' = Free
      <4>1. SteerStep => OperationMoved /\ op.pc \in SteerPC
        BY OperationMoves DEF SteerStep, SteerRefused, SteerPending, TurnSteered, TurnRefusesSteer,
          SteerRejected, SteerLost, SteerAccepted, RecordInput, MarkRecorded, Report, SteerPC
      <4> QED
        BY <3>3, <4>1 DEF OperationMoved
    <3>6. ~\E m \in MessageId : SteerTaken(m)
      BY <2>1 DEF SteerTaken, SteerKnown, SteerNew, Answered, Request, Repetition, Free
    <3> QED
      BY <2>1, <3>1, <3>2, <3>3, <3>4, <3>5, <3>6, OperationElse
  <2>2. CASE Interrupt
    BY <2>2 DEF Interrupt
  <2>3. CASE op' = op /\ op.pc = "interrupt"
    <3>1. ~ThreadReady /\ ~TurnStarted /\ ~Restarted
      BY <2>3 DEF ThreadReady, TurnStarted, Restarted, Free, Request
    <3>2. ASSUME NEW status, active' = [active EXCEPT !.status = status] PROVE active'.turn = active.turn
      BY <1>0, <3>2 DEF Active
    <3>3. ASSUME NEW sequence, active' = [active EXCEPT !.sequence = sequence] PROVE active'.turn = active.turn
      BY <1>0, <3>3 DEF Active
    <3>4. active'.turn = active.turn
      BY <3>1, <3>2, <3>3, ActiveSteps DEF ActiveWritten
    <3> QED
      BY <2>3, <3>4 DEF Base, NoteInv
  <2> QED
    BY <2>1, <2>2, <2>3
<1> QED
  BY <1>8, <1>9, <1>10 DEF NoteInv, Ends

LEMMA BaseKept ==
  ASSUME Base, ConsumerInv, PollInv, Step
  PROVE  Base'
BY TypesKept, StartKept, SteerKept, NoteKept, NumberKept DEF Base

-----------------------------------------------------------------------------
(* One actor at a time.                                                    *)

\* Only steers and the consumer take and give inputMu, and a restart.
LEMMA InputMuElse ==
  ASSUME Base, Step, ~SteerStep, ~ConsumerStep, ~Restarted, ~\E m \in MessageId : SteerTaken(m)
  PROVE  inputMu' = inputMu /\ consumer' = consumer
BY InputMuTyped, ConsumerKept DEF ConsumerStep

LEMMA GuardKept ==
  ASSUME Base, LockInv, Step
  PROVE  GuardInv'
<1>0. /\ op \in Operation /\ (op.again => op.pc \in RecordPC) /\ ConsumerInv /\ GuardInv /\ PollInv
      /\ OperationMoved
  BY OperationMoves DEF Base, TypeOK, MemoryTyped, SteerInv, LockInv
<1>1. CASE SteerPending
  <2>1. op.pc = "lock" /\ op'.pc = "steer" /\ op'.again = op.again /\ inputMu' = "steer"
    BY <1>0, <1>1 DEF SteerPending, Guarded, Operation
  <2>2. ~op.again
    BY <1>0, <2>1 DEF RecordPC
  <2> QED
    BY <2>1, <2>2 DEF GuardInv, SteerPC
<1>2. CASE op' = Free /\ inputMu' # "steer"
  BY <1>2 DEF GuardInv, Free, Request, SteerPC
<1>3. CASE SteerRefused \/ SteerRejected \/ SteerLost \/ Report \/ Restarted
  BY <1>2, <1>3 DEF SteerRefused, SteerRejected, SteerLost, Report, Answered, Restarted
<1>4. CASE TurnSteered \/ TurnRefusesSteer \/ SteerAccepted \/ RecordInput \/ MarkRecorded
  <2>1. /\ op.pc \in SteerPC \ {"lock"} /\ op'.pc \in SteerPC \ {"lock"} /\ op'.again = op.again
        /\ inputMu' = inputMu
    BY <1>0, <1>4 DEF TurnSteered, TurnRefusesSteer, SteerAccepted, RecordInput, MarkRecorded,
       Operation, SteerPC
  <2> QED
    BY <1>0, <2>1 DEF GuardInv
<1>5. CASE ConsumerStep
  <2>1. op' = op /\ inputMu # "steer" /\ inputMu' # "steer"
    BY <1>0, <1>5 DEF ConsumerStep, Skip, Consume, ConsumerAppends, ConsumerEndsRun, ConsumerWrites,
       ConsumerIs, ConsumerGoesOn, Released, ConsumerInv
  <2> QED
    BY <1>0, <2>1 DEF GuardInv
<1>6. CASE \E m \in MessageId : SteerTaken(m)
  <2>1. PICK m \in MessageId : SteerTaken(m)
    BY <1>6
  <2>2. op.pc = "idle" /\ inputMu # "steer"
    BY <1>0, <2>1 DEF SteerTaken, SteerKnown, SteerNew, GuardInv, SteerPC
  <2>3. inputMu' = inputMu
    BY <2>1, <2>2 DEF SteerTaken, SteerKnown, SteerNew, Answered
  <2>4. \/ op'.pc = "idle" /\ ~op'.again
        \/ op'.pc = "lock" /\ ~op'.again
        \/ op'.pc = "record" /\ op'.again
    BY <2>1 DEF SteerTaken, SteerKnown, SteerNew, Answered, Free, Request, Repetition
  <2> QED
    BY <2>2, <2>3, <2>4 DEF GuardInv, SteerPC
<1>7. CASE ~SteerStep /\ ~ConsumerStep /\ ~Restarted /\ ~\E m \in MessageId : SteerTaken(m)
  <2>1. inputMu' = inputMu
    BY <1>7, InputMuElse
  <2>2. CASE op' = op
    BY <1>0, <2>1, <2>2 DEF GuardInv
  <2>3. CASE op' = Free
    <3>1. op.pc \notin SteerPC
      BY <1>0, <1>7, <2>3, Freed DEF SteerStep
    <3>2. inputMu # "steer"
      BY <1>0, <3>1 DEF GuardInv
    <3> QED
      BY <1>2, <2>1, <2>3, <3>2
  <2>4. CASE op.pc \notin SteerPC /\ op'.pc \notin SteerPC
    BY <1>0, <2>1, <2>4 DEF GuardInv
  <2>5. ~SteerMoved /\ ~\E m \in MessageId : Taken(m)
    BY <1>7 DEF SteerMoved, SteerStep, Taken, SteerTaken
  <2> QED
    BY <1>0, <2>2, <2>3, <2>4, <2>5 DEF OperationMoved
<1> QED
  BY <1>1, <1>3, <1>4, <1>5, <1>6, <1>7 DEF SteerStep

\* The rest of the consumer's work.
LEMMA Rests ==
  /\ Tail(<<"append", "terminal", "file">>) = <<"terminal", "file">>
  /\ Tail(<<"terminal", "file">>) = <<"file">>
  /\ Len(<<"append">>) = 1 /\ Len(<<"file">>) = 1
  /\ Len(<<"append", "terminal", "file">>) = 3 /\ Len(<<"terminal", "file">>) = 2
OBVIOUS

LEMMA ConsumerInvKept ==
  ASSUME Base, LockInv, Step
  PROVE  ConsumerInv'
<1>0. ConsumerInv /\ GuardInv /\ consumer.note \in Note
  BY DEF LockInv, Base, TypeOK, MemoryTyped, Consumer
<1>1. CASE consumer' = consumer /\ inputMu' = inputMu
  BY <1>0, <1>1 DEF ConsumerInv
<1>2. CASE consumer' = Waiting /\ inputMu' # "consumer"
  BY <1>2 DEF ConsumerInv, Waiting
<1>3. CASE SteerStep
  <2>1. consumer' = consumer
    BY <1>3 DEF SteerStep, SteerRefused, SteerPending, TurnSteered, TurnRefusesSteer,
     SteerRejected, SteerLost, SteerAccepted, RecordInput, MarkRecorded, Report
  <2>2. inputMu' = inputMu \/ (inputMu # "consumer" /\ inputMu' # "consumer")
    BY <1>3 DEF SteerStep, SteerRefused, SteerPending, TurnSteered, TurnRefusesSteer,
     SteerRejected, SteerLost, SteerAccepted, RecordInput, MarkRecorded, Report, Answered, Guarded
  <2> QED
    BY <1>0, <2>1, <2>2 DEF ConsumerInv
<1>4. CASE Skip
  BY <1>0, <1>4 DEF Skip, ConsumerInv, Released
<1>5. CASE Consume
  <2>1. /\ inputMu' = "consumer" /\ consumer'.todo = Todo(Head(notes)) /\ consumer'.note = Head(notes)
    BY <1>5 DEF Consume
  <2>2. \/ consumer'.todo = <<"append", "terminal", "file">> /\ consumer'.note.type = "completed"
        \/ consumer'.todo = <<"append">>
    BY <2>1 DEF Todo
  <2> QED
    BY <2>1, <2>2 DEF ConsumerInv
<1>6. CASE ConsumerAppends \/ ConsumerEndsRun \/ ConsumerWrites
  <2>1. consumer.todo # <<>> /\ inputMu = "consumer"
    BY <1>0, <1>6 DEF ConsumerAppends, ConsumerEndsRun, ConsumerWrites, ConsumerIs, ConsumerInv
  <2>2. CASE consumer' = Waiting /\ inputMu' = "free"
    BY <1>2, <2>2
  <2>3. CASE /\ consumer'.todo = Tail(consumer.todo) /\ consumer'.note = consumer.note /\ inputMu' = inputMu
             /\ Len(consumer.todo) # 1
    <3>1. consumer.todo \in {<<"append", "terminal", "file">>, <<"terminal", "file">>}
      BY <1>0, <2>1, <2>3, Rests DEF ConsumerInv
    <3>2. consumer.note.type = "completed"
      BY <1>0, <3>1 DEF ConsumerInv
    <3>3. consumer'.todo \in {<<"terminal", "file">>, <<"file">>}
      BY <2>3, <3>1, Rests
    <3> QED
      BY <2>1, <2>3, <3>2, <3>3 DEF ConsumerInv
  <2>4. ~Consume /\ consumer' # consumer
    <3>1. ~Consume
      BY <2>1 DEF Consume
    <3>2. ASSUME NEW r, ConsumerGoesOn(r) PROVE consumer' # consumer
      <4>1. CASE Len(consumer.todo) = 1
        BY <2>1, <3>2, <4>1 DEF ConsumerGoesOn, Waiting
      <4>2. CASE Len(consumer.todo) # 1
        <5>1. consumer'.todo = Tail(consumer.todo)
          BY <3>2, <4>2 DEF ConsumerGoesOn
        <5>2. consumer.todo \in {<<"append", "terminal", "file">>, <<"terminal", "file">>}
          BY <1>0, <2>1, <4>2, Rests DEF ConsumerInv
        <5>3. Len(Tail(consumer.todo)) # Len(consumer.todo)
          BY <5>2, Rests
        <5> QED
          BY <5>1, <5>3
      <4> QED
        BY <4>1, <4>2
    <3> QED
      BY <1>6, <3>1, <3>2 DEF ConsumerAppends, ConsumerEndsRun, ConsumerWrites
  <2>5. ~Restarted \/ inputMu' = "free"
    BY DEF Restarted
  <2> QED
    BY <1>2, <2>2, <2>3, <2>4, <2>5, ConsumerMoves DEF ConsumerMoved
<1>7. CASE Restarted
  BY <1>2, <1>7 DEF Restarted
<1>8. CASE \E m \in MessageId : SteerTaken(m)
  <2>1. PICK m \in MessageId : SteerTaken(m)
    BY <1>8
  <2>2. op.pc = "idle" /\ inputMu # "steer"
    BY <1>0, <2>1 DEF SteerTaken, SteerKnown, SteerNew, GuardInv, SteerPC
  <2>3. inputMu' = inputMu /\ consumer' = consumer
    BY <2>1, <2>2 DEF SteerTaken, SteerKnown, SteerNew, Answered
  <2> QED
    BY <1>1, <2>3
<1> QED
  BY <1>1, <1>3, <1>4, <1>5, <1>6, <1>7, <1>8, InputMuElse DEF ConsumerStep

\* A relay that holds operationMu gives it back, unless the worker restarts.
LEMMA Held ==
  ASSUME Base, Step, op.pc = "poll"
  PROVE  op' = op \/ Restarted \/ \E r \in RunId : Scan(r) /\ relay[r].locked
<1>1. ~(StartTurn \/ StartStep \/ Interrupt \/ InterruptStep \/ SteerStep)
  BY DEF StartTurn, StartStep, Interrupt, InterruptStep, ThreadReady, ThreadFails, TurnStarts,
     TurnStartFails, WriteTerminal, TurnStarted, WriteRunning, Announce, TurnInterrupted, InterruptFails,
     Interrupted, SteerStep, SteerRefused, SteerPending, TurnSteered, TurnRefusesSteer, SteerRejected,
     SteerLost, SteerAccepted, RecordInput, MarkRecorded, Report
<1>2. ~\E m \in MessageId : SteerTaken(m)
  BY DEF SteerTaken, SteerKnown, SteerNew
<1>3. CASE ConsumerStep \/ CodexStep \/ MonitorChecks \/ MonitorFails \/ MonitorWrites \/ Restarted
           \/ (\E m \in MessageId : RepeatSteer(m)) \/ \E r \in RunId : SendSteer(r)
  BY <1>3 DEF memory, ConsumerStep, CodexStep, Skip, Consume, ConsumerAppends, ConsumerEndsRun,
       ConsumerWrites, CompleteForeign, AppServerDies, CompleteTurn, EmitOutput, MonitorChecks,
       MonitorFails, MonitorWrites, RepeatSteer, SendSteer
<1>4. CASE \E r \in RunId : Poll(r) \/ Scan(r)
  BY <1>4 DEF Poll, Scan, TryLock
<1> QED
  BY <1>1, <1>2, <1>3, <1>4 DEF Step

LEMMA PollKept ==
  ASSUME Base, LockInv, Step
  PROVE  PollInv'
<1>1. ASSUME NEW r \in RunId', relay'[r].pc = "scan", relay'[r].locked
      PROVE  op'.pc = "poll" /\ op'.run = r
  <2>1. r \in RunId
    BY <1>1, RelayRows DEF NoPoll
  <2>2. ~Restarted
    <3>1. ASSUME Restarted PROVE relay'[r].pc # "scan"
      <4>1. relay'[r] = IF relay[r].pc = "scan" THEN [relay[r] EXCEPT !.pc = "idle"] ELSE relay[r]
        BY <2>1, <3>1 DEF Restarted
      <4> QED
        BY <2>1, <4>1 DEF Base, TypeOK, ServerTyped, Relay
    <3> QED
      BY <1>1, <3>1
  <2>3. CASE Poll(r) /\ relay'[r].locked = TryLock
    <3>1. TryLock
      BY <1>1, <2>3
    <3>2. op' = Request("poll", r, 0)
      BY <2>3, <3>1 DEF Poll
    <3> QED
      BY <3>2 DEF Request
  <2>4. CASE relay'[r] = relay[r]
    <3>1. op.pc = "poll" /\ op.run = r
      BY <1>1, <2>1, <2>4 DEF LockInv, PollInv
    <3>2. ASSUME NEW q \in RunId, Scan(q), relay[q].locked PROVE FALSE
      <4>1. q = r
        BY <3>1, <3>2 DEF Scan, LockInv, PollInv
      <4>2. relay' = [relay EXCEPT ![r] = ScannedRow(relay[r], Len(outbox[r]))]
        BY <3>2, <4>1 DEF Scan, ScannedRow
      <4>3. relay'[r].pc # "scan"
        BY <2>1, <4>2, Rows, Scanned DEF Base, TypeOK, ServerTyped
      <4> QED
        BY <1>1, <4>3
    <3> QED
      BY <2>2, <3>1, <3>2, Held
  <2> QED
    BY <1>1, <2>1, <2>2, <2>3, <2>4, RelayRows
<1> QED
  BY <1>1 DEF PollInv

LEMMA LockKept ==
  ASSUME Base, LockInv, Step
  PROVE  LockInv'
BY GuardKept, ConsumerInvKept, PollKept DEF LockInv

-----------------------------------------------------------------------------
(* Deliveries.                                                             *)

\* Where a steer's steps start.
LEMMA Points ==
  /\ SteerRefused \/ SteerPending => op.pc = "lock"
  /\ TurnSteered \/ TurnRefusesSteer => op.pc = "steer"
  /\ SteerRejected => op.pc = "refused"
  /\ SteerAccepted => op.pc = "steered"
  /\ SteerLost => op.pc \in {"steer", "steered", "refused"}
  /\ RecordInput => op.pc = "record"
  /\ MarkRecorded => op.pc = "mark"
  /\ Report => op.pc = "report"
  /\ \A m \in MessageId : SteerTaken(m) => op.pc = "idle"
BY DEF SteerRefused, SteerPending, TurnSteered, TurnRefusesSteer, SteerRejected,
   SteerLost, SteerAccepted, RecordInput, MarkRecorded, Report, SteerTaken, SteerKnown, SteerNew

LEMMA DeliveryKept ==
  ASSUME Base, DeliveryInv, Step
  PROVE  DeliveryInv'
<1>0. /\ op \in Operation
      /\ op.pc \in SteerPC => op.message \in MessageId /\ message[op.message].answer = "waiting"
      /\ \A m \in MessageId : delivered[m] \in Nat
  BY Rows DEF Base, TypeOK, MemoryTyped, ServerTyped, SteerInv, SteerPC
<1>1. ASSUME NEW m \in MessageId
      PROVE  /\ delivered'[m] <= 1
             /\ ledger'[m].state \in {"none", "rejected"} => delivered'[m] = 0
             /\ message'[m].answer = "refused" => delivered'[m] = 0
  <2>1. /\ delivered[m] \in Nat /\ delivered[m] <= 1
        /\ ledger[m].state \in {"none", "rejected"} => delivered[m] = 0
        /\ message[m].answer = "refused" => delivered[m] = 0
    BY <1>0 DEF DeliveryInv
  <2>2. CASE TurnSteered /\ m = op.message /\ delivered'[m] = delivered[m] + 1
    <3>1. delivered[m] = 0 /\ ledger[m].state = "pending" /\ message[m].answer = "waiting"
      BY <1>0, <2>2, Points DEF DeliveryInv, SteerPC
    <3>2. ledger' = ledger /\ message' = message
      BY <2>2 DEF TurnSteered, files, server
    <3> QED
      BY <2>2, <3>1, <3>2
  <2>3. CASE delivered'[m] = delivered[m]
    <3>1. ledger'[m].state \in {"none", "rejected"} => delivered[m] = 0
      BY <1>0, <2>1, LedgerMoves, Points DEF LedgerMoved, DeliveryInv
    <3>2. message'[m].answer = "refused" => delivered[m] = 0
      BY <1>0, <2>1, MessageMoves, Points DEF MessageMoved, Answering, DeliveryInv
    <3> QED
      BY <2>1, <2>3, <3>1, <3>2
  <2> QED
    BY <2>2, <2>3, DeliveredTyped
<1>2. ASSUME NEW m \in MessageId', m \notin MessageId
      PROVE  /\ delivered'[m] <= 1
             /\ ledger'[m].state \in {"none", "rejected"} => delivered'[m] = 0
             /\ message'[m].answer = "refused" => delivered'[m] = 0
  <2>1. PICK r \in RunId : SendSteer(r)
    BY <1>2, MessageGrows DEF Base
  <2>2. m = Len(message) + 1 /\ delivered'[m] = 0
    BY <1>2, <2>1, MessageAdded
  <2> QED
    BY <2>2
<1>3. /\ op'.pc = "lock" => ledger'[op'.message].state = "none"
      /\ op'.pc \in {"steer", "steered", "refused"} => ledger'[op'.message].state = "pending"
      /\ op'.pc \in {"steer", "refused"} => delivered'[op'.message] = 0
      /\ op'.pc \in RecordPC => ledger'[op'.message].state = "accepted"
  <2>1. CASE op' = op /\ ~SteerStep
    <3>1. CASE op.pc \in SteerPC
      <4>1. ledger'[op.message] = ledger[op.message] /\ delivered'[op.message] = delivered[op.message]
        BY <1>0, <2>1, <3>1, LedgerMoves, DeliveredTyped DEF LedgerMoved, SteerStep
      <4> QED
        BY <2>1, <4>1 DEF DeliveryInv
    <3>2. CASE op.pc \notin SteerPC
      BY <2>1, <3>2 DEF SteerPC, RecordPC
    <3> QED
      BY <3>1, <3>2
  <2>2. CASE op'.pc \notin SteerPC \/ op' = Free
    BY <2>2 DEF SteerPC, RecordPC, Free, Request
  <2>3. CASE SteerMoved
    <3>1. op'.message = op.message /\ op.message \in MessageId
      BY <1>0, <2>3 DEF SteerMoved, Moved, SteerPC
    <3>2. CASE SteerPending /\ op.pc = "lock" /\ op'.pc = "steer"
      <4>1. delivered'[op.message] = 0
        BY <3>1, <3>2, DeliveredTyped, Points DEF DeliveryInv
      <4>2. ledger'[op.message].state = "pending"
        <5>1. ledger \in [MessageId -> Delivery] /\ active.sequence \in Nat
          BY DEF Base, TypeOK, FilesTyped, MemoryTyped, Active
        <5>2. ledger' = [ledger EXCEPT ![op.message] =
                           [ledger[op.message] EXCEPT !.state = "pending", !.after = active.sequence]]
          BY <3>2 DEF SteerPending, Declared
        <5>3. [ledger[op.message] EXCEPT !.state = "pending", !.after = active.sequence].state = "pending"
          BY <3>1, <5>1, EntryWritten
        <5> QED
          BY <3>1, <5>1, <5>2, <5>3
      <4> QED
        BY <3>1, <3>2, <4>1, <4>2 DEF RecordPC
    <3>3. CASE TurnSteered /\ op.pc = "steer" /\ op'.pc = "steered"
      BY <3>1, <3>3 DEF DeliveryInv, RecordPC, TurnSteered, files
    <3>4. CASE TurnRefusesSteer /\ op.pc = "steer" /\ op'.pc = "refused"
      BY <3>1, <3>4 DEF DeliveryInv, RecordPC, TurnRefusesSteer, files, ghosts
    <3>5. CASE SteerAccepted /\ op.pc = "steered" /\ op'.pc = "record"
      BY <3>1, <3>5 DEF DeliveryInv, RecordPC, SteerAccepted, Base, TypeOK, FilesTyped, Delivery
    <3>6. CASE op.pc \in RecordPC /\ op'.pc \in RecordPC
      <4>1. ledger'[op.message].state = ledger[op.message].state
        BY <3>1, <3>6, LedgerMoves, Points DEF LedgerMoved, RecordPC
      <4> QED
        BY <3>1, <3>6, <4>1 DEF DeliveryInv, RecordPC
    <3> QED
      BY <2>3, <3>2, <3>3, <3>4, <3>5, <3>6 DEF SteerMoved, Moved, RecordPC
  <2>4. CASE \E m \in MessageId : Taken(m)
    <3>1. PICK m \in MessageId : Taken(m)
      BY <2>4
    <3>2. ledger'[m] = ledger[m]
      BY <3>1, LedgerMoves, Points DEF LedgerMoved, Taken
    <3>3. \/ op'.pc = "lock" /\ op'.message = m /\ ledger[m].state = "none"
          \/ op'.pc = "record" /\ op'.message = m /\ ledger[m].state = "accepted"
      BY <3>1 DEF Taken, Request, Repetition
    <3> QED
      BY <3>2, <3>3 DEF RecordPC
  <2> QED
    BY <2>1, <2>2, <2>3, <2>4, OperationMoves DEF OperationMoved
<1> QED
  BY <1>1, <1>2, <1>3 DEF DeliveryInv

-----------------------------------------------------------------------------
(* Inputs and their answers.                                               *)

\* Where a message stands in a file of events.
InputsOf(events, m) == {n \in DOMAIN events : events[n].type = "input" /\ events[n].of = m}

\* The events of a run stay, and at most one is added: by whom, and what it is.
NewEvent(r, n) ==
  /\ n = Len(outbox[r]) + 1
  /\ \/ outbox'[r][n].type \in {"started", "steered"}
     \/ /\ RecordInput /\ r = op.run /\ op.message \in MessageId
        /\ outbox'[r][n].type = "input" /\ outbox'[r][n].of = op.message
        /\ ~HasInput(r, op.message) /\ ~ledger[op.message].recorded
     \/ /\ ConsumerAppends /\ r = consumer.run /\ active.run = r
        /\ outbox'[r][n].type = consumer.note.type /\ outbox'[r][n].of = consumer.note.of

LEMMA EventsMove ==
  ASSUME Base, Step, NEW r \in RunId
  PROVE  /\ DOMAIN outbox[r] = 1..Len(outbox[r]) /\ DOMAIN outbox'[r] = 1..Len(outbox'[r])
         /\ DOMAIN outbox[r] \subseteq DOMAIN outbox'[r] /\ Len(outbox[r]) \in Nat
         /\ \A n \in DOMAIN outbox[r] : outbox'[r][n] = outbox[r][n]
         /\ \A n \in DOMAIN outbox'[r] : n \in DOMAIN outbox[r] \/ NewEvent(r, n)
<1>1. /\ outbox[r] \in Seq(Event) /\ outbox'[r] \in Seq(Event)
      /\ Len(outbox[r]) \in Nat /\ Len(outbox'[r]) \in Nat /\ Len(outbox[r]) <= Len(outbox'[r])
      /\ \A n \in 1..Len(outbox[r]) : outbox'[r][n] = outbox[r][n]
  BY OutboxGrows, FileGrows DEF Base, TypeOK, FilesTyped
<1>2. DOMAIN outbox[r] = 1..Len(outbox[r]) /\ DOMAIN outbox'[r] = 1..Len(outbox'[r])
  BY <1>1, LenProperties
<1>3. ASSUME NEW n \in 1..Len(outbox'[r]), n \notin 1..Len(outbox[r])
      PROVE  NewEvent(r, n)
  <2>1. outbox'[r] # outbox[r]
    BY <1>3
  <2>2. ASSUME NEW q \in RunId, NEW type, NEW of, EventAdded(q, EventOf(q, type, of))
        PROVE  q = r /\ n = Len(outbox[r]) + 1 /\ outbox'[r][n].type = type /\ outbox'[r][n].of = of
    <3>1. q = r
      BY <2>1, <2>2 DEF EventAdded
    <3>2. Len(outbox'[r]) = Len(outbox[r]) + 1 /\ outbox'[r][Len(outbox[r]) + 1] = EventOf(q, type, of)
      BY <2>2, <3>1 DEF EventAdded
    <3>3. n = Len(outbox[r]) + 1
      BY <1>1, <1>3, <3>2
    <3> QED
      BY <3>1, <3>2, <3>3 DEF EventOf
  <2> QED
    BY <2>1, <2>2, OutboxMoves DEF OutboxMoved, NewEvent
<1>4. 1..Len(outbox[r]) \subseteq 1..Len(outbox'[r])
  BY <1>1
<1> QED
  BY <1>1, <1>2, <1>3, <1>4

\* An input gets its place once, and keeps it.
LEMMA InputsMove ==
  ASSUME Base, Step, NEW r \in RunId, NEW m
  PROVE  /\ InputsOf(outbox[r], m) = Inputs(r, m)
         /\ InputsOf(outbox[r], m) \subseteq InputsOf(outbox'[r], m)
         /\ \A n \in InputsOf(outbox'[r], m) :
              \/ n \in InputsOf(outbox[r], m)
              \/ /\ n = Len(outbox[r]) + 1 /\ RecordInput /\ r = op.run /\ m = op.message
                 /\ InputsOf(outbox[r], m) = {} /\ op.message \in MessageId
<1>1. consumer.note.type # "input"
  BY DEF Base, TypeOK, MemoryTyped, Consumer, Note
<1>2. ASSUME NEW n \in InputsOf(outbox'[r], m), n \notin InputsOf(outbox[r], m)
      PROVE  /\ n = Len(outbox[r]) + 1 /\ RecordInput /\ r = op.run /\ m = op.message
             /\ InputsOf(outbox[r], m) = {} /\ op.message \in MessageId
  <2>1. n \in DOMAIN outbox'[r] /\ outbox'[r][n].type = "input" /\ outbox'[r][n].of = m
    BY <1>2 DEF InputsOf
  <2>2. n \notin DOMAIN outbox[r]
    BY <1>2, <2>1, EventsMove DEF InputsOf
  <2>3. NewEvent(r, n)
    BY <2>1, <2>2, EventsMove
  <2> QED
    BY <1>1, <2>1, <2>3 DEF NewEvent, HasInput, InputsOf
<1>3. InputsOf(outbox[r], m) \subseteq InputsOf(outbox'[r], m)
  BY EventsMove DEF InputsOf
<1> QED
  BY <1>2, <1>3 DEF InputsOf, Inputs

LEMMA InputKept ==
  ASSUME Base, InputInv, Step
  PROVE  InputInv'
<1>0. /\ \A m \in MessageId : message[m].run \in RunId /\ message'[m].run = message[m].run /\ m \in MessageId'
      /\ RunId \subseteq RunId'
      /\ op.pc \in SteerPC => op.message \in MessageId /\ op.run = message[op.message].run
  BY Rows, MessageGrows, FileGrows DEF Base, TypeOK, ServerTyped, MemoryTyped, SteerInv, SteerPC
<1>1. \A r \in RunId' : \A n \in 1..Len(outbox'[r]) : outbox'[r][n].type = "input" => outbox'[r][n].of \in MessageId'
  <2>1. ASSUME NEW r \in RunId', NEW n \in 1..Len(outbox'[r]), outbox'[r][n].type = "input"
        PROVE  outbox'[r][n].of \in MessageId'
    <3>1. r \in RunId
      BY <2>1, OutboxGrows
    <3>2. CASE n \in DOMAIN outbox[r]
      BY <1>0, <2>1, <3>1, <3>2, EventsMove DEF InputInv
    <3>3. CASE NewEvent(r, n)
      <4>1. consumer.note.type # "input"
        BY DEF Base, TypeOK, MemoryTyped, Consumer, Note
      <4> QED
        BY <1>0, <2>1, <3>3, <4>1 DEF NewEvent
    <3> QED
      BY <2>1, <3>1, <3>2, <3>3, EventsMove
  <2> QED
    BY <2>1
<1>2. ASSUME NEW m \in MessageId
      PROVE  \A k, n \in InputsOf(outbox'[message'[m].run], m) : k = n
  <2>1. PICK r \in RunId : r = message[m].run /\ r = message'[m].run
    BY <1>0
  <2>2. \A k, n \in Inputs(r, m) : k = n
    BY <2>1 DEF InputInv
  <2>3. /\ InputsOf(outbox[r], m) = Inputs(r, m)
        /\ \A n \in InputsOf(outbox'[r], m) :
             n \in InputsOf(outbox[r], m) \/ (n = Len(outbox[r]) + 1 /\ InputsOf(outbox[r], m) = {})
    BY InputsMove
  <2>4. ASSUME NEW k \in InputsOf(outbox'[r], m), NEW n \in InputsOf(outbox'[r], m) PROVE k = n
    BY <2>2, <2>3
  <2> QED
    BY <2>1, <2>4
<1>3. ASSUME NEW m \in MessageId, ledger'[m].recorded \/ message'[m].answer = "ok"
      PROVE  InputsOf(outbox'[message'[m].run], m) # {}
  <2>1. InputsOf(outbox[message[m].run], m) # {}
    <3>1. ledger[m].recorded \/ message[m].answer = "ok" \/ (m = op.message /\ op.pc \in {"mark", "report"})
      BY <1>3, LedgerMoves, MessageMoves, Points DEF LedgerMoved, MessageMoved, Answering
    <3> QED
      BY <1>0, <3>1, InputsMove DEF InputInv, SteerPC
  <2> QED
    BY <1>0, <2>1, InputsMove
<1>4. ASSUME NEW m \in MessageId', m \notin MessageId
      PROVE  /\ InputsOf(outbox'[message'[m].run], m) = {}
             /\ ~ledger'[m].recorded /\ message'[m].answer # "ok"
  <2>1. PICK r \in RunId : SendSteer(r)
    BY <1>4, MessageGrows DEF Base
  <2>2. /\ m = Len(message) + 1 /\ message'[m] = [run |-> r, attempts |-> 1, answer |-> "waiting"]
        /\ ledger'[m] = NoDelivery
    BY <1>4, <2>1, MessageAdded
  <2>3. message'[m].run = r /\ message'[m].answer = "waiting" /\ ~ledger'[m].recorded
    BY <2>2 DEF NoDelivery
  <2>4. InputsOf(outbox[r], m) = {}
    BY <1>4, EventsMove DEF InputsOf, InputInv
  <2>5. InputsOf(outbox'[r], m) = {}
    BY <1>4, <2>4, InputsMove
  <2> QED
    BY <2>3, <2>5
<1>5. op'.pc \in {"mark", "report"} => InputsOf(outbox'[op'.run], op'.message) # {}
  <2>1. CASE op' = op
    <3>1. op.pc \in {"mark", "report"} => InputsOf(outbox[op.run], op.message) # {} /\ op.run \in RunId
      BY <1>0, InputsMove DEF InputInv, SteerPC
    <3> QED
      BY <2>1, <3>1, InputsMove
  <2>2. CASE MarkRecorded /\ Moved("report")
    <3>1. InputsOf(outbox[op.run], op.message) # {} /\ op.run \in RunId
      BY <1>0, <2>2, InputsMove, Points DEF InputInv, SteerPC
    <3> QED
      BY <2>2, <3>1, InputsMove DEF Moved
  <2>3. CASE RecordInput /\ (Moved("report") \/ Moved("mark"))
    <3>0. op.message \in MessageId /\ op.run = message[op.message].run /\ op.run \in RunId
      BY <1>0, <2>3, Points DEF SteerPC
    <3>1. CASE ledger[op.message].recorded
      <4>1. InputsOf(outbox[op.run], op.message) # {}
        BY <3>0, <3>1, InputsMove DEF InputInv
      <4> QED
        BY <2>3, <3>0, <4>1, InputsMove DEF Moved
    <3>2. CASE HasInput(op.run, op.message)
      <4>1. InputsOf(outbox[op.run], op.message) # {}
        BY <3>0, <3>2 DEF HasInput, InputsOf
      <4> QED
        BY <2>3, <3>0, <4>1, InputsMove DEF Moved
    <3>3. CASE ~ledger[op.message].recorded /\ ~HasInput(op.run, op.message)
      <4>1. outbox' = [outbox EXCEPT ![op.run] = Append(outbox[op.run],
                         [sequence |-> Highest(op.run, op.message) + 1, type |-> "input", of |-> op.message])]
        BY <2>3, <3>3 DEF RecordInput, Found
      <4>2. outbox \in [RunId -> Seq(Event)]
        BY DEF Base, TypeOK, FilesTyped
      <4>3. outbox'[op.run] = Append(outbox[op.run],
                         [sequence |-> Highest(op.run, op.message) + 1, type |-> "input", of |-> op.message])
        BY <3>0, <4>1, <4>2
      <4>4. Highest(op.run, op.message) + 1 \in Nat
        BY <3>0, HighestIsLast, Rows DEF Base
      <4>5. [sequence |-> Highest(op.run, op.message) + 1, type |-> "input", of |-> op.message] \in Event
        BY <4>4 DEF Event, Base, TypeOK, MemoryTyped, Operation
      <4>6. /\ Len(outbox[op.run]) + 1 \in DOMAIN outbox'[op.run]
            /\ outbox'[op.run][Len(outbox[op.run]) + 1] =
                 [sequence |-> Highest(op.run, op.message) + 1, type |-> "input", of |-> op.message]
        BY <3>0, <4>2, <4>3, <4>5, Pushed
      <4>7. InputsOf(outbox'[op.run], op.message) # {}
        BY <4>6 DEF InputsOf
      <4> QED
        BY <2>3, <4>7 DEF Moved
    <3> QED
      BY <3>1, <3>2, <3>3
  <2>4. CASE op'.pc \notin {"mark", "report"}
    BY <2>4
  <2> QED
    BY <2>1, <2>2, <2>3, <2>4, OperationMoves
    DEF OperationMoved, SteerMoved, Moved, Taken, Request, Repetition, Free, SteerPC
<1> QED
  BY <1>1, <1>2, <1>3, <1>4, <1>5, SMTT(30) DEF InputInv, Inputs, InputsOf

\* What is known to have entered a turn stays known.
KnownNext(m) == m # 0 => m \in MessageId' /\ delivered'[m] > 0

LEMMA KnownStays ==
  ASSUME Base, Step, NEW m, Known(m)
  PROVE  KnownNext(m)
<1>1. ASSUME NEW k \in MessageId, delivered[k] > 0 PROVE k \in MessageId' /\ delivered'[k] > 0
  <2>1. delivered[k] \in Nat
    BY DEF Base, TypeOK, ServerTyped
  <2> QED
    BY <1>1, <2>1, MessageGrows, DeliveredTyped DEF Base
<1> QED
  BY <1>1 DEF Known, KnownNext

LEMMA AnswerKept ==
  ASSUME Base, LockInv, AnswerInv, Step
  PROVE  AnswerInv'
<1>1. ASSUME NEW r \in RunId', NEW n \in 1..Len(outbox'[r]), outbox'[r][n].type = "output"
      PROVE  KnownNext(outbox'[r][n].of)
  <2>1. r \in RunId
    BY <1>1, OutboxGrows
  <2>2. CASE n \in DOMAIN outbox[r]
    BY <1>1, <2>1, <2>2, EventsMove, KnownStays DEF AnswerInv
  <2>3. CASE NewEvent(r, n)
    <3>1. ConsumerAppends /\ consumer.note.type = "output" /\ outbox'[r][n].of = consumer.note.of
      BY <1>1, <2>3 DEF NewEvent
    <3>2. Known(consumer.note.of)
      BY <3>1 DEF AnswerInv, ConsumerAppends, ConsumerIs
    <3> QED
      BY <3>1, <3>2, KnownStays
  <2> QED
    BY <1>1, <2>1, <2>2, <2>3, EventsMove
<1> DEFINE N == {note \in Note : note.type = "output" => KnownNext(note.of)}
<1>2. \A n \in 1..Len(notes) : notes[n] \in N
  BY Rows, KnownStays DEF Base, AnswerInv
<1>3. ASSUME NEW t, NEW status \in {"completed", "interrupted"}, t \in Nat PROVE Completion(t, status) \in N
  BY <1>3 DEF Completion, Note, Status, Terminal
<1>4. [Completion(0, "completed") EXCEPT !.own = FALSE] \in N
  BY DEF Completion, Note, Status, Terminal
<1>5. ASSUME NEW t \in TurnId, NEW m \in Answerable(t)
      PROVE  [type |-> "output", turn |-> t, of |-> m, status |-> "running", own |-> TRUE] \in N
  <2>1. m \in Nat /\ t \in Nat /\ Known(m)
    BY Rows DEF Answerable, Base, Known
  <2>2. KnownNext(m)
    BY <2>1, KnownStays
  <2>3. [type |-> "output", turn |-> t, of |-> m, status |-> "running", own |-> TRUE] \in Note
    BY <2>1 DEF Note, Status
  <2> QED
    BY <2>2, <2>3
<1>6. active.turn \in Nat /\ TurnId \subseteq Nat
  BY Rows DEF Base, TypeOK, MemoryTyped, Active
<1>7. N \subseteq Note
  OBVIOUS
<1> HIDE DEF N
<1>8. \A n \in 1..Len(notes') : notes'[n] \in N
  <2>1. CASE notes' = notes \/ notes' = <<>> \/ (notes # <<>> /\ notes' = Tail(notes))
             \/ \E n \in 0..Len(notes) : notes' = SubSeq(notes, 1, n)
    BY <1>2, <1>7, <2>1, NotesKept
  <2>2. CASE \E note \in N : notes' = Append(notes, note)
    BY <1>2, <1>7, <2>2, NotesKept
  <2> QED
    BY <1>3, <1>4, <1>5, <1>6, <2>1, <2>2, NotesMoves
<1>9. \A n \in 1..Len(notes') : notes'[n].type = "output" => KnownNext(notes'[n].of)
  BY <1>8 DEF N
<1>10. consumer'.todo # <<>> /\ consumer'.note.type = "output" => KnownNext(consumer'.note.of)
  <2>1. consumer.todo # <<>> /\ consumer.note.type = "output" => KnownNext(consumer.note.of)
    BY KnownStays DEF AnswerInv
  <2>2. CASE consumer' = Waiting
    BY <2>2 DEF Waiting
  <2>3. CASE consumer' = consumer
    BY <2>1, <2>3
  <2>4. CASE Consume
    <3>1. notes # <<>> /\ consumer'.note = Head(notes)
      BY <2>4 DEF Consume
    <3>2. Head(notes) = notes[1] /\ 1 \in 1..Len(notes)
      BY <3>1, Shifted DEF Base, TypeOK, CodexTyped
    <3> QED
      BY <1>2, <3>1, <3>2 DEF N
  <2>5. CASE consumer'.note = consumer.note /\ consumer.todo # <<>>
    BY <2>1, <2>5
  <2> QED
    BY <2>2, <2>3, <2>4, <2>5, ConsumerMoves DEF ConsumerMoved
<1> QED
  BY <1>1, <1>9, <1>10 DEF AnswerInv, Known, KnownNext

\* A note to come that would answer message m needs a turn of its run that runs.
LEMMA SilenceKept ==
  ASSUME Base, LockInv, Step, NEW m \in MessageId, Silent(m)
  PROVE  Silent(m)'
<1>1. m # 0 /\ message'[m].run = message[m].run /\ HasTurn(message[m].run)
  BY Rows, MessageGrows DEF Base, SteerInv
<1>2. ASSUME NEW t \in TurnId', turn'[t].run = message[m].run PROVE turn'[t].state # "running"
  <2>1. CASE t \in TurnId
    BY <1>2, <2>1, TurnGrows DEF Silent, Base
  <2>2. CASE TurnStarts /\ turn'[t].run = op.run
    BY <1>1, <1>2, <2>2 DEF TurnStarts, HasTurn, Base, StartInv
  <2> QED
    BY <2>1, <2>2, TurnsOfRuns DEF Base
<1> DEFINE N == {note \in Note : ~Answers(note, m)}
<1>3. \A n \in 1..Len(notes) : notes[n] \in N
  BY Rows DEF Base, Silent
<1>4. ASSUME NEW t, NEW status \in {"completed", "interrupted"}, t \in Nat PROVE Completion(t, status) \in N
  BY <1>4 DEF Completion, Note, Status, Terminal, Answers
<1>5. [Completion(0, "completed") EXCEPT !.own = FALSE] \in N
  BY DEF Completion, Note, Status, Terminal, Answers
<1>6. ASSUME NEW t \in TurnId, NEW k \in Answerable(t), EmitOutput(t, k)
      PROVE  [type |-> "output", turn |-> t, of |-> k, status |-> "running", own |-> TRUE] \in N
  <2>1. k \in Nat /\ t \in Nat
    BY Rows DEF Answerable, Base
  <2>2. [type |-> "output", turn |-> t, of |-> k, status |-> "running", own |-> TRUE] \in Note
    BY <2>1 DEF Note, Status
  <2>3. k # m
    BY <1>1, <1>6 DEF EmitOutput, IsLive, Answerable, Silent
  <2> QED
    BY <2>2, <2>3 DEF Answers
<1>7. active.turn \in Nat /\ TurnId \subseteq Nat
  BY Rows DEF Base, TypeOK, MemoryTyped, Active
<1>8. N \subseteq Note
  OBVIOUS
<1> HIDE DEF N
<1>9. \A n \in 1..Len(notes') : notes'[n] \in N
  <2>1. CASE notes' = notes \/ notes' = <<>> \/ (notes # <<>> /\ notes' = Tail(notes))
             \/ \E n \in 0..Len(notes) : notes' = SubSeq(notes, 1, n)
    BY <1>3, <1>8, <2>1, NotesKept
  <2>2. CASE \E note \in N : notes' = Append(notes, note)
    BY <1>3, <1>8, <2>2, NotesKept
  <2> QED
    BY <1>4, <1>5, <1>6, <1>7, <2>1, <2>2, NotesMoves
<1>10. consumer'.todo # <<>> => ~Answers(consumer'.note, m)
  <2>2. CASE consumer' = Waiting
    BY <2>2 DEF Waiting
  <2>3. CASE consumer' = consumer
    BY <2>3 DEF Silent
  <2>4. CASE Consume
    <3>1. notes # <<>> /\ consumer'.note = Head(notes)
      BY <2>4 DEF Consume
    <3>2. Head(notes) = notes[1] /\ 1 \in 1..Len(notes)
      BY <3>1, Shifted DEF Base, TypeOK, CodexTyped
    <3> QED
      BY <1>3, <3>1, <3>2 DEF N
  <2>5. CASE consumer'.note = consumer.note /\ consumer.todo # <<>>
    BY <2>5 DEF Silent
  <2> QED
    BY <2>2, <2>3, <2>4, <2>5, ConsumerMoves DEF ConsumerMoved
<1>11. \A n \in 1..Len(notes') : ~Answers(notes'[n], m)
  BY <1>9 DEF N
<1> QED
  BY <1>1, <1>2, <1>10, <1>11 DEF Silent, Answers

\* After a restart no turn runs and no notification is on its way.
LEMMA RestartIsSilent ==
  ASSUME Base, Restarted, NEW m \in MessageId
  PROVE  Silent(m)'
<1>1. turn \in [TurnId -> Turn]
  BY Rows DEF Base
<1>2. \A t \in TurnId' : turn'[t].state # "running"
  <2>1. turn' = [t \in TurnId |-> IF turn[t].state = "running"
                                  THEN [turn[t] EXCEPT !.state = "interrupted"] ELSE turn[t]]
    BY DEF Restarted, Cut
  <2>2. TurnId' = TurnId
    BY <2>1 DEF TurnId
  <2> QED
    BY <1>1, <2>1, <2>2 DEF Turn
<1>3. Len(notes') = 0 /\ consumer'.todo = <<>>
  BY DEF Restarted, Waiting
<1> QED
  BY <1>2, <1>3 DEF Silent

\* An input stands before its answers.
LEMMA PrecedenceKept ==
  ASSUME Base, LockInv, DeliveryInv, InputInv, AnswerInv, PlaceInv, Step
  PROVE  InputPrecedesItsAnswer'
<1>1. ASSUME NEW r \in RunId', NEW n \in DOMAIN outbox'[r], NEW m, m = outbox'[r][n].of,
             outbox'[r][n].type = "output", m # 0,
             message'[m].run = r, ledger'[m].state = "accepted"
      PROVE  \E k \in InputsOf(outbox'[r], m) : k < n
  <2>1. r \in RunId
    BY <1>1, OutboxGrows
  <2>2. n \in 1..Len(outbox'[r])
    BY <1>1, <2>1, EventsMove
  <2>3. CASE n \in DOMAIN outbox[r]
    <3>1. outbox[r][n].type = "output" /\ outbox[r][n].of = m
      BY <1>1, <2>1, <2>3, EventsMove
    <3>2. m \in MessageId
      BY <1>1, <2>1, <2>3, <3>1, EventsMove DEF AnswerInv, Known
    <3>3. message[m].run = r
      BY <1>1, <3>2, MessageGrows DEF Base
    <3>4. CASE ledger[m].state = "accepted"
      <4>1. \E k \in Inputs(r, m) : k < n
        BY <1>1, <2>1, <2>3, <3>1, <3>3, <3>4 DEF PlaceInv, InputPrecedesItsAnswer
      <4>2. Inputs(r, m) \subseteq InputsOf(outbox'[r], m)
        BY <2>1, InputsMove
      <4> QED
        BY <4>1, <4>2
    <3>5. CASE ledger[m].state # "accepted"
      <4>1. SteerAccepted /\ m = op.message /\ op.pc = "steered"
        BY <1>1, <3>2, <3>5, LedgerMoves, Points DEF LedgerMoved
      <4>2. op.run = r /\ Unanswered(op.run, op.message)
        BY <3>3, <4>1 DEF Base, SteerInv, SteerPC, PlaceInv
      <4>3. FALSE
        BY <2>1, <2>3, <3>1, <4>1, <4>2, EventsMove DEF Unanswered, Answers
      <4> QED
        BY <4>3
    <3> QED
      BY <3>4, <3>5
  <2>4. CASE NewEvent(r, n) /\ n \notin DOMAIN outbox[r]
    <3>1. /\ ConsumerAppends /\ consumer.note.type = "output" /\ m = consumer.note.of
          /\ n = Len(outbox[r]) + 1
      BY <1>1, <2>4 DEF NewEvent
    <3>2. consumer.todo # <<>> /\ ledger' = ledger
      BY <3>1 DEF ConsumerAppends, ConsumerIs
    <3>3. m \in MessageId
      BY <1>1, <3>1, <3>2 DEF AnswerInv, Known
    <3>4. message[m].run = r /\ ledger[m].state = "accepted"
      BY <1>1, <3>2, <3>3, MessageGrows DEF Base
    <3>5. ~Silent(m)
      BY <3>1, <3>2 DEF Silent, Answers
    <3>6. ~(op.pc = "record" /\ ~op.again)
      BY <3>2 DEF LockInv, ConsumerInv, GuardInv, SteerPC
    <3>7. Inputs(r, m) # {}
      BY <3>3, <3>4, <3>5, <3>6 DEF PlaceInv
    <3>8. PICK k \in Inputs(r, m) : TRUE
      BY <3>7
    <3>9. k \in DOMAIN outbox[r] /\ k \in InputsOf(outbox'[r], m)
      BY <2>1, <3>8, InputsMove DEF Inputs
    <3>10. k < n
      BY <2>1, <3>1, <3>9, EventsMove
    <3> QED
      BY <3>9, <3>10
  <2> QED
    BY <1>1, <2>1, <2>3, <2>4, EventsMove
<1> QED
  BY <1>1 DEF InputPrecedesItsAnswer, Inputs, InputsOf

LEMMA PlaceKept ==
  ASSUME Base, LockInv, DeliveryInv, InputInv, AnswerInv, PlaceInv, Step
  PROVE  PlaceInv'
<1>0. /\ op.pc \in SteerPC => op.message \in MessageId /\ op.run = message[op.message].run /\ op.run \in RunId
      /\ op.message # 0 \/ (op.pc \notin SteerPC)
      /\ op.again => op.pc \in RecordPC
  BY Rows DEF Base, TypeOK, ServerTyped, MemoryTyped, SteerInv, SteerPC
<1>1. op'.pc = "steered" => \A n \in 1..Len(outbox'[op'.run]) : ~Answers(outbox'[op'.run][n], op'.message)
  <2>1. CASE TurnSteered /\ Moved("steered")
    <3>1. op.pc = "steer" /\ delivered[op.message] = 0 /\ outbox' = outbox
      BY <2>1, Points DEF DeliveryInv, TurnSteered, files
    <3>2. \A n \in 1..Len(outbox[op.run]) : ~Answers(outbox[op.run][n], op.message)
      BY <1>0, <3>1 DEF AnswerInv, Known, Answers, SteerPC
    <3> QED
      BY <2>1, <3>1, <3>2 DEF Moved
  <2>2. CASE op' = op /\ op.pc = "steered"
    <3>1. op.run \in RunId /\ \A n \in 1..Len(outbox[op.run]) : ~Answers(outbox[op.run][n], op.message)
      BY <1>0, <2>2 DEF PlaceInv, Unanswered, SteerPC
    <3>2. ~ConsumerAppends /\ ~RecordInput
      BY <1>0, <2>2, Points DEF LockInv, ConsumerInv, GuardInv, SteerPC, RecordPC, ConsumerAppends, ConsumerIs
    <3>3. ASSUME NEW n \in 1..Len(outbox'[op.run]) PROVE ~Answers(outbox'[op.run][n], op.message)
      <4>1. CASE n \in DOMAIN outbox[op.run]
        BY <3>1, <4>1, EventsMove
      <4>2. CASE NewEvent(op.run, n)
        BY <3>2, <4>2 DEF NewEvent, Answers
      <4> QED
        BY <3>1, <4>1, <4>2, EventsMove
    <3> QED
      BY <2>2, <3>3
  <2>3. op'.pc = "steered" => (TurnSteered /\ Moved("steered")) \/ op' = op
    BY OperationMoves DEF OperationMoved, SteerMoved, Moved, Taken, Request, Repetition, Free, SteerPC
  <2> QED
    BY <2>1, <2>2, <2>3
<1>2. ASSUME NEW m \in MessageId', ledger'[m].state = "accepted", InputsOf(outbox'[message'[m].run], m) = {}
      PROVE  (op'.pc = "record" /\ op'.message = m /\ ~op'.again) \/ Silent(m)'
  <2>1. m \in MessageId
    BY <1>2, LedgerTyped DEF NoDelivery
  <2>2. PICK r \in RunId : r = message[m].run /\ r = message'[m].run
    BY <2>1, MessageGrows DEF Base, TypeOK, ServerTyped
  <2>3. Inputs(r, m) = {}
    <3>1. InputsOf(outbox'[r], m) = {}
      BY <1>2, <2>2
    <3>2. InputsOf(outbox[r], m) = Inputs(r, m) /\ InputsOf(outbox[r], m) \subseteq InputsOf(outbox'[r], m)
      BY InputsMove
    <3> QED
      BY <3>1, <3>2
  <2>4. CASE ledger[m].state = "accepted" /\ Silent(m)
    BY <2>1, <2>4, SilenceKept
  <2>5. CASE op.pc = "record" /\ op.message = m /\ ~op.again
    <3>1. CASE op' = op
      BY <2>5, <3>1
    <3>2. CASE op' = Free
      <4>1. Restarted
        BY <2>5, <3>2, Freed, Points DEF LockInv, SteerPC
      <4> QED
        BY <2>1, <4>1, RestartIsSilent
    <3>3. CASE RecordInput /\ (Moved("report") \/ Moved("mark"))
      <4>1. InputsOf(outbox'[op'.run], op'.message) # {}
        BY <3>3, InputKept DEF InputInv, Inputs, InputsOf, Moved
      <4>2. op'.run = r /\ op'.message = m
        BY <1>0, <2>2, <2>5, <3>3 DEF Moved, SteerPC
      <4> QED
        BY <1>2, <2>2, <4>1, <4>2
    <3> QED
      BY <2>5, <3>1, <3>2, <3>3, OperationMoves DEF OperationMoved, SteerMoved, Taken, SteerPC
  <2>6. CASE ledger[m].state # "accepted"
    <3>1. SteerAccepted /\ m = op.message /\ op.pc = "steered"
      BY <1>2, <2>1, <2>6, LedgerMoves, Points DEF LedgerMoved
    <3>2. op'.pc = "record" /\ op'.message = op.message /\ op'.again = op.again
      BY <3>1 DEF SteerAccepted, Base, TypeOK, MemoryTyped, Operation
    <3>3. ~op.again
      BY <1>0, <3>1 DEF RecordPC
    <3> QED
      BY <3>1, <3>2, <3>3
  <2> QED
    BY <2>1, <2>2, <2>3, <2>4, <2>5, <2>6 DEF PlaceInv
<1> QED
  BY <1>1, <1>2, PrecedenceKept DEF PlaceInv, Unanswered, Inputs, InputsOf

-----------------------------------------------------------------------------
(* The last batch: attempts, and relays that have seen the end.            *)

\* A steer whose request is released has its answer.
LEMMA ReleasedIsAnswered ==
  ASSUME Base, PollInv, Step, op' = Free, op.pc \in SteerPC
  PROVE  message'[op.message].answer # "waiting"
<1>1. op.message \in MessageId /\ message \in [MessageId -> Message]
  BY Rows DEF Base, TypeOK, MemoryTyped, SteerInv
<1>2. ASSUME NEW answer, Answered(op.message, answer)
      PROVE  message'[op.message].answer = answer
  BY <1>1, <1>2 DEF Answered, Message
<1>3. CASE Restarted
  <2>1. message'[op.message] = IF message[op.message].answer = "waiting"
                               THEN [message[op.message] EXCEPT !.answer = "unknown"]
                               ELSE message[op.message]
    BY <1>1, <1>3 DEF Restarted
  <2> QED
    BY <1>1, <2>1 DEF Message
<1>4. CASE SteerRefused \/ SteerRejected \/ SteerLost \/ Report
  BY <1>2, <1>4 DEF SteerRefused, SteerRejected, SteerLost, UnknownAnswer, Report
<1> QED
  BY <1>3, <1>4, Freed

LEMMA AttemptKept ==
  ASSUME Base, LockInv, AttemptInv, Step
  PROVE  AttemptInv'
<1>0. /\ message \in [MessageId -> Message] /\ PollInv
      /\ op.again => op.pc \in RecordPC
  BY Rows DEF Base, TypeOK, SteerInv, LockInv
<1>1. ASSUME NEW m \in MessageId', m \notin MessageId
      PROVE  message'[m].attempts > 0 /\ ledger'[m].state = "none"
  <2>1. PICK r \in RunId : SendSteer(r)
    BY <1>1, MessageGrows DEF Base
  <2>2. /\ MessageId' = MessageId \cup {Len(message) + 1}
        /\ message'[Len(message) + 1] = [run |-> r, attempts |-> 1, answer |-> "waiting"]
        /\ ledger'[Len(message) + 1] = NoDelivery
    BY <2>1, MessageAdded
  <2>3. m = Len(message) + 1
    BY <1>1, <2>2
  <2>4. message'[m].attempts = 1
    BY <2>2, <2>3
  <2> QED
    BY <2>2, <2>3, <2>4 DEF NoDelivery
<1>2. ASSUME NEW m \in MessageId
      PROVE  message'[m].attempts > 0
  <2>1. message[m].attempts > 0 /\ message[m].attempts \in Nat
    BY <1>0 DEF AttemptInv, Message
  <2>2. message'[m] \in Message /\ message[m].attempts <= message'[m].attempts
    <3>1. message' \in Seq(Message) /\ MessageId' = 1..Len(message') /\ m \in MessageId'
      BY MessageGrows DEF Base
    <3> QED
      BY <3>1, MessageGrows, LenProperties DEF Base
  <2>3. message'[m].attempts \in Nat
    BY <2>2 DEF Message
  <2> QED
    BY <2>1, <2>2, <2>3
<1>3. ASSUME NEW m \in MessageId, ledger'[m].state # "none", message'[m].answer = "waiting"
      PROVE  (op'.pc \in SteerPC /\ op'.message = m /\ ~op'.again) \/ message'[m].attempts > 1
  <2>1. CASE RepeatSteer(m) /\ message'[m].attempts = message[m].attempts + 1
    BY <1>0, <2>1 DEF AttemptInv, Message
  <2>2. CASE message'[m] = message[m]
    <3>1. CASE op.pc \in SteerPC /\ op.message = m /\ ~op.again
      <4>1. op' # Free
        BY <1>0, <1>3, <3>1, ReleasedIsAnswered
      <4> QED
        BY <3>1, <4>1, OperationMoves DEF OperationMoved, SteerMoved, Moved, Taken, SteerPC
    <3>2. CASE ledger[m].state # "none"
      BY <1>3, <2>2, <3>1, <3>2 DEF AttemptInv
    <3>3. CASE ledger[m].state = "none"
      <4>1. (SteerPending \/ SteerRejected \/ SteerAccepted) /\ m = op.message
        BY <1>3, <3>3, LedgerMoves DEF LedgerMoved
      <4>2. op.pc \in SteerPC \ RecordPC
        BY <4>1, Points DEF SteerPC, RecordPC
      <4> QED
        BY <1>0, <3>1, <4>1, <4>2
    <3> QED
      BY <3>2, <3>3
  <2> QED
    BY <1>3, <2>1, <2>2, MessageMoves DEF MessageMoved, Answering
<1> QED
  BY <1>1, <1>2, <1>3 DEF AttemptInv

\* A relay that has just seen the end of its run has tried operationMu for it.
LEMMA SeenMoves ==
  ASSUME Base, RelayInv, Step, NEW r \in RunId, EndSeen(relay'[r])
  PROVE  \/ SeenOver(r)
         \/ Poll(r) /\ op.pc = "idle" /\ file[r] \in Terminal
<1>1. CASE Poll(r) /\ relay'[r].status = Seen(r)
  <2>1. Seen(r) \in Terminal
    BY <1>1 DEF EndSeen
  <2> QED
    BY <1>1, <2>1 DEF Seen, TryLock, IsRunning, Terminal
<1>2. CASE Scan(r) /\ relay'[r].status = relay[r].status
  BY <1>2 DEF SeenOver, EndSeen, Scan
<1> QED
  BY <1>1, <1>2, RelayRows DEF SeenOver, EndSeen

LEMMA RelayKept ==
  ASSUME Base, LockInv, OverInv, RelayInv, Step
  PROVE  RelayInv'
<1>1. ASSUME NEW r \in RunId', relay'[r].pc = "scan", relay'[r].status \in Terminal
      PROVE  relay'[r].locked
  <2>1. r \in RunId
    BY <1>1, RelayRows DEF NoPoll
  <2>2. CASE Poll(r) /\ relay'[r].status = Seen(r) /\ relay'[r].locked = TryLock
    BY <1>1, <2>2 DEF Seen, IsRunning, Terminal
  <2> QED
    BY <1>1, <2>1, <2>2, RelayRows DEF RelayInv
<1>2. ASSUME NEW r \in RunId', relay'[r].pc = "final"
      PROVE  relay'[r].status \in Terminal
  BY <1>2, RelayRows DEF RelayInv, NoPoll
<1>3. ASSUME op'.pc \in SteerPC \ {"lock"}, ~op'.again, EndSeen(relay'[op'.run])
      PROVE  FALSE
  <2>1. /\ op \in Operation /\ op.run \in 0..Len(file)
        /\ op.again => op.pc \in RecordPC
        /\ op.pc \in SteerPC => op.run \in RunId
    BY Rows DEF Base, TypeOK, MemoryTyped, ServerTyped, SteerInv
  <2>2. CASE op.pc \in SteerPC \ {"lock"} /\ ~op.again /\ op'.run = op.run
    <3>1. ~SeenOver(op.run)
      BY <2>2 DEF RelayInv
    <3> QED
      BY <1>3, <2>1, <2>2, <3>1, SeenMoves DEF SteerPC
  <2>3. CASE SteerPending /\ op.pc = "lock" /\ op'.run = op.run
    <3>1. active.run = op.run /\ active.status = "running"
      BY <2>3 DEF SteerPending, Matches
    <3>2. ~SeenOver(op.run)
      BY <2>1, <2>3, <3>1 DEF OverInv, Over, Terminal, SteerPC
    <3> QED
      BY <1>3, <2>1, <2>3, <3>2, SeenMoves DEF SteerPC
  <2> QED
    BY <1>3, <2>1, <2>2, <2>3, OperationMoves
       DEF OperationMoved, SteerMoved, Moved, Taken, Request, Repetition, Free, SteerPC, RecordPC
<1> QED
  BY <1>1, <1>2, <1>3 DEF RelayInv, SeenOver

-----------------------------------------------------------------------------
(* Runs that are over.                                                     *)

\* Who writes what into the status file of a run.
FileMoved(r) ==
  \/ file'[r] = file[r]
  \/ file'[r] = "running"
  \/ ThreadFails /\ r = op.run /\ file'[r] = "failed"
  \/ WriteTerminal /\ r = op.run /\ file'[r] = op.status
  \/ MonitorWrites /\ r = monitor.run /\ file'[r] = "unknown"
  \/ ConsumerWrites /\ r = consumer.run /\ file'[r] = consumer.note.status
  \/ Restarted /\ file'[r] = Recovered(file[r])

LEMMA FileMoves ==
  ASSUME Base, Step, NEW r \in RunId
  PROVE  FileMoved(r)
<1>1. /\ TypeOK /\ op.status \in Status /\ consumer.note.status \in Status
      /\ {"failed", "running", "unknown"} \subseteq Status
  BY DEF Base, TypeOK, MemoryTyped, Operation, Consumer, Note, Status, Terminal
<1>2. CASE file' = file
  BY <1>2 DEF FileMoved
<1>3. CASE StartTurn
  BY <1>3, RunAdded DEF FileMoved
<1>4. CASE Restarted
  BY <1>4 DEF Restarted, FileMoved
<1>5. ASSUME NEW q, NEW status \in Status, WriteStatus(q, status)
      PROVE  file'[r] = IF r = q THEN status ELSE file[r]
  BY <1>1, <1>5, StatusWritten
<1>6. CASE ThreadFails
  <2>1. file'[r] = IF r = op.run THEN "failed" ELSE file[r]
    BY <1>1, <1>5, <1>6 DEF ThreadFails
  <2> QED
    BY <1>6, <2>1 DEF FileMoved
<1>7. CASE WriteTerminal
  <2>1. file'[r] = IF r = op.run THEN op.status ELSE file[r]
    BY <1>1, <1>5, <1>7 DEF WriteTerminal
  <2> QED
    BY <1>7, <2>1 DEF FileMoved
<1>8. CASE WriteRunning
  <2>1. file'[r] = IF r = op.run THEN "running" ELSE file[r]
    BY <1>1, <1>5, <1>8 DEF WriteRunning
  <2> QED
    BY <2>1 DEF FileMoved
<1>9. CASE MonitorWrites
  <2>1. file'[r] = IF r = monitor.run THEN "unknown" ELSE file[r]
    BY <1>1, <1>5, <1>9 DEF MonitorWrites
  <2> QED
    BY <1>9, <2>1 DEF FileMoved
<1>10. CASE ConsumerWrites
  <2>1. file'[r] = IF r = consumer.run THEN consumer.note.status ELSE file[r]
    BY <1>1, <1>5, <1>10 DEF ConsumerWrites
  <2> QED
    BY <1>10, <2>1 DEF FileMoved
<1>11. CASE \/ ThreadReady \/ TurnStarts \/ TurnStartFails("failed") \/ TurnStartFails("unknown")
            \/ TurnStarted \/ Announce \/ InterruptStep \/ Interrupt
  BY <1>2, <1>11 DEF files, InterruptStep, Interrupt, ThreadReady, TurnStarts, TurnStartFails,
     TurnStarted, Announce, TurnInterrupted, InterruptFails, Interrupted
<1>12. CASE \/ Skip \/ Consume \/ ConsumerAppends \/ ConsumerEndsRun \/ CodexStep \/ MonitorChecks
            \/ MonitorFails
  BY <1>2, <1>12 DEF files, CodexStep, Skip, Consume, ConsumerAppends, ConsumerEndsRun,
     CompleteForeign, AppServerDies, CompleteTurn, EmitOutput, MonitorChecks, MonitorFails
<1>13. CASE \/ SteerStep
            \/ \E q \in RunId : SendSteer(q) \/ Poll(q) \/ Scan(q)
            \/ \E m \in MessageId : RepeatSteer(m) \/ SteerTaken(m)
  BY <1>2, <1>13 DEF files, SteerStep, SteerRefused, SteerPending, TurnSteered,
     TurnRefusesSteer, SteerRejected, SteerLost, SteerAccepted, RecordInput, MarkRecorded, Report,
     SendSteer, Poll, Scan, RepeatSteer, SteerTaken, SteerKnown, SteerNew
<1> QED
  BY <1>3, <1>4, <1>6, <1>7, <1>8, <1>9, <1>10, <1>11, <1>12, <1>13 DEF Step, StartStep, ConsumerStep

\* Only a new run is being resumed.
LEMMA ResumeMoves ==
  ASSUME Base, Step, op'.pc = "resume"
  PROVE  op' = op \/ (StartTurn /\ op'.run = Len(file) + 1)
<1>1. op \in Operation
  BY DEF Base, TypeOK, MemoryTyped
<1>2. ~StartStep /\ ~InterruptStep /\ ~Interrupt
  <2>1. ASSUME NEW pc, pc # "resume" PROVE op' # [op EXCEPT !.pc = pc]
    BY <1>1, <2>1 DEF Operation
  <2>2. ASSUME NEW pc, pc # "resume", NEW status PROVE op' # [op EXCEPT !.pc = pc, !.status = status]
    BY <1>1, <2>2 DEF Operation
  <2>3. op' # Free /\ op' # Request("interrupt", active.run, 0)
    BY DEF Free, Request
  <2> QED
    BY <2>1, <2>2, <2>3 DEF StartStep, ThreadReady, ThreadFails, TurnStarts, TurnStartFails, WriteTerminal,
       TurnStarted, WriteRunning, Announce, InterruptStep, Interrupt, TurnInterrupted, InterruptFails,
       Interrupted
<1>3. ~SteerStep
  BY <1>1 DEF SteerStep, SteerRefused, SteerPending, TurnSteered, TurnRefusesSteer, SteerRejected,
     SteerLost, SteerAccepted, RecordInput, MarkRecorded, Report, Answered, Request, Free, Operation
<1>4. ~(\E m \in MessageId : SteerTaken(m)) /\ op' # Free /\ ~(\E r \in RunId : op' = Request("poll", r, 0))
  BY DEF SteerTaken, SteerKnown, SteerNew, Answered, Request, Repetition, Free
<1>5. StartTurn => op'.run = Len(file) + 1
  BY DEF StartTurn, Request
<1> QED
  BY <1>2, <1>3, <1>4, <1>5, OperationElse

\* How the run in memory changes, seen from its status.
LEMMA ActiveMoves ==
  ASSUME Base, ConsumerInv, Step
  PROVE  \/ active'.run = active.run /\ active'.status = active.status
         \/ active'.run = active.run /\ active'.status \in Terminal
         \/ active'.run = active.run /\ active.status = "starting"
         \/ active' = NoRun /\ op' = Free
         \/ active'.run = op.run /\ op.pc = "resume" /\ op'.pc = "call" /\ ThreadReady
<1>1. active \in Active /\ op \in Operation
  BY DEF Base, TypeOK, MemoryTyped
<1>2. CASE TurnStarted /\ active' = [active EXCEPT !.turn = Len(turn), !.status = "running"]
  <2>1. active.status = "starting" \/ active' = active
    BY <1>2 DEF TurnStarted
  <2> QED
    BY <1>1, <1>2, <2>1 DEF Active
<1>3. CASE ThreadReady
  BY <1>1, <1>3 DEF ThreadReady, Operation
<1>4. CASE Restarted
  BY <1>4 DEF Restarted
<1>5. CASE ConsumerEndsRun
  BY <1>1, <1>5, EndsRun DEF Active
<1>6. CASE \E status \in Terminal : active' = [active EXCEPT !.status = status]
  BY <1>1, <1>6 DEF Active
<1>7. CASE \E sequence \in Nat : active' = [active EXCEPT !.sequence = sequence]
  BY <1>1, <1>7 DEF Active
<1> QED
  BY <1>2, <1>3, <1>4, <1>5, <1>6, <1>7, ActiveSteps DEF ActiveWritten

\* A run that is over stays over.
LEMMA OverStays ==
  ASSUME Base, ConsumerInv, Step, NEW r \in RunId, Over(r)
  PROVE  Over(r)'
<1>1. /\ r \in Nat /\ r # 0 /\ r # Len(file) + 1
      /\ "starting" \notin Terminal
  BY Rows DEF Base, Terminal
<1>2. op'.pc = "resume" => op'.run # r
  BY <1>1, ResumeMoves DEF Over
<1>3. active'.run = r => active'.status \in Terminal
  BY <1>1, ActiveMoves DEF Over, NoRun
<1> QED
  BY <1>2, <1>3 DEF Over

\* The steps of the consumer, by what it still has to do.
LEMMA ConsumerTurns ==
  ASSUME Base, LockInv, Step
  PROVE  \/ consumer' = consumer
         \/ consumer' = Waiting
         \/ Consume /\ consumer' = [todo |-> Todo(Head(notes)), run |-> active.run, note |-> Head(notes)]
         \/ /\ ConsumerAppends /\ consumer.todo = <<"append", "terminal", "file">>
            /\ consumer'.todo = <<"terminal", "file">> /\ consumer'.run = consumer.run
            /\ consumer'.note = consumer.note
         \/ /\ ConsumerEndsRun /\ consumer.todo = <<"terminal", "file">>
            /\ consumer'.todo = <<"file">> /\ consumer'.run = active.run
            /\ consumer'.note = consumer.note
<1>1. /\ <<"append", "terminal", "file">> # <<"terminal", "file">>
      /\ Head(<<"append", "terminal", "file">>) = "append" /\ Head(<<"terminal", "file">>) = "terminal"
  OBVIOUS
<1>2. ASSUME consumer'.todo = Tail(consumer.todo), consumer'.note = consumer.note,
             consumer.todo # <<>>, Len(consumer.todo) # 1,
             ConsumerAppends \/ ConsumerEndsRun \/ ConsumerWrites,
             consumer'.run = IF ConsumerEndsRun THEN active.run ELSE consumer.run
      PROVE  \/ /\ ConsumerAppends /\ consumer.todo = <<"append", "terminal", "file">>
                /\ consumer'.todo = <<"terminal", "file">> /\ consumer'.run = consumer.run
                /\ consumer'.note = consumer.note
             \/ /\ ConsumerEndsRun /\ consumer.todo = <<"terminal", "file">>
                /\ consumer'.todo = <<"file">> /\ consumer'.run = active.run
                /\ consumer'.note = consumer.note
  <2>1. consumer.todo \in {<<"append", "terminal", "file">>, <<"terminal", "file">>}
    BY <1>2, Rests DEF LockInv, ConsumerInv
  <2>2. /\ ConsumerAppends => Head(consumer.todo) = "append"
        /\ ConsumerEndsRun => Head(consumer.todo) = "terminal"
        /\ ConsumerWrites => Head(consumer.todo) = "file"
    BY DEF ConsumerAppends, ConsumerEndsRun, ConsumerWrites, ConsumerIs
  <2>3. CASE consumer.todo = <<"append", "terminal", "file">>
    BY <1>1, <1>2, <2>2, <2>3, Rests
  <2>4. CASE consumer.todo = <<"terminal", "file">>
    BY <1>1, <1>2, <2>2, <2>4, Rests
  <2> QED
    BY <2>1, <2>3, <2>4
<1> QED
  BY <1>2, ConsumerMoves DEF ConsumerMoved

\* What is still to be done for a notification.
LEMMA Plans ==
  /\ \A note : Todo(note) \in {<<"append", "terminal", "file">>, <<"append">>}
  /\ Waiting.todo = <<>>
  /\ <<"file">> \notin {<<>>, <<"append", "terminal", "file">>, <<"append">>, <<"terminal", "file">>}
  /\ <<"terminal", "file">> \notin {<<>>, <<"append", "terminal", "file">>, <<"append">>}
  /\ <<"append", "terminal", "file">> \notin {<<>>, <<"append">>}
<1>1. /\ Len(<<"file">>) = 1 /\ Len(<<>>) = 0 /\ Len(<<"append">>) = 1
      /\ <<"file">>[1] = "file" /\ <<"append">>[1] = "append"
      /\ Len(<<"append", "terminal", "file">>) = 3 /\ Len(<<"terminal", "file">>) = 2
  OBVIOUS
<1> QED
  BY <1>1 DEF Todo, Waiting

\* A request that ends a run keeps it, as the request itself says.
LEMMA TerminalMoves ==
  ASSUME Base, Step, op'.pc = "terminal"
  PROVE  \/ op' = op
         \/ active'.status \in Terminal /\ op'.status \in Terminal \ {"completed"}
<1>1. op \in Operation /\ active \in Active
  BY DEF Base, TypeOK, MemoryTyped
<1>2. ASSUME NEW pc, pc # "terminal" PROVE op' # [op EXCEPT !.pc = pc]
  BY <1>1, <1>2 DEF Operation
<1>3. ASSUME NEW status, SetTerminal(status), op' = [op EXCEPT !.pc = "terminal", !.status = status]
      PROVE  active'.status = status /\ op'.status = status
  BY <1>1, <1>3 DEF SetTerminal, Active, Operation
<1>4. op' # Free /\ \A r : op' # Request("interrupt", r, 0) /\ op' # Request("poll", r, 0) /\ op' # Request("resume", r, 0)
  BY DEF Free, Request
<1>5. CASE TurnStartFails("failed") \/ TurnStartFails("unknown") \/ Interrupted
  BY <1>3, <1>5 DEF TurnStartFails, Interrupted, Terminal
<1>6. ~(\/ ThreadReady \/ ThreadFails \/ TurnStarts \/ WriteTerminal \/ TurnStarted \/ WriteRunning \/ Announce
        \/ TurnInterrupted \/ InterruptFails \/ Interrupt)
  BY <1>2, <1>4 DEF ThreadReady, ThreadFails, TurnStarts, WriteTerminal, TurnStarted, WriteRunning, Announce,
     TurnInterrupted, InterruptFails, Interrupt
<1>7. ~StartTurn
  BY <1>4 DEF StartTurn
<1>8. ~SteerStep
  BY <1>2, <1>4 DEF SteerStep, SteerRefused, SteerPending, TurnSteered, TurnRefusesSteer, SteerRejected,
     SteerLost, SteerAccepted, RecordInput, MarkRecorded, Report, Answered
<1>9. ~\E m \in MessageId : SteerTaken(m)
  BY <1>4 DEF SteerTaken, SteerKnown, SteerNew, Answered, Request, Repetition
<1> QED
  BY <1>4, <1>5, <1>6, <1>7, <1>8, <1>9, OperationElse DEF StartStep, InterruptStep

\* What is written into the status file of a run that is not over is no terminal status.
LEMMA FileOver ==
  ASSUME Base, LockInv, OverInv, Step, NEW r \in RunId, file'[r] \in Terminal
  PROVE  Over(r)'
<1>1. /\ r # 0 /\ PollInv /\ ConsumerInv /\ op \in Operation
      /\ active.run # 0 => active.run \in RunId
  BY Rows DEF LockInv, Base, TypeOK, MemoryTyped
<1>2. CASE Restarted
  BY <1>1, <1>2 DEF Restarted, Over, NoRun, Free, Request
<1>3. CASE ThreadFails /\ r = op.run
  BY <1>1, <1>3 DEF ThreadFails, Over, Free, Request, Base, StartInv
<1>4. CASE Over(r)
  BY <1>1, <1>4, OverStays
<1>5. CASE WriteTerminal /\ r = op.run
  <2>1. Over(r)
    BY <1>5 DEF WriteTerminal, OverInv, Over, Base, StartInv, TurnPC
  <2> QED
    BY <1>4, <2>1
<1>6. CASE ConsumerWrites /\ r = consumer.run
  <2>1. consumer.todo = <<"file">>
    <3>1. consumer.todo # <<>> /\ Head(consumer.todo) = "file"
      BY <1>6 DEF ConsumerWrites, ConsumerIs
    <3> QED
      BY <1>1, <3>1, Rests DEF ConsumerInv
  <2> QED
    BY <1>1, <1>4, <1>6, <2>1 DEF OverInv
<1>7. CASE MonitorWrites /\ r = monitor.run
  BY <1>1, <1>4, <1>7 DEF MonitorWrites, OverInv
<1>8. "running" \notin Terminal
  BY DEF Terminal
<1> QED
  BY <1>2, <1>3, <1>4, <1>5, <1>6, <1>7, <1>8, FileMoves DEF FileMoved, OverInv

LEMMA OverKept ==
  ASSUME Base, LockInv, OverInv, RelayInv, Step
  PROVE  OverInv'
<1>0. /\ PollInv /\ ConsumerInv /\ op \in Operation /\ active \in Active
      /\ \A r : r \in 0..Len(file) /\ r # 0 => r \in RunId
      /\ active.run \in 0..Len(file) /\ consumer.run \in 0..Len(file) /\ monitor.run \in 0..Len(file)
      /\ op.run \in 0..Len(file)
  BY Rows DEF LockInv, Base, TypeOK, MemoryTyped
<1>1. ASSUME NEW r \in RunId', file'[r] \in Terminal \/ EndSeen(relay'[r])
      PROVE  Over(r)'
  <2>1. CASE r \in RunId
    <3>1. CASE file'[r] \in Terminal
      BY <2>1, <3>1, FileOver
    <3>2. CASE EndSeen(relay'[r])
      <4>1. Over(r)
        BY <2>1, <3>2, SeenMoves DEF OverInv
      <4> QED
        BY <1>0, <2>1, <4>1, OverStays
    <3> QED
      BY <1>1, <3>1, <3>2
  <2>2. CASE r \notin RunId
    <3>1. StartTurn /\ r = Len(file) + 1
      BY <1>1, <2>2, FileGrows DEF Base
    <3>2. file'[r] = "starting" /\ relay'[r] = NoPoll
      BY <3>1, RunAdded
    <3> QED
      BY <1>1, <3>2 DEF EndSeen, NoPoll, Terminal
  <2> QED
    BY <2>1, <2>2
<1>2. ASSUME op'.pc = "terminal"
      PROVE  active'.status \in Terminal /\ op'.status \in Terminal \ {"completed"}
  <2>1. CASE op' = op
    <3>1. op.run \in RunId /\ active.run = op.run /\ active.status \in Terminal
      BY <1>0, <1>2, <2>1 DEF Base, StartInv, TurnPC, OverInv
    <3>2. active'.run = op'.run
      BY <1>0, <1>2, BaseKept DEF Base, StartInv, TurnPC
    <3>3. Over(op.run)'
      BY <1>0, <1>2, <2>1, <3>1, OverStays DEF Over
    <3> QED
      BY <1>2, <2>1, <3>2, <3>3 DEF Over, OverInv
  <2> QED
    BY <1>2, <2>1, TerminalMoves
<1>3. ASSUME NEW r \in RunId, consumer'.todo = <<"file">>, consumer'.run = r
      PROVE  Over(r)'
  <2>1. CASE consumer' = consumer
    <3>1. Over(r)
      BY <1>0, <1>3, <2>1, Rows DEF OverInv, Base
    <3> QED
      BY <1>0, <3>1, OverStays
  <2>2. CASE ConsumerEndsRun /\ consumer'.run = active.run
    <3>1. active'.status \in Terminal /\ op' = op
      BY <1>0, <2>2, EndsRun DEF Active, ConsumerEndsRun
    <3>2. op.pc = "resume" => op.run # r
      BY <1>3, <2>2 DEF Base, StartInv
    <3> QED
      BY <3>1, <3>2 DEF Over
  <2> QED
    BY <1>3, <2>1, <2>2, ConsumerTurns, Plans
<1>4. consumer'.todo = <<"file">> /\ consumer'.run # 0 => consumer'.run \in RunId
  <2>1. consumer'.todo = <<"file">> => consumer'.run \in {consumer.run, active.run}
    BY ConsumerTurns, Plans
  <2> QED
    BY <1>0, <2>1
<1>5. ASSUME NEW r \in RunId, monitor'.pc = "file", monitor'.run = r
      PROVE  Over(r)'
  <2>1. CASE monitor' = monitor
    <3>1. Over(r)
      BY <1>0, <1>5, <2>1, Rows DEF OverInv, Base
    <3> QED
      BY <1>0, <3>1, OverStays
  <2>2. CASE MonitorFails
    <3>1. active'.status \in Terminal /\ op' = op /\ r = active.run
      BY <1>0, <1>5, <2>2 DEF MonitorFails, SetTerminal, Active, Terminal
    <3>2. op.pc = "resume" => op.run # r
      BY <3>1 DEF Base, StartInv
    <3> QED
      BY <3>1, <3>2 DEF Over
  <2>3. ~(AppServerDies \/ MonitorChecks \/ MonitorWrites \/ Restarted)
    BY <1>5 DEF AppServerDies, MonitorChecks, MonitorWrites, Restarted, Watching
  <2> QED
    BY <2>1, <2>2, <2>3, MonitorTyped
<1>6. monitor'.pc = "file" /\ monitor'.run # 0 => monitor'.run \in RunId
  <2>1. monitor'.run \in {0, monitor.run, active.run}
    BY MonitorTyped DEF AppServerDies, MonitorChecks, MonitorFails, MonitorWrites, Restarted, Watching
  <2> QED
    BY <1>0, <2>1
<1> QED
  BY <1>1, <1>2, <1>3, <1>4, <1>5, <1>6 DEF OverInv, Over, SeenOver

\* The relay that stops has the inputs of the steers that were confirmed at once.
LEMMA FinalInputsKept ==
  ASSUME Base, LockInv, DeliveryInv, InputInv, RelayInv, AttemptInv, FinalBatchHasInputs, Step
  PROVE  FinalBatchHasInputs'
<1>0. /\ message \in [MessageId -> Message] /\ relay \in [RunId -> Relay]
      /\ op.again => op.pc \in RecordPC
  BY Rows DEF Base, TypeOK, ServerTyped, SteerInv
<1>1. ASSUME NEW m \in MessageId', NEW r, r = message'[m].run,
             message'[m].answer = "ok", message'[m].attempts = 1, relay'[r].pc = "final"
      PROVE  \E n \in InputsOf(outbox'[r], m) : n <= relay'[r].got
  <2>1. m \in MessageId
    <3>1. CASE m \notin MessageId
      <4>1. PICK q \in RunId : SendSteer(q)
        BY <3>1, MessageGrows DEF Base
      <4>2. /\ MessageId' = MessageId \cup {Len(message) + 1}
            /\ message'[Len(message) + 1] = [run |-> q, attempts |-> 1, answer |-> "waiting"]
        BY <4>1, MessageAdded
      <4>3. message'[m].answer = "waiting"
        BY <3>1, <4>2
      <4> QED
        BY <1>1, <4>3
    <3> QED
      BY <3>1
  <2>2. r = message[m].run /\ r \in RunId
    BY <1>1, <2>1, MessageGrows DEF Base, TypeOK, ServerTyped
  <2>3. InputsOf(outbox[r], m) = Inputs(r, m) /\ InputsOf(outbox[r], m) \subseteq InputsOf(outbox'[r], m)
    BY <2>2, InputsMove
  <2>4. CASE message'[m] = message[m]
    <3>1. CASE relay'[r] = relay[r]
      <4>1. \E n \in Inputs(r, m) : n <= relay[r].got
        BY <1>1, <2>1, <2>2, <2>4, <3>1 DEF FinalBatchHasInputs
      <4> QED
        BY <2>3, <3>1, <4>1
    <3>2. CASE Scan(r) /\ relay'[r].got = Len(outbox[r])
      <4>1. Inputs(r, m) # {}
        BY <1>1, <2>1, <2>2, <2>4 DEF InputInv
      <4>2. \A n \in Inputs(r, m) : n <= Len(outbox[r])
        BY <2>2, Rows DEF Inputs, Base
      <4> QED
        BY <2>3, <3>2, <4>1, <4>2
    <3> QED
      BY <1>1, <2>2, <3>1, <3>2, RelayRows
  <2>5. CASE Report /\ m = op.message
    <3>1. /\ op.pc = "report" /\ op.run = r /\ relay' = relay
          /\ message[m].answer = "waiting" /\ ledger[m].state = "accepted"
      BY <2>2, <2>5 DEF Report, Base, SteerInv, SteerPC, DeliveryInv, RecordPC
    <3>2. message'[m].attempts = message[m].attempts
      <4>1. message' = [message EXCEPT ![m].answer = "ok"]
        BY <2>5 DEF Report, Answered
      <4> QED
        BY <1>0, <2>1, <4>1 DEF Message
    <3>3. CASE op.again
      <4>1. message[m].attempts > 1
        BY <2>1, <3>1, <3>3 DEF AttemptInv
      <4> QED
        BY <1>1, <3>2, <4>1
    <3>4. CASE ~op.again
      <4>1. ~SeenOver(r)
        BY <3>1, <3>4 DEF RelayInv, SteerPC
      <4>2. relay[r].pc = "final" /\ relay[r].status \in Terminal
        BY <1>1, <2>2, <3>1 DEF RelayInv
      <4> QED
        BY <4>1, <4>2 DEF SeenOver, EndSeen
    <3> QED
      BY <3>3, <3>4
  <2> QED
    BY <1>1, <2>1, <2>4, <2>5, MessageMoves DEF MessageMoved, Answering
<1>2. ASSUME NEW m \in MessageId', message'[m].answer = "ok", message'[m].attempts = 1,
             relay'[message'[m].run].pc = "final"
      PROVE  \E n \in InputsOf(outbox'[message'[m].run], m) : n <= relay'[message'[m].run].got
  BY <1>1, <1>2
<1> QED
  BY <1>2 DEF FinalBatchHasInputs, Inputs, InputsOf

LEMMA BatchKept ==
  ASSUME Base, LockInv, DeliveryInv, InputInv, BatchInv, Step
  PROVE  BatchInv'
BY OverKept, RelayKept, AttemptKept, FinalInputsKept DEF BatchInv

-----------------------------------------------------------------------------
(* Completions.                                                            *)

\* Completions end the run that is active then.
LEMMA EndedMoves ==
  ASSUME Base, Step
  PROVE  /\ \A r \in RunId : \/ ended'[r] = ended[r]
                             \/ /\ ConsumerEndsRun /\ r = active.run
                                /\ ended'[r] = ended[r] \cup {consumer.note.turn}
         /\ \A r \in RunId' : r \notin RunId => ended'[r] = {}
<1>1. ended \in [RunId -> SUBSET TurnId]
  BY DEF Base, TypeOK, ServerTyped
<1>2. CASE ended' = ended
  <2>1. CASE StartTurn
    BY <1>2, <2>1, RunAdded
  <2>2. CASE ~StartTurn
    BY <1>2, <2>2, FileGrows DEF Base
  <2> QED
    BY <2>1, <2>2
<1>3. CASE StartTurn
  BY <1>3, RunAdded
<1>4. CASE ConsumerEndsRun
  <2>1. ended' = [ended EXCEPT ![active.run] = ended[active.run] \cup {consumer.note.turn}]
    BY <1>4 DEF ConsumerEndsRun
  <2>2. file' = file
    BY <1>4 DEF ConsumerEndsRun, files
  <2> QED
    BY <1>1, <1>4, <2>1, <2>2 DEF RunId
<1> QED
  BY <1>2, <1>3, <1>4, EndedSteps DEF EndedWritten

\* A run that has the event of a completion keeps it.
LEMMA CompletionStays ==
  ASSUME Base, Step, NEW r \in RunId, CompletionIn(outbox[r])
  PROVE  CompletionIn(outbox'[r])
BY OutboxGrows DEF CompletionIn

\* The consumer writes the event of a completion before it ends a run.
LEMMA CompletionWritten ==
  ASSUME Base, LockInv, ConsumerAppends, NEW r \in RunId, consumer.run = r, active.run = r,
         consumer.note.type = "completed"
  PROVE  CompletionIn(outbox'[r])
<1>1. Unlocked /\ Appended(r, "completed", consumer.note.of) /\ consumer.note.of \in Nat
  BY DEF ConsumerAppends, Base, TypeOK, MemoryTyped, Consumer, Note
<1>2. r # 0 /\ "completed" \in EventType
  BY Rows DEF Base, EventType
<1>3. Added(r, "completed", consumer.note.of)
  BY <1>1, <1>2, AppendedIsAdded
<1>4. /\ Len(outbox[r]) \in Nat /\ Len(outbox'[r]) = Len(outbox[r]) + 1
      /\ outbox'[r][Len(outbox[r]) + 1]
           = [sequence |-> Len(outbox[r]) + 1, type |-> "completed", of |-> consumer.note.of]
  BY <1>1, <1>2, <1>3, AddedEvent
<1>5. outbox'[r][Len(outbox[r]) + 1].type = "completed"
  BY <1>4
<1> QED
  BY <1>4, <1>5 DEF CompletionIn

\* The turn whose notification is handled belongs to the run in memory only if it did
\* before: it is no turn of a run whose thread has just become ready.
LEMMA TurnStays ==
  ASSUME Base, LockInv, Step, NEW t \in TurnId, turn'[t].run = active'.run
  PROVE  turn[t].run = active.run /\ active'.run = active.run /\ active.run \in RunId
<1>1. turn'[t].run = turn[t].run /\ turn[t].run \in RunId /\ 0 \notin RunId
  BY Rows, TurnsOfRuns DEF Base, TypeOK, CodexTyped
<1>2. ~(ThreadReady /\ active'.run = op.run)
  BY <1>1 DEF ThreadReady, Base, StartInv
<1>3. ThreadReady => active'.run = op.run
  BY DEF ThreadReady
<1>4. active'.run # 0 /\ NoRun.run = 0
  BY <1>1 DEF NoRun
<1> QED
  BY <1>1, <1>2, <1>3, <1>4, ActiveStays

LEMMA EndKept ==
  ASSUME Base, LockInv, OverInv, RelayInv, EndInv, Step
  PROVE  EndInv'
<1>0. /\ ended \in [RunId -> SUBSET TurnId] /\ relay \in [RunId -> Relay] /\ 0 \notin RunId
      /\ \A r : r \in 0..Len(file) /\ r # 0 => r \in RunId
      /\ consumer.run \in 0..Len(file) /\ active.run \in 0..Len(file)
      /\ \A t \in TurnId : turn[t].run \in RunId
      /\ ConsumerInv /\ PollInv
  BY Rows DEF Base, TypeOK, ServerTyped, MemoryTyped, CodexTyped, LockInv
<1>1. ASSUME NEW r \in RunId', NEW t \in ended'[r], turn'[t].run = r
      PROVE  CompletionIn(outbox'[r])
  <2>1. r \in RunId
    BY <1>1, EndedMoves
  <2>2. CASE t \in ended[r]
    <3>1. t \in TurnId /\ turn[t].run = r
      BY <1>0, <1>1, <2>1, <2>2, TurnsOfRuns DEF Base
    <3>2. CompletionIn(outbox[r])
      BY <2>1, <2>2, <3>1 DEF EndInv, HasCompletion
    <3> QED
      BY <2>1, <3>2, CompletionStays
  <2>3. CASE ConsumerEndsRun /\ r = active.run /\ t = consumer.note.turn
    <3>1. consumer.todo = <<"terminal", "file">>
      <4>1. consumer.todo # <<>> /\ Head(consumer.todo) = "terminal"
        BY <2>3 DEF ConsumerEndsRun, ConsumerIs
      <4> QED
        BY <1>0, <4>1, Rests DEF ConsumerInv
    <3>2. t \in TurnId
      BY <2>3, <3>1, Plans DEF Base, NoteInv
    <3>3. turn[consumer.note.turn].run = active.run
      BY <1>1, <2>3, <3>2, TurnsOfRuns DEF Base
    <3>4. CompletionIn(outbox[r])
      BY <2>3, <3>1, <3>3 DEF EndInv, HasCompletion
    <3> QED
      BY <2>1, <3>4, CompletionStays
  <2> QED
    BY <1>1, <2>1, <2>2, <2>3, EndedMoves
<1>2. ASSUME consumer.todo # <<>>, consumer'.note = consumer.note, turn'[consumer'.note.turn].run = active'.run
      PROVE  /\ turn[consumer.note.turn].run = active.run /\ active'.run = active.run /\ active.run \in RunId
  <2>1. consumer.note.turn \in TurnId
    BY <1>2 DEF Base, NoteInv
  <2> QED
    BY <1>2, <2>1, TurnStays
<1>3. ASSUME consumer'.todo = <<"append", "terminal", "file">>, turn'[consumer'.note.turn].run = active'.run
      PROVE  consumer'.run = active'.run
  <2>1. CASE consumer' = consumer
    BY <1>2, <1>3, <2>1, Plans DEF EndInv
  <2>2. CASE Consume /\ consumer' = [todo |-> Todo(Head(notes)), run |-> active.run, note |-> Head(notes)]
    <3>1. consumer'.run = active.run /\ active' = active
      BY <2>2 DEF Consume
    <3> QED
      BY <3>1
  <2> QED
    BY <1>3, <2>1, <2>2, ConsumerTurns, Plans
<1>4. ASSUME consumer'.todo = <<"terminal", "file">>, turn'[consumer'.note.turn].run = active'.run
      PROVE  CompletionIn(outbox'[active'.run])
  <2>1. CASE consumer' = consumer
    <3>1. CompletionIn(outbox[active.run]) /\ active.run \in RunId /\ active'.run = active.run
      BY <1>2, <1>4, <2>1, Plans DEF EndInv, HasCompletion
    <3> QED
      BY <3>1, CompletionStays
  <2>2. CASE ConsumerAppends /\ consumer.todo = <<"append", "terminal", "file">> /\ consumer'.note = consumer.note
    <3>1. turn[consumer.note.turn].run = active.run /\ active'.run = active.run /\ active.run \in RunId
      BY <1>2, <1>4, <2>2, Plans
    <3>2. consumer.run = active.run /\ consumer.note.type = "completed"
      BY <1>0, <2>2, <3>1, Plans DEF EndInv, ConsumerInv
    <3> QED
      BY <2>2, <3>1, <3>2, CompletionWritten
  <2> QED
    BY <1>4, <2>1, <2>2, ConsumerTurns, Plans
<1>5. ASSUME consumer'.todo = <<"file">>, consumer'.run # 0
      PROVE  consumer'.note.turn \in ended'[consumer'.run]
  <2>1. CASE consumer' = consumer
    <3>1. consumer.note.turn \in ended[consumer.run] /\ consumer.run \in RunId
      BY <1>0, <1>5, <2>1 DEF EndInv
    <3> QED
      BY <2>1, <3>1, EndedMoves
  <2>2. CASE ConsumerEndsRun /\ consumer'.run = active.run /\ consumer'.note = consumer.note
    <3>1. ended' = [ended EXCEPT ![active.run] = ended[active.run] \cup {consumer.note.turn}]
      BY <2>2 DEF ConsumerEndsRun
    <3> QED
      BY <1>0, <1>5, <2>2, <3>1
  <2> QED
    BY <1>5, <2>1, <2>2, ConsumerTurns, Plans
<1>6. ASSUME NEW r \in RunId', file'[r] = "completed"
      PROVE  ended'[r] # {}
  <2>1. r \in RunId
    <3>1. CASE r \notin RunId
      BY <1>6, <3>1, FileGrows, RunAdded DEF Base
    <3> QED
      BY <3>1
  <2>2. CASE file[r] = "completed"
    BY <2>1, <2>2, EndedMoves DEF EndInv
  <2>3. CASE ConsumerWrites /\ r = consumer.run
    <3>1. consumer.todo = <<"file">>
      <4>1. consumer.todo # <<>> /\ Head(consumer.todo) = "file"
        BY <2>3 DEF ConsumerWrites, ConsumerIs
      <4> QED
        BY <1>0, <4>1, Rests DEF ConsumerInv
    <3>2. ended[r] # {}
      BY <1>0, <2>1, <2>3, <3>1 DEF EndInv
    <3> QED
      BY <2>1, <3>2, EndedMoves
  <2>4. ~(WriteTerminal /\ file'[r] = op.status)
    BY <1>6 DEF WriteTerminal, OverInv
  <2>5. Recovered(file[r]) = "completed" => file[r] = "completed"
    BY DEF Recovered
  <2> QED
    BY <1>6, <2>1, <2>2, <2>3, <2>4, <2>5, FileMoves DEF FileMoved
<1>7. ASSUME NEW r \in RunId', relay'[r].pc \in {"scan", "final"}, relay'[r].status = "completed"
      PROVE  ended'[r] # {}
  <2>1. r \in RunId
    BY <1>7, RelayRows DEF NoPoll
  <2>2. file[r] = "completed" \/ (relay[r].pc \in {"scan", "final"} /\ relay[r].status = "completed")
    <3>1. CASE Poll(r) /\ relay'[r].status = Seen(r)
      BY <1>7, <3>1 DEF Seen
    <3>2. CASE Scan(r) /\ relay'[r].status = relay[r].status
      BY <1>7, <3>2 DEF Scan
    <3> QED
      BY <1>7, <2>1, <3>1, <3>2, RelayRows
  <2>3. ended[r] # {}
    BY <2>1, <2>2 DEF EndInv
  <2> QED
    BY <2>1, <2>3, EndedMoves
<1> QED
  BY <1>1, <1>3, <1>4, <1>5, <1>6, <1>7 DEF EndInv, HasCompletion

\* The relay that stops because the run's own turn is completed has the completion.
LEMMA FinalCompletionKept ==
  ASSUME Base, LockInv, EndInv, FinalBatchHasCompletion, Step
  PROVE  FinalBatchHasCompletion'
<1>0. /\ ended \in [RunId -> SUBSET TurnId]
      /\ \A r \in RunId : relay[r].got <= Len(outbox[r]) /\ relay[r].got \in Nat /\ Len(outbox[r]) \in Nat
  BY Rows DEF Base, TypeOK, ServerTyped, Relay
<1>1. ASSUME NEW r \in RunId', relay'[r].pc = "final", relay'[r].status = "completed",
             ended'[r] # {}, \A t \in ended'[r] : turn'[t].run = r
      PROVE  \E n \in 1..relay'[r].got : outbox'[r][n].type = "completed"
  <2>1. r \in RunId
    BY <1>1, RelayRows DEF NoPoll
  <2>2. ended[r] \subseteq ended'[r] /\ ended[r] \subseteq TurnId
    BY <1>0, <2>1, EndedMoves
  <2>3. EndedByItself(r)
    BY <1>1, <2>2, TurnsOfRuns DEF EndedByItself, Base
  <2>4. CASE relay'[r] = relay[r]
    <3>1. ended[r] # {}
      BY <1>1, <2>1, <2>4 DEF EndInv
    <3>2. \E n \in 1..relay[r].got : outbox[r][n].type = "completed"
      BY <1>1, <2>1, <2>3, <2>4, <3>1 DEF FinalBatchHasCompletion
    <3>3. \A n \in 1..relay[r].got : outbox'[r][n] = outbox[r][n]
      BY <1>0, <2>1, OutboxGrows
    <3> QED
      BY <2>4, <3>2, <3>3
  <2>5. CASE Scan(r) /\ relay'[r].status = relay[r].status /\ relay'[r].got = Len(outbox[r])
    <3>1. ended[r] # {}
      BY <1>1, <2>1, <2>5 DEF EndInv, Scan
    <3>2. CompletionIn(outbox[r])
      BY <2>1, <2>3, <3>1 DEF EndInv, EndedByItself, HasCompletion
    <3>3. \A n \in 1..Len(outbox[r]) : outbox'[r][n] = outbox[r][n]
      BY <2>1, OutboxGrows
    <3> QED
      BY <2>5, <3>2, <3>3 DEF CompletionIn
  <2> QED
    BY <1>1, <2>1, <2>4, <2>5, RelayRows
<1> QED
  BY <1>1 DEF FinalBatchHasCompletion, EndedByItself

LEMMA CompletionKept ==
  ASSUME Base, LockInv, BatchInv, CompletionInv, Step
  PROVE  CompletionInv'
BY EndKept, FinalCompletionKept DEF BatchInv, CompletionInv

-----------------------------------------------------------------------------
(* The inductive invariant and what follows from it.                       *)

LEMMA Idles ==
  ASSUME IInv, UNCHANGED vars
  PROVE  IInv'
<1>1. /\ active' = active /\ op' = op /\ inputMu' = inputMu /\ consumer' = consumer /\ monitor' = monitor
      /\ file' = file /\ outbox' = outbox /\ ledger' = ledger
      /\ turn' = turn /\ notes' = notes /\ relay' = relay /\ message' = message
      /\ delivered' = delivered /\ ended' = ended
  BY DEF vars, memory, files, codex, server, ghosts
<1>2. Base'
  BY <1>1 DEF IInv, Base, TypeOK, MemoryTyped, FilesTyped, CodexTyped, ServerTyped, StartInv, SteerInv, NoteInv,
     NumberInv, RunId, MessageId, TurnId, HasTurn, IsRunning
<1>3. LockInv' /\ DeliveryInv' /\ AnswerInv'
  BY <1>1 DEF IInv, LockInv, ConsumerInv, GuardInv, PollInv, DeliveryInv, AnswerInv, Known, RunId, MessageId
<1>4. InputInv' /\ PlaceInv'
  BY <1>1 DEF IInv, InputInv, PlaceInv, Inputs, InputPrecedesItsAnswer, Unanswered, Silent, RunId, MessageId,
     TurnId
<1>5. BatchInv'
  BY <1>1 DEF IInv, BatchInv, OverInv, RelayInv, AttemptInv, FinalBatchHasInputs, Over, SeenOver, Inputs, RunId,
     MessageId
<1>6. CompletionInv'
  BY <1>1 DEF IInv, CompletionInv, EndInv, FinalBatchHasCompletion, EndedByItself, HasCompletion, RunId
<1> QED
  BY <1>2, <1>3, <1>4, <1>5, <1>6 DEF IInv

LEMMA Starts ==
  ASSUME Init
  PROVE  IInv
<1>1. /\ active = NoRun /\ op = Free /\ inputMu = "free" /\ consumer = Waiting /\ monitor = Watching
      /\ file = <<>> /\ outbox = <<>> /\ ledger = <<>> /\ turn = <<>> /\ notes = <<>>
      /\ relay = <<>> /\ message = <<>> /\ delivered = <<>> /\ ended = <<>>
  BY DEF Init
<1>2. /\ RunId = {} /\ MessageId = {} /\ TurnId = {}
      /\ Len(file) = 0 /\ Len(turn) = 0 /\ Len(message) = 0 /\ Len(notes) = 0
  BY <1>1 DEF RunId, MessageId, TurnId
<1>3. MemoryTyped
  <2>1. NoRun \in Active /\ NoRun.run = 0 /\ NoRun.turn = 0
    BY DEF NoRun, Active
  <2>2. Free \in Operation /\ Free.run = 0 /\ Free.message = 0
    BY DEF Free, Request, Operation, Status, Terminal
  <2>3. Waiting \in Consumer /\ Waiting.run = 0
    BY DEF Waiting, Consumer, NoNote, Note, Status
  <2>4. Watching \in Monitor /\ Watching.run = 0
    BY DEF Watching, Monitor
  <2> QED
    BY <1>1, <1>2, <2>1, <2>2, <2>3, <2>4 DEF MemoryTyped
<1>4. FilesTyped /\ CodexTyped /\ ServerTyped
  BY <1>1, <1>2 DEF FilesTyped, CodexTyped, ServerTyped, RunId, MessageId, TurnId
<1>5. Base
  BY <1>1, <1>2, <1>3, <1>4 DEF Base, TypeOK, StartInv, SteerInv, NoteInv, NumberInv, Free, Request, TurnPC, SteerPC,
     NoRun, IsRunning, Waiting
<1>6. LockInv
  BY <1>1, <1>2 DEF LockInv, ConsumerInv, GuardInv, PollInv, Free, Request, SteerPC, Waiting
<1>7. DeliveryInv /\ InputInv /\ AnswerInv /\ PlaceInv
  BY <1>1, <1>2 DEF DeliveryInv, InputInv, AnswerInv, PlaceInv, InputPrecedesItsAnswer, Free, Request, RecordPC,
     Waiting
<1>8. BatchInv
  BY <1>1, <1>2 DEF BatchInv, OverInv, RelayInv, AttemptInv, FinalBatchHasInputs, Free, Request, SteerPC, Waiting,
     Watching
<1>9. CompletionInv
  BY <1>1, <1>2, Plans DEF CompletionInv, EndInv, FinalBatchHasCompletion
<1> QED
  BY <1>5, <1>6, <1>7, <1>8, <1>9 DEF IInv

\* The invariant holds in every state.
THEOREM Invariant == Spec => []IInv
<1>1. Init => IInv
  BY Starts
<1>2. IInv /\ [Next]_vars => IInv'
  <2>1. CASE UNCHANGED vars
    BY <2>1, Idles
  <2>2. ASSUME IInv, Step
        PROVE  IInv'
    <3>1. Base' /\ LockInv'
      BY <2>2, BaseKept, LockKept DEF IInv, LockInv
    <3>2. DeliveryInv' /\ InputInv' /\ AnswerInv' /\ PlaceInv'
      BY <2>2, DeliveryKept, InputKept, AnswerKept, PlaceKept DEF IInv
    <3>3. BatchInv' /\ CompletionInv'
      BY <2>2, BatchKept, CompletionKept DEF IInv
    <3> QED
      BY <3>1, <3>2, <3>3 DEF IInv
  <2> QED
    BY <2>1, <2>2, Steps
<1> QED
  BY <1>1, <1>2, PTL DEF Spec

\* What memory, files and messages refer to exists, whatever was lost or restarted.
THEOREM TypeCorrect == Spec => []TypeOK
<1>1. IInv => TypeOK
  BY DEF IInv, Base
<1> QED
  BY <1>1, Invariant, PTL

\* A steer enters a turn at most once: the ledger has it pending before the call, and only
\* a steer that the ledger does not know is called (worker.go, steer).
THEOREM SteersDeliveredOnce == Spec => []AtMostOneDelivery
<1>1. IInv => AtMostOneDelivery
  BY DEF IInv, DeliveryInv, AtMostOneDelivery
<1> QED
  BY <1>1, Invariant, PTL

\* A steer that is refused has not entered a turn, also if its refusal was heard only after
\* a repetition or a restart (worker.go, steer).
THEOREM RefusedNeverDelivered == Spec => []RefusedMeansNotDelivered
<1>1. IInv => RefusedMeansNotDelivered
  BY DEF IInv, DeliveryInv, RefusedMeansNotDelivered
<1> QED
  BY <1>1, Invariant, PTL

\* An accepted input stands once and before the outputs that answer it: inputMu keeps the
\* consumer out until it is recorded, and a record that is repaired later finds no turn
\* that could still answer (worker.go, steer and recordSteerInput).
THEOREM InputsHaveTheirPlace == Spec => []AcceptedInputHasItsPlace
<1>1. ASSUME IInv
      PROVE  AcceptedInputHasItsPlace
  <2>1. ASSUME NEW m \in MessageId
        PROVE  Cardinality(Inputs(message[m].run, m)) <= 1
    <3>1. \A k, n \in Inputs(message[m].run, m) : k = n
      BY <1>1 DEF IInv, InputInv
    <3>2. CASE Inputs(message[m].run, m) = {}
      BY <3>2, FS_EmptySet
    <3>3. CASE Inputs(message[m].run, m) # {}
      <4>1. PICK n : Inputs(message[m].run, m) = {n}
        BY <3>1, <3>3
      <4> QED
        BY <4>1, FS_Singleton
    <3> QED
      BY <3>2, <3>3
  <2>2. \A m \in MessageId : message[m].answer = "ok" => Inputs(message[m].run, m) # {}
    BY <1>1 DEF IInv, InputInv
  <2> QED
    BY <1>1, <2>1, <2>2 DEF IInv, PlaceInv, AcceptedInputHasItsPlace, ConfirmedInputStandsOnce
<1> QED
  BY <1>1, Invariant, PTL

\* The batch that ends a relay lacks no input of a steer that was confirmed at once and not
\* the completion of the run's own turn, and no event hides behind a higher number: the
\* last status counts only when operationMu is free (worker.go, events).
THEOREM FinalBatches == Spec => []FinalBatchIsComplete
<1>1. ASSUME IInv
      PROVE  SequencesIncrease
  <2>1. ASSUME NEW r \in RunId, NEW k \in DOMAIN outbox[r], NEW n \in DOMAIN outbox[r], k < n
        PROVE  outbox[r][k].sequence < outbox[r][n].sequence
    <3>1. DOMAIN outbox[r] = 1..Len(outbox[r])
      BY <1>1, Rows DEF IInv, Base
    <3>2. outbox[r][k].sequence = k /\ outbox[r][n].sequence = n
      BY <1>1, <3>1 DEF IInv, Base, NumberInv
    <3> QED
      BY <2>1, <3>2
  <2> QED
    BY <2>1 DEF SequencesIncrease
<1>2. IInv => FinalBatchIsComplete
  BY <1>1 DEF IInv, BatchInv, CompletionInv, FinalBatchIsComplete
<1> QED
  BY <1>2, Invariant, PTL
=============================================================================
