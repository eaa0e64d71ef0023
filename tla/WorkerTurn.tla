----------------------------- MODULE WorkerTurn -----------------------------
(***************************************************************************)
(* The agent-worker: it starts, steers and interrupts turns of Codex App   *)
(* Server, writes what the turns report into one outbox per run, and lets  *)
(* the relay of the server read that outbox.                               *)
(*                                                                         *)
(* operationMu admits one of startTurn, steer and interrupt at a time; the *)
(* goroutine that consumes notifications takes inputMu for each of them,   *)
(* and so does a steer until its input stands in the outbox.  A read of    *)
(* the outbox only tries operationMu.  Files survive a restart: the status *)
(* and the events of each run, and the ledger of steers.  Writes to files  *)
(* succeed.                                                                *)
(*                                                                         *)
(* App Server is modelled as the worker sees it: calls answered or lost,   *)
(* and one stream of notifications, which it buffers without a limit.      *)
(***************************************************************************)
EXTENDS Integers, Sequences, FiniteSets

CONSTANT Scenario  \* bounds, of which a behaviour picks one record

\* How often there is what: runs, steers, attempts at a steer, outputs of a turn that
\* are no answer to a steer, notifications of subagents and other threads, interrupts,
\* calls that fail or whose reply is lost, restarts, and deaths of App Server alone.
ASSUME WorkerTurnAssumption ==
  \A b \in Scenario :
    {b.run, b.message, b.attempt, b.output, b.foreign, b.interrupt, b.lost, b.crash, b.death}
      \subseteq Nat

\* The most of a kind in any scenario.
Most(n(_)) == CHOOSE m \in {n(b) : b \in Scenario} : \A b \in Scenario : n(b) <= m
MaxRun == Most(LAMBDA b : b.run)
MaxMessage == Most(LAMBDA b : b.message)

VARIABLES
  active,    \* the run in memory
  file,      \* per run: its status file
  outbox,    \* per run: its file of events
  ledger,    \* per message: its steerDelivery file
  op,        \* the request that holds operationMu
  inputMu,   \* who holds it
  consumer,  \* consumeNotifications
  monitor,   \* monitorAppServer
  turn,      \* the turns of App Server; the position is the id
  notes,     \* notifications on their way to the worker
  relay,     \* per run: the server's reader of the outbox
  message,   \* the steers the server has sent
  delivered, \* per message: how often it entered a turn
  ended,     \* per run: the turns whose completion ended it
  used,      \* how much of each bound is used up
  bound      \* the bounds, which never change

memory == <<active, op, inputMu, consumer, monitor>>
files == <<file, outbox, ledger>>
codex == <<turn, notes>>
server == <<relay, message>>
ghosts == <<delivered, ended>>
bounds == <<used, bound>>
vars == <<memory, files, codex, server, ghosts, bounds>>

RunId == DOMAIN file
MessageId == DOMAIN message
TurnId == DOMAIN turn

Terminal == {"completed", "failed", "interrupted", "unknown"}
Status == {"starting", "running"} \cup Terminal

\* run 0: nothing was started yet.
Active == [run: Nat, turn: Nat, status: Status \cup {"none"}, sequence: Nat]
Event == [sequence: Nat, type: {"started", "input", "steered", "output", "completed"}, of: Nat]
Delivery == [state: {"none", "pending", "accepted", "rejected"}, after: Nat, recorded: BOOLEAN]
Operation == [pc: {"idle", "resume", "call", "started", "running", "announce", "terminal",
                   "lock", "steer", "steered", "refused", "record", "mark", "report",
                   "interrupt", "interrupted", "poll"},
              run: Nat, message: Nat, status: Status, again: BOOLEAN]
Note == [type: {"output", "completed"}, turn: Nat, of: Nat, status: Status, own: BOOLEAN]
Consumer == [todo: Seq({"append", "terminal", "file"}), run: Nat, note: Note]
Monitor == [pc: {"watching", "dead", "failing", "file", "failed"}, run: Nat]
Turn == [run: Nat, state: {"running", "completed", "interrupted"}]
Relay == [pc: {"idle", "scan", "final"}, status: Status, locked: BOOLEAN, got: Nat]
Message == [run: Nat, attempts: Nat, answer: {"waiting", "ok", "refused", "unknown"}]

MemoryTyped ==
  /\ active \in Active /\ active.run \in 0..Len(file) /\ active.turn \in 0..Len(turn)
  /\ op \in Operation /\ op.run \in 0..Len(file) /\ op.message \in 0..Len(message)
  /\ inputMu \in {"free", "steer", "consumer"}
  /\ consumer \in Consumer /\ consumer.run \in 0..Len(file)
  /\ monitor \in Monitor /\ monitor.run \in 0..Len(file)

FilesTyped ==
  /\ file \in Seq(Status) /\ outbox \in [RunId -> Seq(Event)]
  /\ ledger \in [MessageId -> Delivery]

CodexTyped ==
  /\ turn \in Seq(Turn) /\ \A t \in TurnId : turn[t].run \in RunId
  /\ notes \in Seq(Note)

ServerTyped ==
  /\ relay \in [RunId -> Relay] /\ \A r \in RunId : relay[r].got <= Len(outbox[r])
  /\ message \in Seq(Message) /\ \A m \in MessageId : message[m].run \in RunId
  /\ delivered \in [MessageId -> Nat] /\ ended \in [RunId -> SUBSET TurnId]

\* What memory, files and messages say of runs, turns and messages refers to ones that
\* exist; files are the same runs' everywhere.
TypeOK == MemoryTyped /\ FilesTyped /\ CodexTyped /\ ServerTyped

NoRun == [run |-> 0, turn |-> 0, status |-> "none", sequence |-> 0]
Request(pc, run, m) ==
  [pc |-> pc, run |-> run, message |-> m, status |-> "unknown", again |-> FALSE]
Repetition(run, m) ==
  [pc |-> "record", run |-> run, message |-> m, status |-> "unknown", again |-> TRUE]
Free == Request("idle", 0, 0)
NoNote == [type |-> "output", turn |-> 0, of |-> 0, status |-> "running", own |-> FALSE]
Waiting == [todo |-> <<>>, run |-> 0, note |-> NoNote]
Watching == [pc |-> "watching", run |-> 0]
NoDelivery == [state |-> "none", after |-> 0, recorded |-> FALSE]
NoPoll == [pc |-> "idle", status |-> "unknown", locked |-> FALSE, got |-> 0]

Init ==
  /\ active = NoRun /\ op = Free /\ inputMu = "free" /\ consumer = Waiting /\ monitor = Watching
  /\ file = <<>> /\ outbox = <<>> /\ ledger = <<>>
  /\ turn = <<>> /\ notes = <<>> /\ relay = <<>> /\ message = <<>>
  /\ delivered = <<>> /\ ended = <<>>
  /\ bound \in Scenario /\ used = [b \in DOMAIN bound |-> 0]

Use(what) == used[what] < bound[what] /\ used' = [used EXCEPT ![what] = @ + 1]

IsRunning(a) == a.status \in {"starting", "running"}

\* w.mu is held by a steer between the event of its input and the mark in its ledger.
Unlocked == op.pc # "mark"

\* App Server and the connection to it are there.
Connected == monitor.pc = "watching"

-----------------------------------------------------------------------------
\* appendEvent: one more event of the active run; of another run, nothing.
Appended(r, type, of) ==
  IF active.run = r
  THEN /\ active' = [active EXCEPT !.sequence = @ + 1]
       /\ outbox' = [outbox EXCEPT ![r] =
            Append(@, [sequence |-> active.sequence + 1, type |-> type, of |-> of])]
  ELSE UNCHANGED <<active, outbox>>

\* The first half of setTerminal, which ends the run that is active now; the second half
\* writes the status file of that run.
SetTerminal(status) == active' = [active EXCEPT !.status = status]

WriteStatus(r, status) ==
  file' = IF r = 0 THEN file ELSE [file EXCEPT ![r] = status]

-----------------------------------------------------------------------------
\* startTurn.  A refusal, because a turn is active, changes nothing.

StartTurn ==
  /\ op.pc = "idle" /\ Use("run")
  /\ ~IsRunning(active)
  /\ file' = Append(file, "starting")
  /\ outbox' = Append(outbox, <<>>) /\ relay' = Append(relay, NoPoll)
  /\ ended' = Append(ended, {})
  /\ op' = Request("resume", Len(file) + 1, 0)
  /\ UNCHANGED <<active, inputMu, consumer, monitor, ledger, codex, message, delivered, bound>>

\* The thread is started or resumed: the run replaces the active one.
ThreadReady ==
  /\ op.pc = "resume" /\ Connected /\ Unlocked
  /\ active' = [run |-> op.run, turn |-> 0, status |-> "starting", sequence |-> 0]
  /\ op' = [op EXCEPT !.pc = "call"]
  /\ UNCHANGED <<inputMu, consumer, monitor, files, codex, server, ghosts, bounds>>

\* A call fails, or its reply does not come in time, or App Server is gone.
CallLost ==
  \/ Connected /\ Use("lost")
  \/ ~Connected /\ UNCHANGED used

ThreadFails ==
  /\ op.pc = "resume" /\ CallLost
  /\ WriteStatus(op.run, "failed") /\ op' = Free
  /\ UNCHANGED <<active, inputMu, consumer, monitor, outbox, ledger, codex, server, ghosts, bound>>

\* App Server starts the turn; its notifications may overtake the reply.
TurnStarts ==
  /\ op.pc = "call" /\ Connected
  /\ turn' = Append(turn, [run |-> op.run, state |-> "running"])
  /\ op' = [op EXCEPT !.pc = "started"]
  /\ UNCHANGED <<active, inputMu, consumer, monitor, files, notes, server, ghosts, bounds>>

\* It rejects the turn ("failed"), or what became of it is not known.
TurnStartFails(status) ==
  /\ op.pc = "call" \/ (op.pc = "started" /\ status = "unknown")
  /\ CallLost
  /\ SetTerminal(status)
  /\ op' = [op EXCEPT !.pc = "terminal", !.status = status]
  /\ UNCHANGED <<inputMu, consumer, monitor, files, codex, server, ghosts, bound>>

WriteTerminal ==
  /\ op.pc = "terminal"
  /\ WriteStatus(op.run, op.status) /\ op' = Free
  /\ UNCHANGED <<active, inputMu, consumer, monitor, outbox, ledger, codex, server, ghosts, bounds>>

\* The turn may have been completed before: then its run stays as it is.
TurnStarted ==
  /\ op.pc = "started"
  /\ IF active.status = "starting"
     THEN /\ active' = [active EXCEPT !.turn = Len(turn), !.status = "running"]
          /\ op' = [op EXCEPT !.pc = "running"]
     ELSE op' = [op EXCEPT !.pc = "announce"] /\ UNCHANGED active
  /\ UNCHANGED <<inputMu, consumer, monitor, files, codex, server, ghosts, bounds>>

WriteRunning ==
  /\ op.pc = "running"
  /\ WriteStatus(op.run, "running") /\ op' = [op EXCEPT !.pc = "announce"]
  /\ UNCHANGED <<active, inputMu, consumer, monitor, outbox, ledger, codex, server, ghosts, bounds>>

Announce ==
  /\ op.pc = "announce" /\ Appended(op.run, "started", 0) /\ op' = Free
  /\ UNCHANGED <<inputMu, consumer, monitor, file, ledger, codex, server, ghosts, bounds>>

-----------------------------------------------------------------------------
\* interrupt.  A turn that is not the active one is refused, which changes nothing.

Interrupt ==
  /\ op.pc = "idle" /\ Use("interrupt")
  /\ IsRunning(active) /\ active.turn # 0
  /\ op' = Request("interrupt", active.run, 0)
  /\ UNCHANGED <<active, inputMu, consumer, monitor, files, codex, server, ghosts, bound>>

Completion(t, status) ==
  [type |-> "completed", turn |-> t, of |-> 0, status |-> status, own |-> TRUE]

\* Where a turn stands that the active run knows.
TurnState == turn[active.turn].state

TurnInterrupted ==
  /\ op.pc = "interrupt" /\ Connected /\ TurnState = "running"
  /\ turn' = [turn EXCEPT ![active.turn].state = "interrupted"]
  /\ notes' = Append(notes, Completion(active.turn, "interrupted"))
  /\ op' = [op EXCEPT !.pc = "interrupted"]
  /\ UNCHANGED <<active, inputMu, consumer, monitor, files, server, ghosts, bounds>>

InterruptFails ==
  /\ \/ op.pc \in {"interrupt", "interrupted"} /\ CallLost
     \/ op.pc = "interrupt" /\ TurnState # "running" /\ UNCHANGED used
  /\ op' = Free
  /\ UNCHANGED <<active, inputMu, consumer, monitor, files, codex, server, ghosts, bound>>

Interrupted ==
  /\ op.pc = "interrupted" /\ SetTerminal("interrupted")
  /\ op' = [op EXCEPT !.pc = "terminal", !.status = "interrupted"]
  /\ UNCHANGED <<inputMu, consumer, monitor, files, codex, server, ghosts, bounds>>

-----------------------------------------------------------------------------
\* steer.

\* The server sends a message to a run whose turn it knows, or repeats it after it
\* has heard that the delivery is unknown.  A refusal is final for it.
SendSteer(r) ==
  /\ Use("message")
  /\ \E t \in TurnId : turn[t].run = r
  /\ message' = Append(message, [run |-> r, attempts |-> 1, answer |-> "waiting"])
  /\ ledger' = Append(ledger, NoDelivery) /\ delivered' = Append(delivered, 0)
  /\ UNCHANGED <<memory, file, outbox, codex, relay, ended, bound>>

RepeatSteer(m) ==
  /\ message[m].answer = "unknown" /\ message[m].attempts < bound.attempt
  /\ message' = [message EXCEPT ![m] = [message[m] EXCEPT !.attempts = @ + 1, !.answer = "waiting"]]
  /\ UNCHANGED <<memory, files, codex, relay, ghosts, bounds>>

\* The handler answers and releases its locks.
Answered(m, answer) ==
  /\ message' = [message EXCEPT ![m].answer = answer]
  /\ op' = Free
  /\ inputMu' = IF inputMu = "steer" THEN "free" ELSE inputMu

\* The ledger knows the message: nothing is delivered again.
SteerKnown(m) ==
  /\ op.pc = "idle" /\ message[m].answer = "waiting"
  /\ \/ ledger[m].state = "rejected" /\ Answered(m, "refused")
     \/ ledger[m].state = "pending" /\ Answered(m, "unknown")
     \/ /\ ledger[m].state = "accepted"
        /\ op' = Repetition(message[m].run, m)
        /\ UNCHANGED <<message, inputMu>>
  /\ UNCHANGED <<active, consumer, monitor, files, codex, relay, ghosts, bounds>>

SteerNew(m) ==
  /\ op.pc = "idle" /\ message[m].answer = "waiting"
  /\ ledger[m].state = "none"
  /\ op' = Request("lock", message[m].run, m)
  /\ UNCHANGED <<active, inputMu, consumer, monitor, files, codex, server, ghosts, bounds>>

\* The message names the run and its turn.
Matches(r) == active.status = "running" /\ active.run = r

\* The consumer is not kept out.
Unguarded == "free"

Guarded == "steer"

SteerRefused ==
  /\ op.pc = "lock" /\ inputMu = "free"
  /\ ~Matches(op.run) /\ Answered(op.message, "refused")
  /\ UNCHANGED <<active, consumer, monitor, files, codex, relay, ghosts, bounds>>

\* The ledger is not written before the call.
Undeclared(m) == ledger

Declared(m) == [ledger EXCEPT ![m] = [@ EXCEPT !.state = "pending", !.after = active.sequence]]

SteerPending ==
  /\ op.pc = "lock" /\ inputMu = "free"
  /\ Matches(op.run)
  /\ inputMu' = Guarded /\ ledger' = Declared(op.message)
  /\ op' = [op EXCEPT !.pc = "steer"]
  /\ UNCHANGED <<active, consumer, monitor, file, outbox, codex, server, ghosts, bounds>>

\* App Server takes the input into the turn, which may be answered at once.
TurnSteered ==
  /\ op.pc = "steer" /\ Connected /\ TurnState = "running"
  /\ delivered' = [delivered EXCEPT ![op.message] = @ + 1]
  /\ op' = [op EXCEPT !.pc = "steered"]
  /\ UNCHANGED <<active, inputMu, consumer, monitor, files, codex, server, ended, bounds>>

TurnRefusesSteer ==
  /\ op.pc = "steer" /\ Connected /\ TurnState # "running"
  /\ op' = [op EXCEPT !.pc = "refused"]
  /\ UNCHANGED <<active, inputMu, consumer, monitor, files, codex, server, ghosts, bounds>>

SteerRejected ==
  /\ op.pc = "refused"
  /\ ledger' = [ledger EXCEPT ![op.message].state = "rejected"]
  /\ Answered(op.message, "refused")
  /\ UNCHANGED <<active, consumer, monitor, file, outbox, codex, relay, ghosts, bounds>>

\* Any failure counts as a refusal.
LostAnswer == "refused"

UnknownAnswer == "unknown"

SteerLost ==
  /\ op.pc \in {"steer", "steered", "refused"} /\ CallLost
  /\ Answered(op.message, UnknownAnswer)
  /\ UNCHANGED <<active, consumer, monitor, files, codex, relay, ghosts, bound>>

SteerAccepted ==
  /\ op.pc = "steered"
  /\ ledger' = [ledger EXCEPT ![op.message].state = "accepted"]
  /\ op' = [op EXCEPT !.pc = "record"]
  /\ UNCHANGED <<active, inputMu, consumer, monitor, file, outbox, codex, server, ghosts, bounds>>

\* recordSteerInput: the event of the input, once, behind every event of the run.
HasInput(r, m) == \E n \in DOMAIN outbox[r] : outbox[r][n].type = "input" /\ outbox[r][n].of = m

\* The events are not searched.
Unsearched(r, m) == FALSE

Highest(r, m) ==
  CHOOSE h \in 0..(Len(outbox[r]) + active.sequence + ledger[m].after) :
    LET known == {outbox[r][n].sequence : n \in DOMAIN outbox[r]} \cup {ledger[m].after}
                   \cup (IF active.run = r THEN {active.sequence} ELSE {})
    IN h \in known /\ \A k \in known : k <= h

Found(r, m) == HasInput(r, m)

RecordInput ==
  /\ op.pc = "record"
  /\ IF ledger[op.message].recorded
     THEN op' = [op EXCEPT !.pc = "report"] /\ UNCHANGED outbox
     ELSE /\ op' = [op EXCEPT !.pc = "mark"]
          /\ outbox' = IF Found(op.run, op.message) THEN outbox
                       ELSE [outbox EXCEPT ![op.run] =
                              Append(@, [sequence |-> Highest(op.run, op.message) + 1,
                                         type |-> "input", of |-> op.message])]
  /\ UNCHANGED <<active, inputMu, consumer, monitor, file, ledger, codex, server, ghosts, bounds>>

\* The run in memory does not learn of the event.
Unchanged(r, m) == active

Adopted(r, m) ==
  IF active.run = r THEN [active EXCEPT !.sequence = Highest(r, m)] ELSE active

MarkRecorded ==
  /\ op.pc = "mark"
  /\ active' = Adopted(op.run, op.message)
  /\ ledger' = [ledger EXCEPT ![op.message].recorded = TRUE]
  /\ op' = [op EXCEPT !.pc = "report"]
  /\ UNCHANGED <<inputMu, consumer, monitor, file, outbox, codex, server, ghosts, bounds>>

\* A repeated steer only answers.
Report ==
  /\ op.pc = "report" /\ Answered(op.message, "ok")
  /\ IF op.again THEN UNCHANGED <<active, outbox>> ELSE Appended(op.run, "steered", op.message)
  /\ UNCHANGED <<consumer, monitor, file, ledger, codex, relay, ghosts, bounds>>

-----------------------------------------------------------------------------
\* App Server by itself.

IsLive(t) == Connected /\ turn[t].state = "running"

\* An output answers an input that has entered the turn, or none (0).
Answerable(t) == {0} \cup {m \in MessageId : message[m].run = turn[t].run /\ delivered[m] > 0}

EmitOutput(t, m) ==
  /\ IsLive(t) /\ m \in Answerable(t) /\ Use("output")
  /\ notes' = Append(notes, [type |-> "output", turn |-> t, of |-> m, status |-> "running",
                             own |-> TRUE])
  /\ UNCHANGED <<memory, files, turn, server, ghosts, bound>>

CompleteTurn(t) ==
  /\ IsLive(t)
  /\ turn' = [turn EXCEPT ![t].state = "completed"]
  /\ notes' = Append(notes, Completion(t, "completed"))
  /\ UNCHANGED <<memory, files, server, ghosts, bounds>>

\* A subagent, in a thread of its own, has completed its turn.
CompleteForeign ==
  /\ Connected /\ Use("foreign")
  /\ notes' = Append(notes, [Completion(0, "completed") EXCEPT !.own = FALSE])
  /\ UNCHANGED <<memory, files, turn, server, ghosts, bound>>

Cut == [t \in TurnId |-> IF turn[t].state = "running"
                          THEN [turn[t] EXCEPT !.state = "interrupted"] ELSE turn[t]]

\* App Server dies; the worker still gets some of the last notifications.
AppServerDies ==
  /\ Connected /\ Use("death")
  /\ monitor' = [pc |-> "dead", run |-> 0]
  /\ \E n \in 0..Len(notes) : notes' = SubSeq(notes, 1, n)
  /\ turn' = Cut
  /\ UNCHANGED <<active, op, inputMu, consumer, files, server, ghosts, bound>>

\* monitorAppServer looks whether a run is active.
MonitorChecks ==
  /\ monitor.pc = "dead" /\ Unlocked
  /\ monitor' = [pc |-> IF IsRunning(active) THEN "failing" ELSE "failed", run |-> 0]
  /\ UNCHANGED <<active, op, inputMu, consumer, files, codex, server, ghosts, bounds>>

\* It ends the run that is active now.
MonitorFails ==
  /\ monitor.pc = "failing" /\ Unlocked
  /\ SetTerminal("unknown") /\ monitor' = [pc |-> "file", run |-> active.run]
  /\ UNCHANGED <<op, inputMu, consumer, files, codex, server, ghosts, bounds>>

MonitorWrites ==
  /\ monitor.pc = "file"
  /\ WriteStatus(monitor.run, "unknown") /\ monitor' = [pc |-> "failed", run |-> 0]
  /\ UNCHANGED <<active, op, inputMu, consumer, outbox, ledger, codex, server, ghosts, bounds>>

-----------------------------------------------------------------------------
\* consumeNotifications.

\* The thread is not compared.
AnyThread(note) == note.turn = 0 \/ active.turn = 0 \/ note.turn = active.turn

Belongs(note) ==
  /\ note.own
  /\ note.turn = 0 \/ active.turn = 0 \/ note.turn = active.turn

\* inputMu is not released for a notification that is skipped.
Kept == "consumer"

Released == "free"

Skip ==
  /\ consumer.todo = <<>> /\ notes # <<>> /\ inputMu = "free" /\ Unlocked
  /\ active.run = 0 \/ ~Belongs(Head(notes))
  /\ notes' = Tail(notes) /\ inputMu' = Released
  /\ UNCHANGED <<active, op, consumer, monitor, files, turn, server, ghosts, bounds>>

\* The run is ended before the event is written.
EndFirst(note) ==
  IF note.type = "completed" THEN <<"terminal", "file", "append">> ELSE <<"append">>

Todo(note) ==
  IF note.type = "completed" THEN <<"append", "terminal", "file">> ELSE <<"append">>

Consume ==
  /\ consumer.todo = <<>> /\ notes # <<>> /\ inputMu = "free" /\ Unlocked
  /\ active.run # 0 /\ Belongs(Head(notes))
  /\ notes' = Tail(notes) /\ inputMu' = "consumer"
  /\ consumer' = [todo |-> Todo(Head(notes)), run |-> active.run, note |-> Head(notes)]
  /\ UNCHANGED <<active, op, monitor, files, turn, server, ghosts, bounds>>

ConsumerIs(step) == consumer.todo # <<>> /\ Head(consumer.todo) = step

\* The run is the one the next step is about.
ConsumerGoesOn(r) ==
  IF Len(consumer.todo) = 1
  THEN consumer' = Waiting /\ inputMu' = "free"
  ELSE /\ consumer' = [todo |-> Tail(consumer.todo), run |-> r, note |-> consumer.note]
       /\ UNCHANGED inputMu

ConsumerAppends ==
  /\ ConsumerIs("append") /\ Unlocked
  /\ Appended(consumer.run, consumer.note.type, consumer.note.of)
  /\ ConsumerGoesOn(consumer.run)
  /\ UNCHANGED <<op, monitor, file, ledger, codex, server, ghosts, bounds>>

ConsumerEndsRun ==
  /\ ConsumerIs("terminal") /\ Unlocked
  /\ SetTerminal(consumer.note.status)
  /\ ended' = [ended EXCEPT ![active.run] = @ \cup {consumer.note.turn}]
  /\ ConsumerGoesOn(active.run)
  /\ UNCHANGED <<op, monitor, files, codex, server, delivered, bounds>>

ConsumerWrites ==
  /\ ConsumerIs("file")
  /\ WriteStatus(consumer.run, consumer.note.status)
  /\ ConsumerGoesOn(consumer.run)
  /\ UNCHANGED <<active, op, monitor, outbox, ledger, codex, server, ghosts, bounds>>

-----------------------------------------------------------------------------
\* events: the relay of a run reads its status, then its events, until the status is
\* terminal.

TryLock == op.pc = "idle"

\* operationMu is not tried.
SeenAnyway(r) == file[r]

\* A terminal status counts only while no operation may still write events.
Seen(r) == IF TryLock \/ IsRunning([status |-> file[r]]) THEN file[r] ELSE "running"

Poll(r) ==
  /\ relay[r].pc = "idle"
  /\ relay' = [relay EXCEPT ![r] = [@ EXCEPT !.pc = "scan", !.status = Seen(r), !.locked = TryLock]]
  /\ op' = IF TryLock THEN Request("poll", r, 0) ELSE op
  /\ UNCHANGED <<active, inputMu, consumer, monitor, files, codex, message, ghosts, bounds>>

Scan(r) ==
  /\ relay[r].pc = "scan"
  /\ relay' = [relay EXCEPT ![r] =
       [@ EXCEPT !.pc = IF relay[r].status \in Terminal THEN "final" ELSE "idle",
                 !.got = Len(outbox[r])]]
  /\ op' = IF relay[r].locked THEN Free ELSE op
  /\ UNCHANGED <<active, inputMu, consumer, monitor, files, codex, message, ghosts, bounds>>

-----------------------------------------------------------------------------
\* The worker dies, with App Server, and starts again: recoverOutbox.
Recovered(status) == IF status \in {"starting", "running"} THEN "unknown" ELSE status

Restarted ==
  /\ active' = NoRun /\ op' = Free /\ inputMu' = "free" /\ consumer' = Waiting
  /\ monitor' = Watching /\ notes' = <<>>
  /\ file' = [r \in RunId |-> Recovered(file[r])]
  /\ turn' = Cut
  /\ relay' = [r \in RunId |-> IF relay[r].pc = "scan" THEN [relay[r] EXCEPT !.pc = "idle"]
                               ELSE relay[r]]
  /\ message' = [m \in MessageId |-> IF message[m].answer = "waiting"
                                     THEN [message[m] EXCEPT !.answer = "unknown"] ELSE message[m]]
  /\ UNCHANGED <<outbox, ledger, ghosts, bound>>

Crash == Use("crash") /\ Restarted

\* The worker exits by itself after App Server died.
Exit == monitor.pc = "failed" /\ Restarted /\ UNCHANGED used

-----------------------------------------------------------------------------
StartStep ==
  \/ ThreadReady \/ ThreadFails \/ TurnStarts \/ TurnStartFails("failed") \/ TurnStartFails("unknown")
  \/ WriteTerminal \/ TurnStarted \/ WriteRunning \/ Announce

InterruptStep == TurnInterrupted \/ InterruptFails \/ Interrupted

SteerStep ==
  \/ SteerRefused \/ SteerPending \/ TurnSteered \/ TurnRefusesSteer \/ SteerRejected
  \/ SteerLost \/ SteerAccepted \/ RecordInput \/ MarkRecorded \/ Report

ConsumerStep ==
  \/ Skip \/ Consume \/ ConsumerAppends \/ ConsumerEndsRun \/ ConsumerWrites

CodexStep ==
  \/ CompleteForeign \/ AppServerDies
  \/ \E t \in TurnId : CompleteTurn(t) \/ \E m \in Answerable(t) : EmitOutput(t, m)

HandlerStep == StartStep \/ InterruptStep \/ SteerStep

MonitorStep == MonitorChecks \/ MonitorFails \/ MonitorWrites \/ Exit

SteerTaken(m) == SteerKnown(m) \/ SteerNew(m)

Next ==
  \/ StartTurn \/ Interrupt \/ HandlerStep \/ ConsumerStep \/ CodexStep \/ MonitorStep \/ Crash
  \/ \E r \in RunId : SendSteer(r) \/ Poll(r) \/ Scan(r)
  \/ \E m \in MessageId : RepeatSteer(m) \/ SteerTaken(m)

Spec == Init /\ [][Next]_vars

\* Goroutines get their turn, and a mutex that is waited for is handed over at last.
Fairness ==
  /\ WF_vars(HandlerStep) /\ WF_vars(ConsumerStep) /\ WF_vars(MonitorStep)
  /\ \A r \in 1..MaxRun : WF_vars(r \in RunId /\ Scan(r))
  /\ \A m \in 1..MaxMessage : SF_vars(m \in MessageId /\ SteerTaken(m))

FairSpec == Spec /\ Fairness

-----------------------------------------------------------------------------
\* A steer enters a turn at most once, however often it is repeated after lost replies
\* and restarts.
AtMostOneDelivery == \A m \in MessageId : delivered[m] <= 1

\* What was refused has not entered a turn: the server starts a turn of its own for it.
RefusedMeansNotDelivered ==
  \A m \in MessageId : message[m].answer = "refused" => delivered[m] = 0

\* Where a message stands in the events of a run.
Inputs(r, m) ==
  {n \in DOMAIN outbox[r] : outbox[r][n].type = "input" /\ outbox[r][n].of = m}

\* An accepted input stands before everything of its run that answers it, although App
\* Server may answer before it acknowledges the steer.  (What a turn emits after its run
\* was interrupted may be counted among the events of the next run, like its completion:
\* see OnlyItsOwnTurnFinishesRun.)
InputPrecedesItsAnswer ==
  \A r \in RunId : \A n \in DOMAIN outbox[r] :
    LET event == outbox[r][n]
    IN /\ event.type = "output" /\ event.of # 0
       /\ message[event.of].run = r /\ ledger[event.of].state = "accepted"
       => \E k \in Inputs(r, event.of) : k < n

\* The relay asks for events behind the last sequence it has: every event is found there,
\* whoever wrote it, even if it was written after a restart.
SequencesIncrease ==
  \A r \in RunId : \A k, n \in DOMAIN outbox[r] :
    k < n => outbox[r][k].sequence < outbox[r][n].sequence

\* A confirmed steer has one event of its input, also if a repetition had to repair it.
ConfirmedInputStandsOnce ==
  \A m \in MessageId :
    LET inputs == Inputs(message[m].run, m)
    IN Cardinality(inputs) <= 1 /\ (message[m].answer = "ok" => inputs # {})

\* One input, and before its answers.
AcceptedInputHasItsPlace == InputPrecedesItsAnswer /\ ConfirmedInputStandsOnce

\* The relay does not stop before the input of a steer that was confirmed at once.
FinalBatchHasInputs ==
  \A m \in MessageId :
    LET r == message[m].run
    IN message[m].answer = "ok" /\ message[m].attempts = 1 /\ relay[r].pc = "final"
         => \E n \in Inputs(r, m) : n <= relay[r].got

EndedByItself(r) == \A t \in ended[r] : turn[t].run = r

\* Nor before the completion, if it stops because the run's own turn is completed.
FinalBatchHasCompletion ==
  \A r \in RunId :
    /\ relay[r].pc = "final" /\ relay[r].status = "completed"
    /\ ended[r] # {} /\ EndedByItself(r)
    => \E n \in 1..relay[r].got : outbox[r][n].type = "completed"

\* The batch that ends the relay lacks nothing, and no batch hides an event.
FinalBatchIsComplete == SequencesIncrease /\ FinalBatchHasInputs /\ FinalBatchHasCompletion

\* Every steer is answered: operationMu and inputMu are never held for good.
SteersAreAnswered ==
  \A m \in 1..MaxMessage :
    (m \in MessageId /\ message[m].answer = "waiting")
      ~> (m \in MessageId /\ message[m].answer # "waiting")

\* "Review subagents and resumed threads can emit notifications on the same connection.
\* Their completion or errors must not finish the working run." (worker.go)
OnlyItsOwnTurnFinishesRun ==
  \A r \in RunId : EndedByItself(r)
=============================================================================
