--------------------------- MODULE Collaboration ---------------------------
(***************************************************************************)
(* Delegation between agents: the durable task table, the dispatcher, the  *)
(* completion notifications, and everything that shares an agent's         *)
(* operation lock or its runs with them (manual messages, scheduled runs,  *)
(* Stop run, stop, archive, New chat, the event relay, a server restart).  *)
(*                                                                         *)
(* Every SQLite transaction is one step: the store has a single            *)
(* connection.  A handler that does several transactions or remote calls   *)
(* under the agent lock is a record in op[a], whose pc says which of them  *)
(* comes next; pc = "idle" means that the lock of a is free.  What runs    *)
(* without the lock (accepting a task, the relay, reconciliation, the      *)
(* worker itself) interleaves between those steps.                         *)
(***************************************************************************)
EXTENDS Integers, Sequences, FiniteSets

CONSTANTS
  Agent,            \* agents of the deployment
  Sender,           \* those that delegate work
  Key, NoKey,       \* idempotency keys of senders; the key of a harness receipt
  Mode,             \* delivery modes senders use, within {"queue", "steer"}
  CompletionMode,   \* completion modes they use, within {"poll", "notify"}
  UserOp,           \* user operations that occur, see UserOps below
  Outcome,          \* outcomes of turns, within {"completed", "failed", "unknown"}
  Faults,           \* whether remote calls fail or lose their replies
  MaxPending,       \* MaxPendingCollaborationTasks
  MaxSend,          \* bound: tasks accepted from senders
  MaxUserRun,       \* bound: runs that do not come from a task
  MaxReset,         \* bound: New chat per agent
  MaxCrash,         \* bound: server restarts
  Disconnects       \* whether HTTP clients may go away while they wait

UserOps == {"cancel", "interrupt", "stop", "archive", "reset", "steer", "schedule"}

ASSUME ConstantsAssumption ==
  /\ Sender \subseteq Agent
  /\ NoKey \notin Key
  /\ Mode \subseteq {"queue", "steer"}
  /\ CompletionMode \subseteq {"poll", "notify"}
  /\ UserOp \subseteq UserOps
  /\ Outcome \subseteq {"completed", "failed", "unknown"}
  /\ MaxPending \in Nat \ {0}
  /\ MaxSend \in Nat /\ MaxUserRun \in Nat /\ MaxReset \in Nat /\ MaxCrash \in Nat
  /\ Disconnects \in BOOLEAN /\ Faults \in BOOLEAN

VARIABLES
  task,      \* collaboration_tasks in sequence order
  run,       \* runs in creation order, with their relay and worker outbox
  conv,      \* conv[a]: number of a's current conversation
  archived,  \* agents with archived=1
  op,        \* op[a]: the handler that holds the operation lock of a
  seen,      \* seen[a]: active run a task submission by a has read, -1 if none waits
  inputs,    \* history: task inputs an app-server accepted
  silenced,  \* history: runs whose Stop run request was acknowledged
  crashes    \* number of restarts so far

vars == <<task, run, conv, archived, op, seen, inputs, silenced, crashes>>
-----------------------------------------------------------------------------
(* Rows and handlers.  Row 0 stands for the empty reference.               *)

Live == {"queued", "running"}
RunTerminal == {"completed", "failed", "interrupted", "unknown"}
Pending == {"queued", "dispatching", "running"}
Terminal == RunTerminal \cup {"cancelled"}

Task == [sender: Agent, senderRun: Nat, target: Agent, key: Key \cup {NoKey},
         mode: {"queue", "steer"}, completionMode: {"poll", "notify"},
         completionTask: Nat, notificationFor: Nat,
         steerFallback: BOOLEAN, deliveryConfirmed: BOOLEAN,
         status: Pending \cup Terminal, run: Nat]

\* outbox: the run's status file in the worker ("none" before it exists).
\* relay: the relayRun goroutine: off, polling, or about to finish the run with
\* the terminal status it has read, which the outbox keeps.
Run == [agent: Agent, conversation: Nat,
        source: {"manual", "schedule", "collaboration"}, task: Nat,
        status: Live \cup RunTerminal, turn: BOOLEAN,
        outbox: {"none", "starting", "live"} \cup RunTerminal,
        relay: {"off", "polling", "finishing"}]

PC == {"idle",
       "outbox", "select",                                  \* dispatchCollaboration
       "claimed", "created", "bound", "calling",            \* start of a turn
       "accepted", "started", "rejected", "failing", "lost",
       "steering", "steered", "steerRejected", "steerLost", \* steerCollaboration
       "messageSteer",                                      \* message to an active run
       "interrupting", "interrupted", "silence",            \* interrupt
       "suppress", "cancelQueued", "stopInterrupt", "stopRuntime",
       "stopFinish", "suppressAgain", "cancelAgain", "archive"}

Operation == [pc: PC, task: Nat, run: Nat, todo: SUBSET Nat,
              gone: BOOLEAN, archive: BOOLEAN]

Idle == [pc |-> "idle", task |-> 0, run |-> 0, todo |-> {},
         gone |-> FALSE, archive |-> FALSE]

TaskId == DOMAIN task
RunId == DOMAIN run

TasksTyped ==
  /\ task \in Seq(Task)
  /\ \A t \in TaskId : /\ task[t].run \in 0..Len(run) /\ task[t].senderRun \in 0..Len(run)
                       /\ task[t].completionTask \in 0..Len(task)
                       /\ task[t].notificationFor \in 0..Len(task)

RunsTyped ==
  /\ run \in Seq(Run)
  /\ \A r \in RunId : run[r].task \in 0..Len(task)

HandlersTyped ==
  /\ op \in [Agent -> Operation]
  /\ \A a \in Agent : op[a].task \in 0..Len(task) /\ op[a].run \in 0..Len(run)
  /\ seen \in [Agent -> -1..Len(run)]

\* Rows have the values their columns admit and refer to rows that exist,
\* although links and rows are written by several transactions and handlers.
TypeOK ==
  /\ TasksTyped /\ RunsTyped /\ HandlersTyped
  /\ conv \in [Agent -> Nat]
  /\ archived \subseteq Agent
  /\ inputs \subseteq [task: Nat, run: Nat, how: {"start", "steer"}]
  /\ silenced \subseteq Nat
  /\ crashes \in Nat

Init ==
  /\ task = <<>>
  /\ run = <<>>
  /\ conv = [a \in Agent |-> 1]
  /\ archived = {}
  /\ op = [a \in Agent |-> Idle]
  /\ seen = [a \in Agent |-> -1]
  /\ inputs = {}
  /\ silenced = {}
  /\ crashes = 0
-----------------------------------------------------------------------------
(* Queries of the store.                                                   *)

ActiveRuns(a) == {r \in RunId : run[r].agent = a /\ run[r].status \in Live}

\* The unique partial index leaves at most one; 0 stands for ErrNotFound.
ActiveRun(a) == IF ActiveRuns(a) = {} THEN 0 ELSE CHOOSE r \in ActiveRuns(a) : TRUE

Queued(a) == {t \in TaskId : task[t].target = a /\ task[t].status = "queued"}

PendingCount(a) ==
  Cardinality({t \in TaskId : task[t].target = a /\ task[t].status \in Pending})

QueueFull(a) == PendingCount(a) >= MaxPending

\* Mutant: the newest instead of the oldest.
IsNewest(t, S) == t \in S /\ \A u \in S : u <= t

\* Tasks are read in sequence order.
IsFirst(t, S) == t \in S /\ \A u \in S : t <= u

\* Mutant: a task counts again once it has its receipt.
Notifiable(a) == {t \in TaskId : task[t].sender = a /\ task[t].completionMode = "notify"}

Uncompleted(a) ==
  {t \in TaskId : /\ task[t].sender = a
                  /\ task[t].completionMode = "notify"
                  /\ task[t].completionTask = 0}

PendingCompletions(a) == {t \in Uncompleted(a) : task[t].status \in Terminal}

\* Mutant: pending completions do not wake the dispatcher.
QueuedTargets == {a \in Agent : Queued(a) # {}}

\* collaborationLoop starts one dispatcher for each of these.
CollaborationTaskTargets == {a \in Agent : Queued(a) # {} \/ PendingCompletions(a) # {}}
-----------------------------------------------------------------------------
(* Updates of rows, one UPDATE or INSERT each.                             *)

\* Mutant: the relay watches the run before its turn has started.
NewRelayedRun(a, c, source, t) ==
  [agent |-> a, conversation |-> c, source |-> source, task |-> t,
   status |-> "queued", turn |-> FALSE, outbox |-> "none", relay |-> "polling"]

NewRun(a, c, source, t) ==
  [agent |-> a, conversation |-> c, source |-> source, task |-> t,
   status |-> "queued", turn |-> FALSE, outbox |-> "none", relay |-> "off"]

\* FinishRun updates the row whatever its status is.
FinishRun(r, status) == [run EXCEPT ![r].status = status]

\* Mutant: no relay is started.
NoRelay(relay) == relay

StartRelay(relay) == IF relay = "off" THEN "polling" ELSE relay

\* What cancelRelay can make of a relay.  One that polls stops.  One that holds
\* a terminal batch finishes the run from context.Background() all the same,
\* unless it still had events of the batch to persist.
CancelRelay(relay) == IF relay = "polling" THEN {"off"} ELSE {relay, "off"}

\* SetCollaborationTaskState changes a row only while its delivery is open.
SetTaskState(t, status, r) ==
  IF task[t].status = "dispatching" \/ (task[t].status = "running" /\ status \in RunTerminal)
  THEN [task EXCEPT ![t].status = status,
                    ![t].run = r,
                    ![t].steerFallback = @ \/ (status = "queued" /\ task[t].mode = "steer"),
                    ![t].deliveryConfirmed =
                       IF status = "running" THEN TRUE
                       ELSE IF status = "queued" THEN FALSE ELSE @]
  ELSE task

\* Mutant: cancels every row of the target.
CancelAll(a) ==
  [t \in TaskId |-> IF task[t].target = a THEN [task[t] EXCEPT !.status = "cancelled"]
                                          ELSE task[t]]

CancelQueued(a) ==
  [t \in TaskId |-> IF t \in Queued(a) THEN [task[t] EXCEPT !.status = "cancelled"]
                                       ELSE task[t]]

\* The reverse task of a completion; its key completion:<id> is always fresh.
CompletionReceipt(t, status) ==
  [sender |-> task[t].target, senderRun |-> task[t].run, target |-> task[t].sender,
   key |-> NoKey, mode |-> "steer", completionMode |-> "poll",
   completionTask |-> 0, notificationFor |-> t,
   steerFallback |-> FALSE, deliveryConfirmed |-> FALSE, status |-> status, run |-> 0]

\* Insert the receipt and link it to its task in one transaction.
WithCompletion(t, status) ==
  Append([task EXCEPT ![t].completionTask = Len(task) + 1], CompletionReceipt(t, status))

\* S listed in sequence order.
Listings(S) ==
  {s \in [1..Cardinality(S) -> S] : /\ \A i, j \in DOMAIN s : i < j => s[i] < s[j]
                                    /\ \A t \in S : \E i \in DOMAIN s : s[i] = t}

\* SuppressCollaborationCompletions: a cancelled receipt for every task of a
\* that could still call back, and no queued notification to a survives.
Suppressed(a, order) ==
  [t \in TaskId |->
     IF \E i \in DOMAIN order : order[i] = t
     THEN [task[t] EXCEPT !.completionTask =
                            Len(task) + CHOOSE i \in DOMAIN order : order[i] = t]
     ELSE IF t \in Queued(a) /\ task[t].notificationFor # 0
     THEN [task[t] EXCEPT !.status = "cancelled"]
     ELSE task[t]]
  \o [i \in DOMAIN order |-> CompletionReceipt(order[i], "cancelled")]

SuppressCollaborationCompletions(a) ==
  \E order \in Listings(Uncompleted(a)) : task' = Suppressed(a, order)

\* Mutant: an unknown task follows any run it was aimed at.
FollowsAnyRun(t) ==
  /\ task[t].status \in {"running", "unknown"}
  /\ task[t].run # 0
  /\ run[task[t].run].status \in RunTerminal

\* Running tasks follow their run; an unknown one only a run of its own.
Reconcilable(t) ==
  /\ \/ task[t].status = "running"
     \/ /\ task[t].status = "unknown"
        /\ task[t].run # 0 /\ run[task[t].run].task = t
  /\ task[t].run # 0
  /\ run[task[t].run].status \in RunTerminal

Reconciled ==
  [t \in TaskId |->
     IF Reconcilable(t)
     THEN [task[t] EXCEPT !.status = run[task[t].run].status,
                          !.deliveryConfirmed = @ \/ run[task[t].run].status # "unknown"]
     ELSE task[t]]
-----------------------------------------------------------------------------
(* Accepting a task.  collaborationSend takes no agent lock: it reads the  *)
(* sender's active run, then inserts the task in a transaction of its own. *)

Sent == {t \in TaskId : task[t].notificationFor = 0}

CollaborationSend(a) ==
  /\ a \in Sender \ archived
  /\ seen[a] = -1
  /\ Cardinality(Sent) < MaxSend
  /\ seen' = [seen EXCEPT ![a] = ActiveRun(a)]
  /\ UNCHANGED <<task, run, conv, archived, op, inputs, silenced, crashes>>

\* Mutant: the sender's run is not read again in the transaction.
MightNotify(a, r) == r # 0 /\ run[r].source # "schedule"

\* Notify mode needs a chat run of the sender that is active in the transaction.
MayNotify(a, r) ==
  /\ r \in ActiveRuns(a)
  /\ run[r].source # "schedule"

EnqueueCollaborationTask(a) ==
  /\ seen[a] # -1
  /\ Cardinality(Sent) < MaxSend
  /\ \E target \in Agent \ {a}, key \in Key, mode \in Mode, completionMode \in CompletionMode :
       /\ \A t \in TaskId : ~(task[t].sender = a /\ task[t].key = key)
       /\ completionMode = "notify" => MayNotify(a, seen[a])
       /\ {a, target} \cap archived = {}
       /\ ~QueueFull(target)
       /\ task' = Append(task,
            [sender |-> a, senderRun |-> seen[a], target |-> target, key |-> key,
             mode |-> mode, completionMode |-> completionMode,
             completionTask |-> 0, notificationFor |-> 0,
             steerFallback |-> FALSE, deliveryConfirmed |-> FALSE,
             status |-> "queued", run |-> 0])
  /\ seen' = [seen EXCEPT ![a] = -1]
  /\ UNCHANGED <<run, conv, archived, op, inputs, silenced, crashes>>

\* The submission returns an existing receipt, is refused, or its caller left.
SendReturns(a) ==
  /\ seen[a] # -1
  /\ seen' = [seen EXCEPT ![a] = -1]
  /\ UNCHANGED <<task, run, conv, archived, op, inputs, silenced, crashes>>

\* The sender cancels a task that nobody has claimed, under the target's lock.
CollaborationCancel(t) ==
  /\ "cancel" \in UserOp
  /\ op[task[t].target] = Idle
  /\ task[t].notificationFor = 0
  /\ task[t].status = "queued"
  /\ task' = [task EXCEPT ![t].status = "cancelled"]
  /\ UNCHANGED <<run, conv, archived, op, seen, inputs, silenced, crashes>>
-----------------------------------------------------------------------------
(* dispatchCollaboration(a), under the lock of a.                          *)

Step(a, pc) == op' = [op EXCEPT ![a].pc = pc]
Return(a) == op' = [op EXCEPT ![a] = Idle]

DispatchCollaboration(a) ==
  /\ op[a] = Idle
  /\ a \in CollaborationTaskTargets
  /\ op' = [op EXCEPT ![a].pc = "outbox", ![a].todo = PendingCompletions(a)]
  /\ UNCHANGED <<task, run, conv, archived, seen, inputs, silenced, crashes>>

\* One EnqueueCollaborationCompletion of the loop; a full queue leaves the
\* original pending, an archived requester gets a cancelled receipt.
EnqueueCompletion(a) ==
  /\ op[a].pc = "outbox"
  /\ \E t \in op[a].todo :
       /\ IsFirst(t, op[a].todo)
       /\ op' = [op EXCEPT ![a].todo = @ \ {t}]
       /\ task' = IF t \notin PendingCompletions(a) THEN task
                  ELSE IF a \in archived THEN WithCompletion(t, "cancelled")
                  ELSE IF QueueFull(a) THEN task
                  ELSE WithCompletion(t, "queued")
  /\ UNCHANGED <<run, conv, archived, seen, inputs, silenced, crashes>>

\* Mutant: New chat does not cancel the notifications of the old one.
NoStaleNotifications(a) == {}

\* Notifications whose requesting conversation is no longer the current one.
StaleNotifications(a) ==
  {t \in Queued(a) :
     /\ task[t].notificationFor # 0
     /\ run[task[task[t].notificationFor].senderRun].conversation # conv[a]}

\* Mutant: the dispatcher serves an archived agent.
LoadForAnyone(a) ==
  /\ op[a].pc = "outbox" /\ op[a].todo = {}
  /\ IF Queued(a) = {} THEN Return(a) ELSE Step(a, "select")
  /\ UNCHANGED <<task, run, conv, archived, seen, inputs, silenced, crashes>>

\* PendingCollaborationTasks and filterCollaborationCompletions.
LoadPending(a) ==
  /\ op[a].pc = "outbox" /\ op[a].todo = {}
  /\ IF a \in archived
     THEN task' = CancelQueued(a) /\ Return(a)
     ELSE /\ task' = [t \in TaskId |-> IF t \in StaleNotifications(a)
                                       THEN [task[t] EXCEPT !.status = "cancelled"]
                                       ELSE task[t]]
          /\ IF Queued(a) \subseteq StaleNotifications(a) THEN Return(a) ELSE Step(a, "select")
  /\ UNCHANGED <<run, conv, archived, seen, inputs, silenced, crashes>>

\* Mutant: a refused steer is tried again.
SteerableAgain(a) == {t \in Queued(a) : task[t].mode = "steer"}

Steerable(a) == {t \in Queued(a) : task[t].mode = "steer" /\ ~task[t].steerFallback}

AcceptsSteer(r) == run[r].source # "schedule" /\ run[r].status = "running" /\ run[r].turn

\* The first steer not yet turned down goes to the active turn.
SelectSteer(a) ==
  /\ op[a].pc = "select"
  /\ ActiveRun(a) # 0 /\ AcceptsSteer(ActiveRun(a))
  /\ \E t \in Steerable(a) :
       /\ IsFirst(t, Steerable(a))
       /\ task' = [task EXCEPT ![t].status = "dispatching", ![t].run = ActiveRun(a)]
       /\ op' = [op EXCEPT ![a].pc = "steering", ![a].task = t, ![a].run = ActiveRun(a)]
  /\ UNCHANGED <<run, conv, archived, seen, inputs, silenced, crashes>>

\* An idle agent starts the oldest instruction.
SelectStart(a) ==
  /\ op[a].pc = "select"
  /\ ActiveRun(a) = 0
  /\ \E t \in Queued(a) :
       /\ IsFirst(t, Queued(a))
       /\ task' = [task EXCEPT ![t].status = "dispatching", ![t].run = 0]
       /\ op' = [op EXCEPT ![a].pc = "claimed", ![a].task = t]
  /\ UNCHANGED <<run, conv, archived, seen, inputs, silenced, crashes>>

SelectNone(a) ==
  /\ op[a].pc = "select"
  /\ ActiveRun(a) # 0
  /\ ~AcceptsSteer(ActiveRun(a)) \/ Steerable(a) = {}
  /\ Return(a)
  /\ UNCHANGED <<task, run, conv, archived, seen, inputs, silenced, crashes>>
-----------------------------------------------------------------------------
(* steerCollaboration.                                                     *)

\* The worker appends the input to the live turn, refuses it definitely (the
\* turn is over, or the app-server rejects it), or the reply tells nothing.
SteerTurn(a) ==
  /\ op[a].pc = "steering"
  /\ LET input == [task |-> op[a].task, run |-> op[a].run, how |-> "steer"] IN
       \/ /\ run[op[a].run].outbox = "live"
          /\ inputs' = inputs \cup {input}
          /\ Step(a, "steered") \/ (Faults /\ Step(a, "steerLost"))
       \/ /\ run[op[a].run].outbox # "live" \/ Faults
          /\ UNCHANGED inputs
          /\ Step(a, "steerRejected") \/ (Faults /\ Step(a, "steerLost"))
  /\ UNCHANGED <<task, run, conv, archived, seen, silenced, crashes>>

SteerAccepted(a) ==
  /\ op[a].pc = "steered"
  /\ task' = SetTaskState(op[a].task, "running", op[a].run)
  /\ Return(a)
  /\ UNCHANGED <<run, conv, archived, seen, inputs, silenced, crashes>>

SteerRejected(a) ==
  /\ op[a].pc = "steerRejected"
  /\ task' = SetTaskState(op[a].task, "queued", 0)
  /\ Return(a)
  /\ UNCHANGED <<run, conv, archived, seen, inputs, silenced, crashes>>

SteerLost(a) ==
  /\ op[a].pc = "steerLost"
  /\ task' = SetTaskState(op[a].task, "unknown", op[a].run)
  /\ Return(a)
  /\ UNCHANGED <<run, conv, archived, seen, inputs, silenced, crashes>>
-----------------------------------------------------------------------------
(* Starting a turn: startCollaboration, message to an idle agent,          *)
(* runDueSchedule.  op[a].task is 0 for the last two.                      *)

\* ensureAgent or the conversation lookup fails before there is a run.
StartCollaborationFails(a) ==
  /\ Faults
  /\ op[a].pc = "claimed"
  /\ task' = SetTaskState(op[a].task, "failed", 0)
  /\ Return(a)
  /\ UNCHANGED <<run, conv, archived, seen, inputs, silenced, crashes>>

CreateRun(a) ==
  /\ op[a].pc = "claimed"
  /\ run' = Append(run, NewRun(a, conv[a], "collaboration", op[a].task))
  /\ op' = [op EXCEPT ![a].pc = "created", ![a].run = Len(run) + 1]
  /\ UNCHANGED <<task, conv, archived, seen, inputs, silenced, crashes>>

\* setCollaborationState(task, "dispatching", run.ID)
BindRun(a) ==
  /\ op[a].pc = "created"
  /\ task' = SetTaskState(op[a].task, "dispatching", op[a].run)
  /\ Step(a, "bound")
  /\ UNCHANGED <<run, conv, archived, seen, inputs, silenced, crashes>>

UserRuns == {r \in RunId : run[r].task = 0}

BeginUserRun(a, source, c) ==
  /\ op[a] = Idle
  /\ a \notin archived
  /\ ActiveRun(a) = 0
  /\ Cardinality(UserRuns) < MaxUserRun
  /\ run' = Append(run, NewRun(a, c, source, 0))
  /\ op' = [op EXCEPT ![a].pc = "bound", ![a].run = Len(run) + 1]
  /\ UNCHANGED <<task, conv, archived, seen, inputs, silenced, crashes>>

Message(a) == BeginUserRun(a, "manual", conv[a])

\* A fresh conversation, which is nobody's current one.
RunDueSchedule(a) == "schedule" \in UserOp /\ BeginUserRun(a, "schedule", 0)

\* ensureAgent fails after the scheduled run was claimed.
RunDueScheduleFails(a) ==
  /\ Faults
  /\ op[a].pc = "bound"
  /\ run[op[a].run].source = "schedule"
  /\ run' = FinishRun(op[a].run, "failed")
  /\ Return(a)
  /\ UNCHANGED <<task, conv, archived, seen, inputs, silenced, crashes>>

WorkerBusy(a) == \E r \in RunId : run[r].agent = a /\ run[r].outbox \in {"starting", "live"}

\* The request is refused (409), reaches the worker, or is lost on its way.
CallStartTurn(a) ==
  /\ op[a].pc = "bound"
  /\ \/ WorkerBusy(a) /\ Step(a, "rejected") /\ UNCHANGED run
     \/ ~WorkerBusy(a) /\ ~op[a].gone /\ Step(a, "calling")
        /\ run' = [run EXCEPT ![op[a].run].outbox = "starting"]
     \/ (Faults \/ op[a].gone) /\ Step(a, "lost") /\ UNCHANGED run
  /\ UNCHANGED <<task, conv, archived, seen, inputs, silenced, crashes>>

TurnStarted(r) == \E i \in inputs : i.run = r /\ i.how = "start"

\* The reply names the turn, unless it is an error or does not come.
StartTurnReplies(a) ==
  /\ op[a].pc = "calling"
  /\ \/ TurnStarted(op[a].run) /\ ~op[a].gone /\ Step(a, "accepted")
     \/ (Faults \/ op[a].gone \/ run[op[a].run].outbox \in RunTerminal) /\ Step(a, "lost")
  /\ UNCHANGED <<task, run, conv, archived, seen, inputs, silenced, crashes>>

\* SetRunStarted, an UPDATE without a condition on the status.  It uses the
\* request's context, and message starts the relay whatever it returned.
SetRunStarted(a) ==
  /\ op[a].pc = "accepted"
  /\ LET r == op[a].run
         started == IF op[a].gone THEN run[r]
                    ELSE [run[r] EXCEPT !.status = "running", !.turn = TRUE] IN
       IF op[a].task # 0
       THEN run' = [run EXCEPT ![r] = started] /\ Step(a, "started")
       ELSE /\ run' = [run EXCEPT ![r] = [started EXCEPT !.relay = StartRelay(@)]]
            /\ Return(a)
  /\ UNCHANGED <<task, conv, archived, seen, inputs, silenced, crashes>>

CollaborationStarted(a) ==
  /\ op[a].pc = "started"
  /\ task' = SetTaskState(op[a].task, "running", op[a].run)
  /\ run' = [run EXCEPT ![op[a].run].relay = StartRelay(@)]
  /\ Return(a)
  /\ UNCHANGED <<conv, archived, seen, inputs, silenced, crashes>>

StartRejected(a) ==
  /\ op[a].pc = "rejected"
  /\ run' = IF op[a].gone THEN run ELSE FinishRun(op[a].run, "failed")
  /\ IF op[a].task # 0 THEN Step(a, "failing") ELSE Return(a)
  /\ UNCHANGED <<task, conv, archived, seen, inputs, silenced, crashes>>

CollaborationFailed(a) ==
  /\ op[a].pc = "failing"
  /\ task' = SetTaskState(op[a].task, "failed", op[a].run)
  /\ Return(a)
  /\ UNCHANGED <<run, conv, archived, seen, inputs, silenced, crashes>>

\* A task keeps its run reserved and reads its outbox; message and
\* runDueSchedule declare the run failed.
StartLost(a) ==
  /\ op[a].pc = "lost"
  /\ IF op[a].task # 0
     THEN /\ run' = [run EXCEPT ![op[a].run].relay = StartRelay(@)]
          /\ task' = SetTaskState(op[a].task, "unknown", op[a].run)
     ELSE /\ run' = IF op[a].gone THEN run ELSE FinishRun(op[a].run, "failed")
          /\ UNCHANGED task
  /\ Return(a)
  /\ UNCHANGED <<conv, archived, seen, inputs, silenced, crashes>>
-----------------------------------------------------------------------------
(* message to an active run: SteerTurn, and a relay once it is accepted.   *)

MessageSteer(a) ==
  /\ "steer" \in UserOp
  /\ op[a] = Idle
  /\ a \notin archived
  /\ ActiveRun(a) # 0 /\ run[ActiveRun(a)].source # "schedule"
  /\ op' = [op EXCEPT ![a].pc = "messageSteer", ![a].run = ActiveRun(a)]
  /\ UNCHANGED <<task, run, conv, archived, seen, inputs, silenced, crashes>>

MessageSteerReplies(a) ==
  /\ op[a].pc = "messageSteer"
  /\ \/ UNCHANGED run
     \/ run' = [run EXCEPT ![op[a].run].relay = StartRelay(@)]
  /\ Return(a)
  /\ UNCHANGED <<task, conv, archived, seen, inputs, silenced, crashes>>
-----------------------------------------------------------------------------
(* interrupt (Stop run).                                                   *)

Interrupt(a) ==
  /\ "interrupt" \in UserOp
  /\ op[a] = Idle
  /\ ActiveRun(a) # 0
  /\ op' = [op EXCEPT ![a].pc = "interrupting", ![a].run = ActiveRun(a)]
  /\ UNCHANGED <<task, run, conv, archived, seen, inputs, silenced, crashes>>

InterruptedRun(r) == [run EXCEPT ![r].outbox = "interrupted"]

\* The worker stops a live turn; any error answers 502 and changes nothing more.
CallInterrupt(a) ==
  /\ op[a].pc = "interrupting"
  /\ LET r == op[a].run IN
       \/ ~run[r].turn /\ Step(a, "interrupted") /\ UNCHANGED run
       \/ /\ run[r].turn /\ run[r].outbox = "live"
          /\ run' = InterruptedRun(r)
          /\ (~op[a].gone /\ Step(a, "interrupted")) \/ Return(a)
       \/ run[r].turn /\ Return(a) /\ UNCHANGED run
  /\ UNCHANGED <<task, conv, archived, seen, inputs, silenced, crashes>>

\* FinishRun uses the request's context and its error is ignored, then cancelRelay.
FinishStoppedRun(a) ==
  \E relay \in CancelRelay(run[op[a].run].relay) :
    run' = [run EXCEPT ![op[a].run].relay = relay,
                       ![op[a].run].status = IF op[a].gone THEN @ ELSE "interrupted"]

FinishInterrupted(a) ==
  /\ op[a].pc = "interrupted"
  /\ FinishStoppedRun(a)
  /\ Step(a, "silence")
  /\ UNCHANGED <<task, conv, archived, seen, inputs, silenced, crashes>>

Silence(a) ==
  /\ op[a].pc = "silence"
  /\ IF op[a].gone THEN UNCHANGED <<task, silenced>>
     ELSE SuppressCollaborationCompletions(a) /\ silenced' = silenced \cup {op[a].run}
  /\ Return(a)
  /\ UNCHANGED <<run, conv, archived, seen, inputs, crashes>>
-----------------------------------------------------------------------------
(* stopAgent and archiveAgent: stopAgentRuntime, then the archive.         *)

StopAgent(a, archive) ==
  /\ (IF archive THEN "archive" ELSE "stop") \in UserOp
  /\ op[a] = Idle
  /\ a \notin archived
  /\ op' = [op EXCEPT ![a].pc = "suppress", ![a].archive = archive]
  /\ UNCHANGED <<task, run, conv, archived, seen, inputs, silenced, crashes>>

\* A store error (here: the caller left) makes the handler return.
StopSuppress(a) ==
  /\ op[a].pc \in {"suppress", "suppressAgain"}
  /\ IF op[a].gone THEN UNCHANGED task /\ Return(a)
     ELSE /\ SuppressCollaborationCompletions(a)
          /\ Step(a, IF op[a].pc = "suppress" THEN "cancelQueued" ELSE "cancelAgain")
  /\ UNCHANGED <<run, conv, archived, seen, inputs, silenced, crashes>>

StopCancelQueued(a) ==
  /\ op[a].pc \in {"cancelQueued", "cancelAgain"}
  /\ IF op[a].gone THEN UNCHANGED task /\ Return(a)
     ELSE /\ task' = CancelQueued(a)
          /\ IF op[a].pc = "cancelQueued" THEN Step(a, "stopInterrupt")
             ELSE IF op[a].archive THEN Step(a, "archive") ELSE Return(a)
  /\ UNCHANGED <<run, conv, archived, seen, inputs, silenced, crashes>>

\* The active run is read here; the interrupt's error is ignored.
StopInterrupt(a) ==
  /\ op[a].pc = "stopInterrupt"
  /\ LET r == ActiveRun(a) IN
       /\ \/ UNCHANGED run
          \/ r # 0 /\ run[r].turn /\ run[r].outbox = "live" /\ run' = InterruptedRun(r)
       /\ op' = [op EXCEPT ![a].pc = "stopRuntime", ![a].run = r]
  /\ UNCHANGED <<task, conv, archived, seen, inputs, silenced, crashes>>

\* What the workers of a leave behind when their container ends (recoverOutbox).
Recovered(a) ==
  [r \in RunId |-> IF run[r].agent = a /\ run[r].outbox \in {"starting", "live"}
                   THEN [run[r] EXCEPT !.outbox = "unknown"] ELSE run[r]]

StopRuntime(a) ==
  /\ op[a].pc = "stopRuntime"
  /\ \/ Return(a) /\ (UNCHANGED run \/ run' = Recovered(a))
     \/ ~op[a].gone /\ Step(a, "stopFinish") /\ run' = Recovered(a)
  /\ UNCHANGED <<task, conv, archived, seen, inputs, silenced, crashes>>

StopFinish(a) ==
  /\ op[a].pc = "stopFinish"
  /\ IF op[a].run = 0 THEN UNCHANGED run ELSE FinishStoppedRun(a)
  /\ Step(a, "suppressAgain")
  /\ UNCHANGED <<task, conv, archived, seen, inputs, silenced, crashes>>

ArchiveAgent(a) ==
  /\ op[a].pc = "archive"
  /\ archived' = IF op[a].gone THEN archived ELSE archived \cup {a}
  /\ Return(a)
  /\ UNCHANGED <<task, run, conv, seen, inputs, silenced, crashes>>

\* New chat: refused while a run is active.
ResetAgentConversation(a) ==
  /\ "reset" \in UserOp
  /\ op[a] = Idle
  /\ a \notin archived
  /\ ActiveRun(a) = 0
  /\ conv[a] <= MaxReset
  /\ conv' = [conv EXCEPT ![a] = @ + 1]
  /\ UNCHANGED <<task, run, archived, op, seen, inputs, silenced, crashes>>
-----------------------------------------------------------------------------
(* Outside the agent lock: worker, relay, reconciliation, restart.         *)

\* turn/start is accepted; the prompt of the run's task is now in the thread.
WorkerStarts(r) ==
  /\ run[r].outbox = "starting"
  /\ run' = [run EXCEPT ![r].outbox = "live"]
  /\ inputs' = inputs \cup {[task |-> run[r].task, run |-> r, how |-> "start"]}
  /\ UNCHANGED <<task, conv, archived, op, seen, silenced, crashes>>

\* thread/start, thread/resume or turn/start fails.
WorkerStartFails(r) ==
  /\ run[r].outbox = "starting"
  /\ \E status \in Outcome \ {"completed"} : run' = [run EXCEPT ![r].outbox = status]
  /\ UNCHANGED <<task, conv, archived, op, seen, inputs, silenced, crashes>>

\* turn/completed, or the worker exits and recovers its outbox as unknown.
WorkerFinishes(r) ==
  /\ run[r].outbox = "live"
  /\ \E status \in Outcome : run' = [run EXCEPT ![r].outbox = status]
  /\ UNCHANGED <<task, conv, archived, op, seen, inputs, silenced, crashes>>

RelayReads(r) ==
  /\ run[r].relay = "polling"
  /\ run[r].outbox \notin {"starting", "live"}
  /\ run' = [run EXCEPT ![r].relay = "finishing"]
  /\ UNCHANGED <<task, conv, archived, op, seen, inputs, silenced, crashes>>

\* A run the worker has never heard of is reported unknown.
RelayFinishes(r) ==
  /\ run[r].relay = "finishing"
  /\ LET status == IF run[r].outbox = "none" THEN "unknown" ELSE run[r].outbox IN
       run' = [FinishRun(r, status) EXCEPT ![r].relay = "off"]
  /\ UNCHANGED <<task, conv, archived, op, seen, inputs, silenced, crashes>>

ReconcileCollaborationTasks ==
  /\ Reconciled # task
  /\ task' = Reconciled
  /\ UNCHANGED <<run, conv, archived, op, seen, inputs, silenced, crashes>>

\* Mutant: an interrupted delivery is tried again.
RetriedStatus(status) == IF status = "dispatching" THEN "queued" ELSE status

\* What RecoverCollaborationTasks makes of a delivery that was in flight.
RecoveredStatus(status) == IF status = "dispatching" THEN "unknown" ELSE status

\* Mutant: queued runs are not picked up again.
ResumedIfRunning(r) == IF run[r].status = "running" THEN "polling" ELSE "off"

ResumedRelay(r) == IF run[r].status \in Live THEN "polling" ELSE "off"

\* The server process ends at any point and starts again: StartBackground
\* recovers the tasks and relays every run that is still active.
Restart ==
  /\ crashes < MaxCrash
  /\ crashes' = crashes + 1
  /\ op' = [a \in Agent |-> Idle]
  /\ seen' = [a \in Agent |-> -1]
  /\ task' = [t \in TaskId |->
                [Reconciled[t] EXCEPT !.status = RecoveredStatus(@)]]
  /\ run' = [r \in RunId |->
               [run[r] EXCEPT !.relay = ResumedRelay(r)]]
  /\ UNCHANGED <<conv, archived, inputs, silenced>>

\* Whether the handler of a serves a browser: those of the dispatcher and the
\* scheduler run on a context of their own.
ServesClient(a) ==
  \/ op[a].pc \in {"messageSteer", "interrupting", "interrupted", "silence",
                   "suppress", "cancelQueued", "stopInterrupt", "stopRuntime",
                   "stopFinish", "suppressAgain", "cancelAgain", "archive"}
  \/ /\ op[a].pc \in {"bound", "calling", "accepted", "rejected", "lost"}
     /\ run[op[a].run].source = "manual"

\* The client goes away and the context of its request is cancelled.
ClientGone(a) ==
  /\ Disconnects
  /\ ServesClient(a) /\ ~op[a].gone
  /\ op' = [op EXCEPT ![a].gone = TRUE]
  /\ UNCHANGED <<task, run, conv, archived, seen, inputs, silenced, crashes>>

\* Nothing is left to do: no handler, no active run, every task settled.
Settled ==
  /\ \A a \in Agent : op[a] = Idle /\ ActiveRuns(a) = {} /\ PendingCompletions(a) = {}
  /\ \A t \in TaskId : task[t].status \in Terminal
  /\ UNCHANGED vars
-----------------------------------------------------------------------------
\* The next step of the handler that holds the lock of a.
Handler(a) ==
  \/ EnqueueCompletion(a) \/ LoadPending(a)
  \/ SelectSteer(a) \/ SelectStart(a) \/ SelectNone(a)
  \/ SteerTurn(a) \/ SteerAccepted(a) \/ SteerRejected(a) \/ SteerLost(a)
  \/ StartCollaborationFails(a) \/ CreateRun(a) \/ BindRun(a)
  \/ RunDueScheduleFails(a) \/ CallStartTurn(a) \/ StartTurnReplies(a)
  \/ SetRunStarted(a) \/ CollaborationStarted(a)
  \/ StartRejected(a) \/ CollaborationFailed(a) \/ StartLost(a)
  \/ MessageSteerReplies(a)
  \/ CallInterrupt(a) \/ FinishInterrupted(a) \/ Silence(a)
  \/ StopSuppress(a) \/ StopCancelQueued(a) \/ StopInterrupt(a)
  \/ StopRuntime(a) \/ StopFinish(a) \/ ArchiveAgent(a)

\* A request or timer that takes the free lock of a.
Request(a) ==
  \/ Message(a) \/ RunDueSchedule(a) \/ MessageSteer(a)
  \/ Interrupt(a) \/ (\E archive \in BOOLEAN : StopAgent(a, archive))
  \/ ResetAgentConversation(a)

Submission(a) == CollaborationSend(a) \/ EnqueueCollaborationTask(a) \/ SendReturns(a)

Worker(r) == WorkerStarts(r) \/ WorkerStartFails(r) \/ WorkerFinishes(r)

Relay(r) == RelayReads(r) \/ RelayFinishes(r)

Next ==
  \/ \E a \in Agent : \/ Submission(a) \/ Request(a) \/ ClientGone(a)
                      \/ DispatchCollaboration(a) \/ Handler(a)
  \/ \E t \in TaskId : CollaborationCancel(t)
  \/ \E r \in RunId : Worker(r) \/ Relay(r)
  \/ ReconcileCollaborationTasks
  \/ Restart
  \/ Settled

Spec == Init /\ [][Next]_vars

\* Handlers, the worker, relays and the 500 ms tick keep going; a turn ends.
\* sync.Mutex hands a waiter that starves the lock, hence strong fairness.
Fairness ==
  /\ \A a \in Agent : WF_vars(Handler(a)) /\ SF_vars(DispatchCollaboration(a))
  /\ WF_vars(\E r \in RunId : Worker(r)) /\ WF_vars(\E r \in RunId : Relay(r))
  /\ WF_vars(ReconcileCollaborationTasks)

FairSpec == Spec /\ Fairness
-----------------------------------------------------------------------------
(* Properties.                                                             *)

\* No task's prompt enters an app-server twice, whatever replies were lost,
\* steers refused or servers restarted between claim and confirmation.
AtMostOnceDelivery ==
  \A i, j \in inputs : i.task = j.task /\ i.task # 0 => i = j

\* A task reported completed did reach a turn: completion of a run that merely
\* hosted an unconfirmed steer proves nothing.
CompletedMeansDelivered ==
  \A t \in TaskId : task[t].status = "completed" =>
     \E i \in inputs : i.task = t /\ i.run = task[t].run

\* Queued instructions to one target leave the queue in acceptance order.
AcceptanceOrder ==
  \A t, u \in TaskId :
    /\ t < u /\ task[t].target = task[u].target
    /\ task[t].mode = "queue" /\ task[u].mode = "queue"
    /\ task[u].status \notin {"queued", "cancelled"}
    => task[t].status # "queued"

\* A completion notification enters only the conversation that asked for it:
\* never a scheduled run's, never the one New chat has put in its place.
NotificationEntersItsConversation ==
  \A i \in inputs :
    i.task # 0 /\ task[i.task].notificationFor # 0 =>
      run[i.run].conversation = run[task[task[i.task].notificationFor].senderRun].conversation

\* A steer that a turn has refused is not redirected into a later turn.
RefusedSteerStartsItsOwnTurn ==
  \A i \in inputs : i.task # 0 /\ task[i.task].steerFallback => i.how = "start"

\* Once Stop run has been acknowledged nothing calls the run's agent back, not
\* even a delegation that was being accepted meanwhile or finishes later.
StopRunSilences ==
  \A t \in TaskId :
    /\ task[t].senderRun \in silenced
    /\ task[t].notificationFor = 0 /\ task[t].completionMode = "notify"
    => /\ task[t].completionTask # 0
       /\ task[task[t].completionTask].status \notin {"queued", "dispatching"}

\* Links between a task and its notification go both ways, and there is at
\* most one; notifications never ask for notifications.
OneNotificationPerTask ==
  \A n \in TaskId : task[n].notificationFor # 0 =>
    /\ task[n].notificationFor < n
    /\ task[task[n].notificationFor].completionTask = n
    /\ task[n].completionTask = 0

\* An archived agent runs nothing, not even a task that was accepted between the
\* last cancellation of its queue and the archive, nor a run stop could not end.
ArchivedAgentRunsNothing ==
  \A a \in archived : /\ ActiveRuns(a) = {}
                      /\ \A t \in TaskId : task[t].target = a => task[t].status # "dispatching"

\* A run in progress is watched: by its relay or by the handler starting it.
ActiveRunIsWatched ==
  \A r \in RunId : run[r].status \in Live =>
    \/ run[r].relay # "off"
    \/ op[run[r].agent].run = r

FinishedRunStaysFinished ==
  \A r \in RunId : run[r].status \in RunTerminal => run'[r].status \in RunTerminal

\* An unknown outcome may still learn how the run that the task had started has ended.
TaskOutcomeStays ==
  \A t \in TaskId :
    task[t].status \in Terminal /\ task'[t].status # task[t].status =>
      /\ task[t].status = "unknown" /\ task[t].run # 0
      /\ run[task[t].run].task = t
      /\ task'[t].status = run[task[t].run].status

\* What was reported as the end of a run or a task stays true: a finished run never becomes
\* active again, although SetRunStarted and FinishRun write the status unconditionally and
\* several actors call them, and the outcome of a task is final.
OutcomesAreFinal == [][FinishedRunStaysFinished /\ TaskOutcomeStays]_vars

\* deliveryConfirmed as documented: the input was delivered, whatever became of it.
ConfirmedMeansDelivered ==
  \A t \in TaskId : task[t].deliveryConfirmed =>
     \E i \in inputs : i.task = t

\* Stop run first ends the active run and then its relay, as documented: a run
\* with a turn is never left active with nobody watching it.
StopTerminalizesRun ==
  \A r \in RunId : run[r].status \in Live /\ run[r].turn =>
    run[r].relay # "off" \/ op[run[r].agent].run = r

\* Every accepted task reaches an outcome.
AcceptedTaskSettles ==
  \A t \in 1..2 * MaxSend : t \in TaskId ~> (t \in TaskId /\ task[t].status \in Terminal)

\* Every finished task that asked for a notification gets its receipt, even
\* when the requester's queue is full for a while.
CompletionIsNotified ==
  \A t \in 1..2 * MaxSend :
    (t \in TaskId /\ task[t].completionMode = "notify")
      ~> (t \in TaskId /\ task[t].completionTask # 0)
=============================================================================
