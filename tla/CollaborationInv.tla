-------------------------- MODULE CollaborationInv --------------------------
(***************************************************************************)
(* The invariants behind the proofs about Collaboration.                   *)
(*                                                                         *)
(* TypeOK is not inductive: a relay that finishes a run copies the         *)
(* worker's status file into the runs table, so its type rests on          *)
(* RelayInv, which says that such a relay has read an outcome.             *)
(* AtMostOnceDelivery is not inductive either: DeliveryInv follows a task  *)
(* from its claim to its outcome and says who can still deliver it.        *)
(*                                                                         *)
(* SafeInv carries the other safety properties: what is known of runs,     *)
(* tasks, the conversation of a notification and outcomes.  WatchInv adds  *)
(* who watches an active run, where clients wait for their answers.        *)
(***************************************************************************)
EXTENDS Collaboration

\* pc of a handler that starts a turn, once it has its run.
StartPC == {"created", "bound", "calling", "accepted", "started",
            "rejected", "failing", "lost"}

\* pc after the request may have reached the worker.
SentPC == {"calling", "accepted", "started", "lost"}

\* A handler that delivers a task holds it in status dispatching.
HandlerHoldsTask ==
  \A a \in Agent : op[a].task # 0 =>
    /\ op[a].pc \in StartPC \cup {"claimed", "steering", "steered", "steerRejected", "steerLost"}
    /\ task[op[a].task].status = "dispatching"
    /\ task[op[a].task].target = a

\* The run it starts is the task's own; a message or schedule starts one of no task.
HandlerHoldsRun ==
  \A a \in Agent : op[a].pc \in StartPC =>
    op[a].run \in RunId /\ run[op[a].run].task = op[a].task

\* A delivery in flight is in the hands of its target's handler, at one of PCs.
InFlight(t, PCs) ==
  task[t].status = "dispatching" =>
    op[task[t].target].task = t /\ op[task[t].target].pc \in PCs

\* A task gets one run of its own, and is out of the queue before it has it.
OneOwnRun ==
  \A r \in RunId : run[r].task # 0 =>
    /\ run[r].source = "collaboration"
    /\ task[run[r].task].status # "queued"
    /\ InFlight(run[r].task, StartPC)
    /\ run[r].outbox # "none" => InFlight(run[r].task, SentPC)
    /\ \A s \in RunId : run[s].task = run[r].task => s = r

\* What has been delivered is out of the queue and at no step that delivers it
\* again, be it the handler's next call or the worker's pending start.
DeliveredIsNotPending ==
  \A i \in inputs : i.task # 0 =>
    /\ i.task \in TaskId
    /\ task[i.task].status # "queued"
    /\ InFlight(i.task, SentPC \cup {"steered", "steerLost"})
    /\ \A r \in RunId : run[r].task = i.task => run[r].outbox # "starting"

DeliveryInv ==
  /\ HandlerHoldsTask
  /\ HandlerHoldsRun
  /\ OneOwnRun
  /\ DeliveredIsNotPending
  /\ AtMostOnceDelivery

-----------------------------------------------------------------------------
(* Why a relay writes only outcomes.                                       *)

\* A relay that is about to finish its run has read an outcome in the outbox.
RelayHoldsOutcome ==
  \A r \in RunId : run[r].relay = "finishing" => run[r].outbox \notin {"starting", "live"}

\* A handler holds a run of its own agent.
HandlerHoldsOwnRun ==
  \A a \in Agent : op[a].run # 0 => run[op[a].run].agent = a

\* Nobody watches a run while its start has yet to be requested.
UnrequestedIsUnwatched ==
  \A a \in Agent : op[a].pc \in {"created", "bound"} =>
    op[a].run \in RunId /\ run[op[a].run].relay = "off"

RelayInv == RelayHoldsOutcome /\ HandlerHoldsOwnRun /\ UnrequestedIsUnwatched

\* What every step preserves.
Inv == TypeOK /\ RelayInv /\ DeliveryInv
-----------------------------------------------------------------------------
(* Runs: why a finished run stays finished and what an agent without its   *)
(* lock can be said to run.                                                *)

\* While its turn is being started a run is active and has no relay.
StartHoldsRun ==
  \A a \in Agent : op[a].pc \in StartPC =>
    /\ run[op[a].run].relay = "off"
    /\ op[a].pc # "failing" => run[op[a].run].status \in Live

\* An agent has one active run at most, and none when a task is claimed for a new one.
OneActiveRun ==
  \A a \in Agent :
    /\ \A r, s \in ActiveRuns(a) : r = s
    /\ op[a].pc = "claimed" => ActiveRuns(a) = {}

\* stop holds the only active run, which is over before the agent is archived.
StopHoldsRun ==
  \A a \in Agent :
    /\ op[a].pc \in {"stopRuntime", "stopFinish"} => ActiveRuns(a) \subseteq {op[a].run}
    /\ op[a].pc \in {"suppressAgain", "cancelAgain", "archive"} /\ ~op[a].gone => ActiveRuns(a) = {}

\* The only handler of an archived agent is a dispatcher that settles its outbox.
ArchivedIsIdle ==
  \A a \in archived : op[a].pc \in {"idle", "outbox"} /\ ActiveRuns(a) = {}

\* Stop run acknowledges a run that is over.
SilencedIsOver ==
  /\ \A a \in Agent :
       /\ op[a].pc \in {"interrupting", "interrupted", "silence"} => op[a].run \in RunId
       /\ op[a].pc = "silence" /\ ~op[a].gone => run[op[a].run].status \in RunTerminal
  /\ \A r \in silenced : r \in RunId /\ run[r].status \in RunTerminal

\* An active run outside schedules is in the current conversation of its agent.
ActiveChatIsCurrent ==
  \A r \in RunId : run[r].status \in Live /\ run[r].source # "schedule" =>
    run[r].conversation = conv[run[r].agent]

RunInv ==
  /\ StartHoldsRun /\ OneActiveRun /\ StopHoldsRun
  /\ ArchivedIsIdle /\ SilencedIsOver /\ ActiveChatIsCurrent

-----------------------------------------------------------------------------
(* Tasks: who holds a delivery, and whom a completion may call back.       *)

SteerPC == {"steering", "steered", "steerRejected", "steerLost"}

\* A delivery in progress is in the hands of its target's handler.
DispatchingIsHeld ==
  \A t \in TaskId : task[t].status = "dispatching" => op[task[t].target].task = t

\* A handler has claimed the task it starts or steers; a steer is tried once.
SteersOnce ==
  \A a \in Agent :
    /\ op[a].pc \in SteerPC \cup {"claimed"} => op[a].task # 0
    /\ op[a].pc \in SteerPC => /\ task[op[a].task].mode = "steer" /\ ~task[op[a].task].steerFallback
                               /\ op[a].run \in RunId

\* What may call back was requested by a run of its sender.
CallerIsKnown ==
  \A t \in TaskId : task[t].completionMode = "notify" =>
    task[t].senderRun \in RunId /\ run[task[t].senderRun].agent = task[t].sender

\* A receipt calls back the sender of a task that asked for it, and nobody else.
ReceiptIsLinked ==
  \A t \in TaskId :
    /\ task[t].notificationFor # 0 =>
         /\ task[t].completionMode = "poll"
         /\ task[task[t].notificationFor].completionMode = "notify"
         /\ task[t].target = task[task[t].notificationFor].sender
    /\ task[t].completionTask # 0 => task[task[t].completionTask].notificationFor = t

TaskInv ==
  /\ DispatchingIsHeld /\ SteersOnce /\ AcceptanceOrder /\ RefusedSteerStartsItsOwnTurn
  /\ CallerIsKnown /\ ReceiptIsLinked /\ OneNotificationPerTask /\ StopRunSilences

-----------------------------------------------------------------------------
(* Notifications: why they enter the conversation that asked for them.     *)

IsNotification(t) == t # 0 /\ task[t].notificationFor # 0

\* The conversation of the run that requested the task of notification t.
Requested(t) == run[task[task[t].notificationFor].senderRun].conversation

\* No stale notification is left in the queue that a dispatcher selects from, and
\* what it has claimed or steers goes to the conversation that asked for it.
DispatcherIsFresh ==
  \A a \in Agent :
    /\ op[a].pc = "select" =>
         \A t \in Queued(a) : IsNotification(t) => Requested(t) = conv[a]
    /\ op[a].pc = "claimed" /\ IsNotification(op[a].task) => Requested(op[a].task) = conv[a]
    /\ op[a].pc = "steering" /\ IsNotification(op[a].task) =>
         Requested(op[a].task) = run[op[a].run].conversation

\* A run of a notification's own is in the conversation that asked for it.
OwnRunIsFresh ==
  \A r \in RunId : IsNotification(run[r].task) => run[r].conversation = Requested(run[r].task)

FreshInv == DispatcherIsFresh /\ OwnRunIsFresh /\ NotificationEntersItsConversation

-----------------------------------------------------------------------------
(* Outcomes: what a reported completion rests on.                          *)

\* An input enters the turn of a run; the one that starts the turn is of the run's task.
InputNamesItsRun ==
  \A i \in inputs : i.run \in RunId /\ (i.how = "start" => i.task = run[i.run].task)

\* A turn that goes on or is completed was started.
TurnWasStarted ==
  \A r \in RunId : run[r].outbox \in {"live", "completed"} \/ run[r].status = "completed" =>
    TurnStarted(r)

\* A handler that reports a delivery has seen it.
HandlerHasDelivered ==
  \A a \in Agent :
    /\ op[a].pc \in {"accepted", "started"} => TurnStarted(op[a].run)
    /\ op[a].pc = "steered" => \E i \in inputs : i.task = op[a].task /\ i.run = op[a].run

\* The input of a task that runs or has completed entered the run it names.
RunningIsDelivered ==
  \A t \in TaskId : task[t].status \in {"running", "completed"} =>
    \E i \in inputs : i.task = t /\ i.run = task[t].run

OutcomeInv == InputNamesItsRun /\ TurnWasStarted /\ HandlerHasDelivered /\ RunningIsDelivered

-----------------------------------------------------------------------------
\* What every step preserves beyond Inv.
SafeInv == RunInv /\ TaskInv /\ FreshInv /\ OutcomeInv

\* Clients that wait for the answers of their requests keep every active run watched:
\* by its relay, or by the handler that is starting its turn.
WatchInv ==
  /\ \A a \in Agent : ~op[a].gone
  /\ \A a \in Agent : op[a].pc = "failing" => run[op[a].run].status \in RunTerminal
  /\ \A r \in RunId : run[r].status \in Live =>
       \/ run[r].relay # "off"
       \/ op[run[r].agent].run = r /\ op[run[r].agent].pc \in StartPC
=============================================================================
