------------------------ MODULE CollaborationProofs -------------------------
(***************************************************************************)
(* Every step of Collaboration keeps the inductive invariant, hence the    *)
(* type invariant and at-most-once delivery hold for all values of the     *)
(* constants.                                                              *)
(*                                                                         *)
(* Most steps are quiet: they change rows and handlers only in ways that   *)
(* keep RelayInv and DeliveryInv (the frame lemmas).  The others are those *)
(* that claim, deliver or settle a task: they are proved one by one.       *)
(***************************************************************************)
EXTENDS CollaborationTypes

(* Frames: what a step may change without disturbing the invariants.       *)

\* pc of a handler that holds a task.
DeliveryPC == StartPC \cup {"claimed", "steering", "steered", "steerRejected", "steerLost"}

\* What a step that delivers nothing may do to a task.
TaskKept(t) ==
  /\ task'[t].target = task[t].target
  /\ task'[t].status = "queued" => task[t].status = "queued"
  /\ task'[t].status = "dispatching" <=> task[t].status = "dispatching"

\* What it may do to a run: an outbox that exists may end its turn.
RunKept(r) ==
  /\ run'[r].agent = run[r].agent
  /\ run'[r].task = run[r].task
  /\ run'[r].source = run[r].source
  /\ \/ run'[r].outbox = run[r].outbox
     \/ run[r].outbox # "none" /\ run'[r].outbox \notin {"none", "starting", "live"}

\* What it may do to a handler: a delivery goes on where it was or nearer its end.
HandlerKept(b) ==
  /\ op'[b].task = op[b].task
  /\ \/ op'[b].pc = op[b].pc /\ op'[b].run = op[b].run
     \/ op[b].task = 0 /\ op'[b].pc \notin StartPC
     \/ /\ op[b].pc \in StartPC /\ op'[b].pc \in StartPC
        /\ op'[b].run = op[b].run
        /\ op[b].pc \in SentPC => op'[b].pc \in SentPC

\* InFlight in the next state, for a task that stays.
NextInFlight(t, PCs) ==
  task'[t].status = "dispatching" =>
    op'[task'[t].target].task = t /\ op'[task'[t].target].pc \in PCs

\* OneOwnRun and DeliveredIsNotPending of the next state, spelled out.
LEMMA NextFlight ==
  /\ OneOwnRun' <=>
       \A r \in RunId' : run'[r].task # 0 =>
         /\ run'[r].source = "collaboration"
         /\ task'[run'[r].task].status # "queued"
         /\ NextInFlight(run'[r].task, StartPC)
         /\ run'[r].outbox # "none" => NextInFlight(run'[r].task, SentPC)
         /\ \A s \in RunId' : run'[s].task = run'[r].task => s = r
  /\ DeliveredIsNotPending' <=>
       \A i \in inputs' : i.task # 0 =>
         /\ i.task \in TaskId'
         /\ task'[i.task].status # "queued"
         /\ NextInFlight(i.task, SentPC \cup {"steered", "steerLost"})
         /\ \A r \in RunId' : run'[r].task = i.task => run'[r].outbox # "starting"
BY DEF OneOwnRun, DeliveredIsNotPending, InFlight, NextInFlight, StartPC, SentPC

\* A step whose rows and handlers change only as TaskKept, RunKept and
\* HandlerKept allow keeps DeliveryInv.
LEMMA DeliveryFrame ==
  ASSUME TypeOK, TypeOK', DeliveryInv,
         TaskId \subseteq TaskId', \A t \in TaskId : TaskKept(t),
         RunId' = RunId, \A r \in RunId : RunKept(r),
         \A b \in Agent : HandlerKept(b), UNCHANGED inputs
  PROVE  DeliveryInv'
<1>0. /\ \A t \in TaskId : task[t].target \in Agent
      /\ \A r \in RunId : run[r].task \in TaskId \cup {0}
      /\ \A a \in Agent : op[a].task \in TaskId \cup {0} /\ op[a].run \in RunId \cup {0}
      /\ 0 \notin TaskId
  <2>1. \A t \in TaskId : task[t].target \in Agent
    BY Tables DEF TypeOK, Task
  <2>2. TaskId = 1..Len(task) /\ Len(task) \in Nat
    BY Tables DEF TypeOK
  <2>3. \A r \in RunId : run[r].task \in TaskId \cup {0}
    BY <2>2 DEF TypeOK, RunsTyped
  <2> QED
    BY <2>1, <2>2, <2>3, HandlerType
<1>1. HandlerHoldsTask'
  <2> SUFFICES ASSUME NEW a \in Agent, op'[a].task # 0
               PROVE  /\ op'[a].pc \in StartPC \cup {"claimed", "steering", "steered", "steerRejected", "steerLost"}
                      /\ task'[op'[a].task].status = "dispatching"
                      /\ task'[op'[a].task].target = a
    BY DEF HandlerHoldsTask
  <2>1. op'[a].task = op[a].task /\ op[a].task \in TaskId
    BY <1>0 DEF HandlerKept
  <2>2. /\ op[a].pc \in StartPC \cup {"claimed", "steering", "steered", "steerRejected", "steerLost"}
        /\ task[op[a].task].status = "dispatching" /\ task[op[a].task].target = a
    BY <2>1 DEF DeliveryInv, HandlerHoldsTask
  <2> QED
    BY <2>1, <2>2 DEF HandlerKept, TaskKept
<1>2. HandlerHoldsRun'
  <2> SUFFICES ASSUME NEW a \in Agent, op'[a].pc \in StartPC
               PROVE  op'[a].run \in RunId /\ run'[op'[a].run].task = op'[a].task
    BY DEF HandlerHoldsRun, StartPC
  <2>1. op[a].pc \in StartPC /\ op'[a].run = op[a].run /\ op'[a].task = op[a].task
    BY DEF HandlerKept
  <2>2. op[a].run \in RunId /\ run[op[a].run].task = op[a].task
    BY <2>1 DEF DeliveryInv, HandlerHoldsRun
  <2> QED
    BY <2>1, <2>2 DEF RunKept
<1>3. ASSUME NEW t \in TaskId, NEW PCs, InFlight(t, PCs),
             \A b \in Agent : op[b].task # 0 /\ op[b].pc \in PCs => op'[b].pc \in PCs
      PROVE  NextInFlight(t, PCs)
  <2>1. task[t].target \in Agent /\ task'[t].target = task[t].target
    BY <1>0 DEF TaskKept
  <2> SUFFICES ASSUME task'[t].status = "dispatching"
               PROVE  op'[task[t].target].task = t /\ op'[task[t].target].pc \in PCs
    BY <2>1 DEF NextInFlight
  <2>2. op[task[t].target].task = t /\ op[task[t].target].pc \in PCs
    BY <1>3 DEF InFlight, TaskKept
  <2> QED
    BY <1>0, <1>3, <2>1, <2>2 DEF HandlerKept
<1>4. OneOwnRun'
  <2> SUFFICES ASSUME NEW r \in RunId, run'[r].task # 0
               PROVE  /\ run'[r].source = "collaboration"
                      /\ task'[run'[r].task].status # "queued"
                      /\ NextInFlight(run'[r].task, StartPC)
                      /\ run'[r].outbox # "none" => NextInFlight(run'[r].task, SentPC)
                      /\ \A s \in RunId : run'[s].task = run'[r].task => s = r
    BY NextFlight DEF OneOwnRun
  <2>1. run'[r].task = run[r].task /\ run[r].task \in TaskId
    BY <1>0 DEF RunKept
  <2>2. /\ run[r].source = "collaboration"
        /\ task[run[r].task].status # "queued"
        /\ InFlight(run[r].task, StartPC)
        /\ run[r].outbox # "none" => InFlight(run[r].task, SentPC)
        /\ \A s \in RunId : run[s].task = run[r].task => s = r
    BY <2>1, <1>0 DEF DeliveryInv, OneOwnRun
  <2>3. run'[r].outbox # "none" => run[r].outbox # "none"
    BY DEF RunKept
  <2>4. /\ \A b \in Agent : op[b].task # 0 /\ op[b].pc \in StartPC => op'[b].pc \in StartPC
        /\ \A b \in Agent : op[b].task # 0 /\ op[b].pc \in SentPC => op'[b].pc \in SentPC
    BY DEF HandlerKept
  <2>5. /\ NextInFlight(run[r].task, StartPC)
        /\ run'[r].outbox # "none" => NextInFlight(run[r].task, SentPC)
    BY <1>3, <2>1, <2>2, <2>3, <2>4
  <2>6. task'[run[r].task].status # "queued"
    BY <2>1, <2>2 DEF TaskKept
  <2> QED
    BY <2>1, <2>2, <2>5, <2>6 DEF RunKept
<1>5. DeliveredIsNotPending'
  <2> SUFFICES ASSUME NEW i \in inputs, i.task # 0
               PROVE  /\ i.task \in TaskId'
                      /\ task'[i.task].status # "queued"
                      /\ NextInFlight(i.task, SentPC \cup {"steered", "steerLost"})
                      /\ \A r \in RunId : run'[r].task = i.task => run'[r].outbox # "starting"
    BY NextFlight DEF DeliveredIsNotPending
  <2>1. /\ i.task \in TaskId
        /\ task[i.task].status # "queued"
        /\ InFlight(i.task, SentPC \cup {"steered", "steerLost"})
        /\ \A r \in RunId : run[r].task = i.task => run[r].outbox # "starting"
    BY DEF DeliveryInv, DeliveredIsNotPending
  <2>2. \A b \in Agent : op[b].task # 0 /\ op[b].pc \in SentPC \cup {"steered", "steerLost"}
                           => op'[b].pc \in SentPC \cup {"steered", "steerLost"}
    BY DEF HandlerKept, SentPC, StartPC
  <2>3. NextInFlight(i.task, SentPC \cup {"steered", "steerLost"})
    BY <1>3, <2>1, <2>2
  <2> QED
    BY <2>1, <2>3 DEF RunKept, TaskKept
<1>6. AtMostOnceDelivery'
  BY DEF AtMostOnceDelivery, DeliveryInv
<1> QED
  BY <1>1, <1>2, <1>4, <1>5, <1>6 DEF DeliveryInv

\* What a step may do to a relay and to the run a handler holds.
RelayKept(r) ==
  /\ run'[r].agent = run[r].agent
  /\ run'[r].outbox \in {"starting", "live"} =>
       run[r].outbox \in {"starting", "live"} \/ run'[r].relay = "off"
  /\ \/ run'[r].relay \in {"off", run[r].relay}
     \/ /\ run[r].relay = "polling" /\ run'[r].relay = "finishing"
        /\ run'[r].outbox \notin {"starting", "live"}
     \/ /\ run'[r].relay = "polling"
        /\ \A b \in Agent : op[b].pc \in {"created", "bound"} => op[b].run # r

\* What it may do to the run a handler holds.
RunHeldKept(b) ==
  /\ \/ op'[b].run \in {0, op[b].run}
     \/ op'[b].run \in RunId /\ run[op'[b].run].agent = b
  /\ op'[b].pc \in {"created", "bound"} =>
       op[b].pc \in {"created", "bound"} /\ op'[b].run = op[b].run

\* A step whose runs and handlers change only as RelayKept and RunHeldKept
\* allow keeps RelayInv.
LEMMA RelayFrame ==
  ASSUME TypeOK, RelayInv, RunId' = RunId,
         \A r \in RunId : RelayKept(r), \A b \in Agent : RunHeldKept(b)
  PROVE  RelayInv'
<1>0. \A b \in Agent : op[b].run \in RunId \cup {0}
  BY HandlerType
<1>1. RelayHoldsOutcome'
  <2> SUFFICES ASSUME NEW r \in RunId, run'[r].relay = "finishing"
               PROVE  run'[r].outbox \notin {"starting", "live"}
    BY DEF RelayHoldsOutcome
  <2>1. run[r].relay = "finishing" => run[r].outbox \notin {"starting", "live"}
    BY DEF RelayInv, RelayHoldsOutcome
  <2> QED
    BY <2>1 DEF RelayKept
<1>2. HandlerHoldsOwnRun'
  <2> SUFFICES ASSUME NEW b \in Agent, op'[b].run # 0
               PROVE  run'[op'[b].run].agent = b
    BY DEF HandlerHoldsOwnRun
  <2>1. op'[b].run \in RunId /\ run[op'[b].run].agent = b
    BY <1>0 DEF RunHeldKept, RelayInv, HandlerHoldsOwnRun
  <2> QED
    BY <2>1 DEF RelayKept
<1>3. UnrequestedIsUnwatched'
  <2> SUFFICES ASSUME NEW b \in Agent, op'[b].pc \in {"created", "bound"}
               PROVE  op'[b].run \in RunId' /\ run'[op'[b].run].relay = "off"
    BY DEF UnrequestedIsUnwatched
  <2>1. op[b].pc \in {"created", "bound"} /\ op'[b].run = op[b].run
    BY DEF RunHeldKept
  <2>2. op[b].run \in RunId /\ run[op[b].run].relay = "off"
    BY <2>1 DEF RelayInv, UnrequestedIsUnwatched
  <2> QED
    BY <2>1, <2>2 DEF RelayKept
<1> QED
  BY <1>1, <1>2, <1>3 DEF RelayInv

\* A handler outside a delivery holds no task.
LEMMA NoTask ==
  ASSUME TypeOK, DeliveryInv, NEW a \in Agent, op[a].pc \notin DeliveryPC
  PROVE  op[a].task = 0
BY HandlerType DEF DeliveryInv, HandlerHoldsTask, DeliveryPC

\* Only the handler of a changes.
LEMMA OneHandlerMoves ==
  ASSUME TypeOK, NEW a \in Agent, NEW h, op' = [op EXCEPT ![a] = h]
  PROVE  \A b \in Agent : op'[b] = IF b = a THEN h ELSE op[b]
BY DEF TypeOK, HandlersTyped

\* A handler without a task that goes on outside the start of a turn, or
\* returns, disturbs neither invariant.
LEMMA IdleHands ==
  ASSUME TypeOK, NEW a \in Agent, op[a].task = 0,
         Return(a) \/ \E pc \in PC \ StartPC : Step(a, pc)
  PROVE  \A b \in Agent : HandlerKept(b) /\ RunHeldKept(b)
<1>1. PICK h : /\ op' = [op EXCEPT ![a] = h]
               /\ h.task = 0 /\ h.run \in {0, op[a].run} /\ h.pc \notin StartPC
  <2>1. CASE Return(a)
    <3>1. Idle.task = 0 /\ Idle.run = 0 /\ Idle.pc \notin StartPC
      BY DEF Idle, StartPC
    <3> QED
      BY <2>1, <3>1 DEF Return
  <2>2. ASSUME NEW pc \in PC \ StartPC, Step(a, pc)
        PROVE  \E h : /\ op' = [op EXCEPT ![a] = h]
                      /\ h.task = 0 /\ h.run \in {0, op[a].run} /\ h.pc \notin StartPC
    <3> DEFINE h == [op[a] EXCEPT !.pc = pc]
    <3>1. h.task = 0 /\ h.run = op[a].run /\ h.pc = pc
      BY HandlerType DEF Operation
    <3>2. op' = [op EXCEPT ![a] = h]
      BY <2>2 DEF Step
    <3> HIDE DEF h
    <3> QED
      BY <3>1, <3>2
  <2> QED
    BY <2>1, <2>2
<1>2. \A b \in Agent : op'[b] = IF b = a THEN h ELSE op[b]
  BY <1>1 DEF TypeOK, HandlersTyped
<1> QED
  BY <1>1, <1>2 DEF HandlerKept, RunHeldKept, StartPC

\* Steps outside the locks leave every handler as it is.
LEMMA HandlersUnchanged ==
  ASSUME UNCHANGED op
  PROVE  \A b \in Agent : HandlerKept(b) /\ RunHeldKept(b)
BY DEF HandlerKept, RunHeldKept

\* Steps that write no run keep every run.
LEMMA RunsUnchanged ==
  ASSUME UNCHANGED run
  PROVE  RunId' = RunId /\ \A r \in RunId : RunKept(r) /\ RelayKept(r)
BY DEF RunKept, RelayKept, RunId

\* Steps that write no task keep every task.
LEMMA TasksUnchanged ==
  ASSUME UNCHANGED task
  PROVE  TaskId \subseteq TaskId' /\ \A t \in TaskId : TaskKept(t)
BY DEF TaskKept, TaskId

\* Cancelling queued tasks keeps every task: none of them is in flight.
LEMMA CancelKeeps ==
  ASSUME TypeOK, NEW S, S \subseteq {t \in TaskId : task[t].status = "queued"}, task' = Cancelled(S)
  PROVE  TaskId \subseteq TaskId' /\ \A t \in TaskId : TaskKept(t)
<1>1. \A t \in TaskId : task[t] \in Task
  BY Tables DEF TypeOK
<1>2. DOMAIN task' = TaskId
  BY DEF Cancelled
<1>3. ASSUME NEW t \in TaskId PROVE TaskKept(t)
  <2>1. CASE t \in S
    <3>1. task'[t] = [task[t] EXCEPT !.status = "cancelled"] /\ task[t].status = "queued"
      BY <2>1 DEF Cancelled
    <3> QED
      BY <1>1, <3>1 DEF TaskKept, Task
  <2>2. CASE t \notin S
    BY <2>2 DEF TaskKept, Cancelled
  <2> QED
    BY <2>1, <2>2
<1> QED
  BY <1>2, <1>3 DEF TaskId

\* Suppression keeps every task.
LEMMA SuppressKeeps ==
  ASSUME TypeOK, NEW a \in Agent, SuppressCollaborationCompletions(a), UNCHANGED run
  PROVE  TaskId \subseteq TaskId' /\ \A t \in TaskId : TaskKept(t)
<1>1. PICK order \in Listings(Uncompleted(a)) : task' = Suppressed(a, order)
  BY DEF SuppressCollaborationCompletions
<1>2. TasksTyped /\ RunsTyped /\ Len(run') = Len(run)
  BY DEF TypeOK
<1>3. \A t \in TaskId :
        /\ t \in TaskId' /\ task'[t].target = task[t].target
        /\ \/ task'[t].status = task[t].status
           \/ task[t].status = "queued" /\ task'[t].status = "cancelled"
  BY <1>1, <1>2, SuppressedTyped
<1> QED
  BY <1>3 DEF TaskKept

\* A new row keeps the tasks that were there.
LEMMA AppendKeeps ==
  ASSUME TypeOK, NEW rows, NEW new, task' = Append(rows, new),
         DOMAIN rows = TaskId, rows = [t \in TaskId |-> rows[t]],
         \A t \in TaskId : rows[t].target = task[t].target /\ rows[t].status = task[t].status
  PROVE  TaskId \subseteq TaskId' /\ \A t \in TaskId : TaskKept(t)
<1> DEFINE S == {rows[t] : t \in TaskId} \cup {new}
<1>1. rows \in Seq(S) /\ Len(rows) = Len(task) /\ Len(task) \in Nat /\ TaskId = 1..Len(task)
  <2>1. rows \in [TaskId -> S] /\ TaskId = 1..Len(task) /\ Len(task) \in Nat
    BY Tables DEF TypeOK
  <2> HIDE DEF S
  <2> QED
    BY <2>1, FunctionIsSequence
<1>2. new \in S
  OBVIOUS
<1> HIDE DEF S
<1>3. /\ task' \in Seq(S) /\ Len(task') = Len(task) + 1
      /\ \A t \in 1..Len(task) : task'[t] = rows[t]
  BY <1>1, <1>2, AppendProperties
<1>4. TaskId' = 1..(Len(task) + 1)
  BY <1>3, LenProperties DEF TaskId
<1> QED
  BY <1>1, <1>3, <1>4 DEF TaskKept

\* Reconciliation never touches a task that is queued or in flight.
LEMMA ReconciledKeeps ==
  ASSUME TypeOK, NEW t \in TaskId
  PROVE  /\ Reconciled[t] \in Task
         /\ Reconciled[t].target = task[t].target
         /\ \/ Reconciled[t].status = task[t].status
            \/ /\ task[t].status \in {"running", "unknown"}
               /\ Reconciled[t].status \in RunTerminal
<1>1. task[t] \in Task /\ Reconciled[t] \in Task
  BY Tables, ReconciledTyped DEF TypeOK
<1>2. CASE Reconcilable(t)
  <2> DEFINE status == run[task[t].run].status
  <2>1. status \in RunTerminal /\ task[t].status \in {"running", "unknown"}
    BY <1>2 DEF Reconcilable
  <2>2. PICK confirmed : Reconciled[t] = [task[t] EXCEPT !.status = status, !.deliveryConfirmed = confirmed]
    BY <1>2 DEF Reconciled
  <2> HIDE DEF status
  <2> QED
    BY <1>1, <2>1, <2>2 DEF Task
<1>3. CASE ~Reconcilable(t)
  BY <1>1, <1>3 DEF Reconciled
<1> QED
  BY <1>2, <1>3
-----------------------------------------------------------------------------
(* Quiet steps: what neither claims, delivers nor settles a task.          *)

\* A step that delivers nothing keeps each table and every handler.
TasksKeep == TaskId \subseteq TaskId' /\ \A t \in TaskId : TaskKept(t)

\* All runs are kept.
RunsKeep == RunId' = RunId /\ \A r \in RunId : RunKept(r) /\ RelayKept(r)

\* All handlers are kept.
HandlersKeep == \A b \in Agent : HandlerKept(b) /\ RunHeldKept(b)

\* What is left of Inv' once TypeOK' is known.
InvHolds == RelayInv' /\ DeliveryInv'

\* A step that keeps tasks, runs, handlers and inputs keeps the invariants.
LEMMA Quiet ==
  ASSUME Inv, TypeOK', TasksKeep, RunsKeep, HandlersKeep, UNCHANGED inputs
  PROVE  InvHolds
BY DeliveryFrame, RelayFrame DEF Inv, TasksKeep, RunsKeep, HandlersKeep, InvHolds

\* A handler without a task keeps the invariants when it leaves the run it held,
\* keeps it, or takes the active run.
LEMMA FreeHands ==
  ASSUME TypeOK, NEW a \in Agent, op[a].task = 0,
         NEW h, op' = [op EXCEPT ![a] = h],
         h.task = 0, h.pc \notin StartPC, h.run \in {0, op[a].run} \/ h.run = ActiveRun(a)
  PROVE  HandlersKeep
<1>1. \A b \in Agent : op'[b] = IF b = a THEN h ELSE op[b]
  BY OneHandlerMoves
<1>2. h.run \in {0, op[a].run} \/ (h.run \in RunId /\ run[h.run].agent = a)
  BY ActiveRunType
<1> QED
  BY <1>1, <1>2 DEF HandlersKeep, HandlerKept, RunHeldKept, StartPC

\* Accepting a task keeps the invariants.
LEMMA SubmissionQuiet ==
  ASSUME Inv, TypeOK', NEW a \in Agent, Submission(a)
  PROVE  InvHolds
<1>1. UNCHANGED <<run, op, inputs>>
  BY DEF Submission, CollaborationSend, EnqueueCollaborationTask, SendReturns
<1>2. TasksKeep
  <2>1. CASE CollaborationSend(a) \/ SendReturns(a)
    BY <2>1, TasksUnchanged DEF CollaborationSend, SendReturns, TasksKeep
  <2>2. CASE EnqueueCollaborationTask(a)
    <3>1. PICK new : task' = Append(task, new)
      BY <2>2 DEF EnqueueCollaborationTask
    <3>2. DOMAIN task = TaskId /\ task = [t \in TaskId |-> task[t]]
      BY Tables DEF Inv, TypeOK
    <3> QED
      BY <3>1, <3>2, AppendKeeps DEF Inv, TasksKeep
  <2> QED
    BY <2>1, <2>2 DEF Submission
<1> QED
  BY <1>1, <1>2, RunsUnchanged, HandlersUnchanged, Quiet DEF RunsKeep, HandlersKeep

\* Inserting a receipt keeps every task.
LEMMA WithCompletionKeeps ==
  ASSUME TypeOK, NEW t \in TaskId, NEW status, task' = WithCompletion(t, status)
  PROVE  TasksKeep
<1> DEFINE n == Len(task) + 1
           row == [task[t] EXCEPT !.completionTask = n]
           rows == [task EXCEPT ![t] = row]
<1>1. task \in [TaskId -> Task]
  BY Tables DEF TypeOK
<1> HIDE DEF n
<1>2. row.target = task[t].target /\ row.status = task[t].status
  BY <1>1 DEF Task
<1>3. task' = Append(rows, CompletionReceipt(t, status))
  BY DEF WithCompletion, n
<1> HIDE DEF row
<1>4. /\ DOMAIN rows = TaskId /\ rows = [u \in TaskId |-> rows[u]]
      /\ \A u \in TaskId : rows[u].target = task[u].target /\ rows[u].status = task[u].status
  BY <1>1, <1>2
<1> HIDE DEF rows
<1> QED
  BY <1>3, <1>4, AppendKeeps DEF TasksKeep

\* The dispatcher's steps that claim nothing keep the invariants.
LEMMA DispatchQuiet ==
  ASSUME Inv, TypeOK', NEW a \in Agent,
         DispatchCollaboration(a) \/ EnqueueCompletion(a) \/ LoadPending(a) \/ SelectNone(a)
  PROVE  InvHolds
<1>0. TypeOK /\ DeliveryInv /\ UNCHANGED <<run, inputs>>
  BY DEF Inv, DispatchCollaboration, EnqueueCompletion, LoadPending, SelectNone
<1>1. op[a].task = 0
  <2>1. op[a].pc \notin DeliveryPC
    BY DEF DispatchCollaboration, EnqueueCompletion, LoadPending, SelectNone,
           Idle, DeliveryPC, StartPC
  <2> QED
    BY <1>0, <2>1, NoTask
<1>2. HandlersKeep
  <2>1. CASE DispatchCollaboration(a) \/ EnqueueCompletion(a)
    <3>1. PICK todo : op' = [op EXCEPT ![a] = [op[a] EXCEPT !.pc = "outbox", !.todo = todo]]
      <4>1. CASE DispatchCollaboration(a)
        BY <4>1 DEF DispatchCollaboration
      <4>2. CASE EnqueueCompletion(a)
        <5>1. PICK t : op' = [op EXCEPT ![a] = [op[a] EXCEPT !.todo = op[a].todo \ {t}]]
          BY <4>2 DEF EnqueueCompletion
        <5>2. [op[a] EXCEPT !.todo = op[a].todo \ {t}]
                = [op[a] EXCEPT !.pc = "outbox", !.todo = op[a].todo \ {t}]
          BY <1>0, <4>2, HandlerType DEF EnqueueCompletion, Operation
        <5> QED
          BY <5>1, <5>2
      <4> QED
        BY <2>1, <4>1, <4>2
    <3> DEFINE h == [op[a] EXCEPT !.pc = "outbox", !.todo = todo]
    <3>2. h.task = 0 /\ h.pc \notin StartPC /\ h.run = op[a].run
      BY <1>0, <1>1, HandlerType DEF Operation, StartPC
    <3> HIDE DEF h
    <3> QED
      BY <1>0, <1>1, <3>1, <3>2, FreeHands DEF h
  <2>2. CASE LoadPending(a) \/ SelectNone(a)
    <3>1. Return(a) \/ \E pc \in PC \ StartPC : Step(a, pc)
      BY <2>2 DEF LoadPending, SelectNone, PC, StartPC
    <3> QED
      BY <1>0, <1>1, <3>1, IdleHands DEF HandlersKeep
  <2> QED
    BY <2>1, <2>2
<1>3. TasksKeep
  <2>1. CASE DispatchCollaboration(a) \/ SelectNone(a)
    BY <2>1, TasksUnchanged DEF TasksKeep, DispatchCollaboration, SelectNone
  <2>2. CASE EnqueueCompletion(a)
    <3>1. \/ task' = task
          \/ \E t \in PendingCompletions(a), status \in {"queued", "cancelled"} :
               task' = WithCompletion(t, status)
      BY <2>2 DEF EnqueueCompletion
    <3>2. PendingCompletions(a) \subseteq TaskId
      BY DEF PendingCompletions, Uncompleted
    <3> QED
      BY <1>0, <3>1, <3>2, TasksUnchanged, WithCompletionKeeps DEF TasksKeep
  <2>3. CASE LoadPending(a)
    <3>1. \E S \in SUBSET Queued(a) : task' = Cancelled(S)
      <4>1. CASE a \in archived
        BY <2>3, <4>1 DEF LoadPending, CancelQueued, Cancelled
      <4>2. CASE a \notin archived
        <5>1. StaleNotifications(a) \subseteq Queued(a) /\ task' = Cancelled(StaleNotifications(a))
          BY <2>3, <4>2 DEF LoadPending, StaleNotifications, Cancelled
        <5> QED
          BY <5>1, Zenon
      <4> QED
        BY <4>1, <4>2
    <3>2. Queued(a) \subseteq {t \in TaskId : task[t].status = "queued"}
      BY DEF Queued
    <3> QED
      BY <1>0, <3>1, <3>2, CancelKeeps DEF TasksKeep
  <2> QED
    BY <2>1, <2>2, <2>3
<1> QED
  BY <1>0, <1>2, <1>3, RunsUnchanged, Quiet DEF RunsKeep

\* A request that takes a lock and starts no run keeps the invariants.
LEMMA RequestQuiet ==
  ASSUME Inv, TypeOK', NEW a \in Agent,
         \/ MessageSteer(a) \/ Interrupt(a) \/ (\E archive \in BOOLEAN : StopAgent(a, archive))
         \/ ResetAgentConversation(a) \/ ClientGone(a)
  PROVE  InvHolds
<1>0. TypeOK /\ DeliveryInv /\ UNCHANGED <<task, run, inputs>>
  BY DEF Inv, MessageSteer, Interrupt, StopAgent, ResetAgentConversation, ClientGone
<1>1. HandlersKeep
  <2>1. CASE MessageSteer(a) \/ Interrupt(a)
    <3>1. PICK pc \in {"messageSteer", "interrupting"} :
            op' = [op EXCEPT ![a] = [op[a] EXCEPT !.pc = pc, !.run = ActiveRun(a)]]
      BY <2>1 DEF MessageSteer, Interrupt
    <3> DEFINE h == [op[a] EXCEPT !.pc = pc, !.run = ActiveRun(a)]
    <3>2. op[a].task = 0
      BY <2>1 DEF MessageSteer, Interrupt, Idle
    <3>3. h.task = 0 /\ h.pc \notin StartPC /\ h.run = ActiveRun(a)
      BY <1>0, <3>2, HandlerType DEF Operation, StartPC
    <3> HIDE DEF h
    <3> QED
      BY <1>0, <3>1, <3>2, <3>3, FreeHands DEF h
  <2>2. CASE \E archive \in BOOLEAN : StopAgent(a, archive)
    <3>1. PICK archive : op' = [op EXCEPT ![a] = [op[a] EXCEPT !.pc = "suppress", !.archive = archive]]
      BY <2>2 DEF StopAgent
    <3> DEFINE h == [op[a] EXCEPT !.pc = "suppress", !.archive = archive]
    <3>2. op[a].task = 0
      BY <2>2 DEF StopAgent, Idle
    <3>3. h.task = 0 /\ h.pc \notin StartPC /\ h.run = op[a].run
      BY <1>0, <3>2, HandlerType DEF Operation, StartPC
    <3> HIDE DEF h
    <3> QED
      BY <1>0, <3>1, <3>2, <3>3, FreeHands DEF h
  <2>3. CASE ResetAgentConversation(a)
    BY <2>3, HandlersUnchanged DEF ResetAgentConversation, HandlersKeep
  <2>4. CASE ClientGone(a)
    <3> DEFINE h == [op[a] EXCEPT !.gone = TRUE]
    <3>1. h.task = op[a].task /\ h.pc = op[a].pc /\ h.run = op[a].run
      BY <1>0, HandlerType DEF Operation
    <3>2. op' = [op EXCEPT ![a] = h]
      BY <2>4 DEF ClientGone
    <3> HIDE DEF h
    <3>3. \A b \in Agent : op'[b] = IF b = a THEN h ELSE op[b]
      <4>1. TypeOK
        BY <1>0
      <4> QED
        BY <3>2, <4>1, OneHandlerMoves
    <3> QED
      BY <3>1, <3>3 DEF HandlersKeep, HandlerKept, RunHeldKept
  <2> QED
    BY <2>1, <2>2, <2>3, <2>4
<1> QED
  BY <1>0, <1>1, RunsUnchanged, TasksUnchanged, Quiet DEF RunsKeep, TasksKeep

\* A handler that advances the start of a turn keeps its delivery in flight.
LEMMA StartMoves ==
  ASSUME TypeOK, NEW a \in Agent, op[a].pc \in StartPC, NEW pc \in StartPC, Step(a, pc),
         op[a].pc \in SentPC => pc \in SentPC,
         pc \in {"created", "bound"} => op[a].pc \in {"created", "bound"}
  PROVE  HandlersKeep
<1> DEFINE h == [op[a] EXCEPT !.pc = pc]
<1>1. h.task = op[a].task /\ h.pc = pc /\ h.run = op[a].run
  BY HandlerType DEF Operation
<1>2. op' = [op EXCEPT ![a] = h]
  BY DEF Step
<1> HIDE DEF h
<1>3. \A b \in Agent : op'[b] = IF b = a THEN h ELSE op[b]
  BY <1>2, OneHandlerMoves
<1> QED
  BY <1>1, <1>3 DEF HandlersKeep, HandlerKept, RunHeldKept

\* What a quiet step may write into the row of a run.
RowKept(r, row) ==
  /\ row.agent = run[r].agent /\ row.task = run[r].task /\ row.source = run[r].source
  /\ \/ row.outbox = run[r].outbox
     \/ run[r].outbox # "none" /\ row.outbox \notin {"none", "starting", "live"}
  /\ \/ row.relay \in {"off", run[r].relay}
     \/ /\ run[r].relay = "polling" /\ row.relay = "finishing"
        /\ row.outbox \notin {"starting", "live"}
     \/ /\ row.relay = "polling"
        /\ \A b \in Agent : op[b].pc \in {"created", "bound"} => op[b].run # r

\* A write to one run that RowKept allows keeps every run.
LEMMA RowKeeps ==
  ASSUME TypeOK, NEW r, NEW row,
         run' = run \/ run' = [run EXCEPT ![r] = row], r \in RunId => RowKept(r, row)
  PROVE  RunsKeep
<1>1. CASE run' = run
  BY <1>1, RunsUnchanged DEF RunsKeep
<1>2. CASE run' = [run EXCEPT ![r] = row]
  <2>1. DOMAIN run' = RunId /\ \A s \in RunId : run'[s] = IF s = r THEN row ELSE run[s]
    BY <1>2, Tables DEF TypeOK
  <2>2. RunId' = RunId
    BY <2>1 DEF RunId
  <2>3. ASSUME NEW s \in RunId PROVE RunKept(s) /\ RelayKept(s)
    BY <2>1 DEF RowKept, RunKept, RelayKept
  <2> QED
    BY <2>2, <2>3 DEF RunsKeep
<1> QED
  BY <1>1, <1>2

\* The run of a handler that has requested its start is held by no handler
\* that has yet to do so.
LEMMA NobodyElse ==
  ASSUME TypeOK, RelayInv, NEW a \in Agent, op[a].run # 0, op[a].pc \notin {"created", "bound"}
  PROVE  \A b \in Agent : op[b].pc \in {"created", "bound"} => op[b].run # op[a].run
<1> SUFFICES ASSUME NEW b \in Agent, op[b].pc \in {"created", "bound"}, op[b].run = op[a].run
             PROVE  FALSE
  OBVIOUS
<1>1. run[op[a].run].agent = a /\ run[op[b].run].agent = b
  BY DEF RelayInv, HandlerHoldsOwnRun
<1> QED
  BY <1>1

\* A run held by a handler that has requested its start may get its relay.
LEMMA RelayStarts ==
  ASSUME Inv, NEW a \in Agent, op[a].pc \notin {"created", "bound"},
         run' = [run EXCEPT ![op[a].run] = [run[op[a].run] EXCEPT !.relay = StartRelay(run[op[a].run].relay)]]
  PROVE  RunsKeep
<1> DEFINE r == op[a].run
           row == [run[r] EXCEPT !.relay = StartRelay(run[r].relay)]
<1>1. TypeOK /\ RelayInv
  BY DEF Inv
<1>2. ASSUME r \in RunId PROVE RowKept(r, row)
  <2>1. run[r] \in Run /\ r # 0
    BY <1>1, <1>2, RunRow, Tables DEF TypeOK
  <2>2. \A b \in Agent : op[b].pc \in {"created", "bound"} => op[b].run # r
    BY <1>1, <2>1, NobodyElse
  <2>3. /\ row.agent = run[r].agent /\ row.task = run[r].task /\ row.source = run[r].source
        /\ row.outbox = run[r].outbox /\ row.relay \in {run[r].relay, "polling"}
    BY <2>1 DEF Run, StartRelay
  <2> QED
    BY <2>2, <2>3 DEF RowKept
<1> HIDE DEF row
<1> QED
  BY <1>1, <1>2, RowKeeps DEF row

\* Writing only the status of a run keeps every run.
LEMMA StatusKeeps ==
  ASSUME TypeOK, NEW r, NEW status,
         run' = run \/ run' = [run EXCEPT ![r] = [run[r] EXCEPT !.status = status]]
  PROVE  RunsKeep
<1> DEFINE row == [run[r] EXCEPT !.status = status]
<1>1. r \in RunId => RowKept(r, row)
  BY RunRow DEF RowKept, Run
<1> HIDE DEF row
<1> QED
  BY <1>1, RowKeeps DEF row

\* Interrupting a live turn keeps every run.
LEMMA InterruptKeeps ==
  ASSUME TypeOK, NEW r,
         \/ run' = run
         \/ /\ run[r].outbox = "live"
            /\ run' = [run EXCEPT ![r] = [run[r] EXCEPT !.outbox = "interrupted"]]
  PROVE  RunsKeep
<1> DEFINE row == [run[r] EXCEPT !.outbox = "interrupted"]
<1>1. r \in RunId /\ run[r].outbox = "live" => RowKept(r, row)
  BY RunRow DEF RowKept, Run
<1> HIDE DEF row
<1> QED
  BY <1>1, RowKeeps, RunsUnchanged DEF row, RunsKeep

\* Finishing a stopped run and cancelling its relay keeps every run.
LEMMA StoppedRunKeeps ==
  ASSUME TypeOK, NEW a \in Agent, FinishStoppedRun(a)
  PROVE  RunsKeep
<1> DEFINE r == op[a].run
<1> DEFINE status == IF op[a].gone THEN run[r].status ELSE "interrupted"
<1>1. PICK relay \in CancelRelay(run[r].relay) :
        run' = [run EXCEPT ![r] = [run[r] EXCEPT !.relay = relay, !.status = status]]
  BY DEF FinishStoppedRun
<1> HIDE DEF status
<1> DEFINE row == [run[r] EXCEPT !.relay = relay, !.status = status]
<1>2. relay \in {"off", run[r].relay}
  BY <1>1 DEF CancelRelay
<1>3. r \in RunId => RowKept(r, row)
  BY <1>2, RunRow DEF RowKept, Run
<1> HIDE DEF row
<1> QED
  BY <1>1, <1>3, RowKeeps DEF row

\* The recovery of a worker's outbox keeps every run.
LEMMA RecoveredKeeps ==
  ASSUME TypeOK, NEW a \in Agent, run' = run \/ run' = Recovered(a)
  PROVE  RunsKeep
<1>1. CASE run' = run
  BY <1>1, RunsUnchanged DEF RunsKeep
<1>2. CASE run' = Recovered(a)
  <2>1. RunId' = RunId
    BY <1>2 DEF Recovered, RunId
  <2>2. ASSUME NEW r \in RunId PROVE RunKept(r) /\ RelayKept(r)
    <3>1. \/ run'[r] = run[r]
          \/ run'[r] = [run[r] EXCEPT !.outbox = "unknown"] /\ run[r].outbox # "none"
      BY <1>2 DEF Recovered
    <3> QED
      BY <3>1, RunRow DEF RunKept, RelayKept, Run
  <2> QED
    BY <2>1, <2>2 DEF RunsKeep
<1> QED
  BY <1>1, <1>2

\* Binding a run to the task in flight keeps every task.
LEMMA RebindKeeps ==
  ASSUME TypeOK, NEW t, NEW r, task' = SetTaskState(t, "dispatching", r)
  PROVE  TasksKeep
<1>1. task \in [TaskId -> Task]
  BY Tables DEF TypeOK
<1>2. CASE task' = task
  BY <1>2, TasksUnchanged DEF TasksKeep
<1>3. CASE task' # task
  <2> DEFINE fallback == task[t].steerFallback \/ ("dispatching" = "queued" /\ task[t].mode = "steer")
             confirmed == IF "dispatching" = "running" THEN TRUE
                          ELSE IF "dispatching" = "queued" THEN FALSE ELSE task[t].deliveryConfirmed
             row == [task[t] EXCEPT !.status = "dispatching", !.run = r,
                       !.steerFallback = fallback, !.deliveryConfirmed = confirmed]
  <2>1. task' = [task EXCEPT ![t] = row] /\ task[t].status = "dispatching"
    BY <1>3 DEF SetTaskState, RunTerminal
  <2> HIDE DEF fallback, confirmed
  <2>2. t \in TaskId => row.target = task[t].target /\ row.status = "dispatching"
    BY <1>1 DEF Task
  <2> HIDE DEF row
  <2>3. /\ DOMAIN task' = TaskId
        /\ \A u \in TaskId : task'[u] = IF u = t THEN row ELSE task[u]
    BY <1>1, <2>1
  <2>4. TaskId' = TaskId
    BY <2>3 DEF TaskId
  <2>5. \A u \in TaskId : TaskKept(u)
    BY <2>1, <2>2, <2>3 DEF TaskKept
  <2> QED
    BY <2>4, <2>5 DEF TasksKeep
<1> QED
  BY <1>2, <1>3

\* The steps of a start that neither insert a run, nor reach the worker, nor
\* settle the task keep the invariants.
LEMMA StartQuiet ==
  ASSUME Inv, TypeOK', NEW a \in Agent,
         \/ BindRun(a) \/ RunDueScheduleFails(a) \/ StartTurnReplies(a)
         \/ (CallStartTurn(a) /\ UNCHANGED run) \/ SetRunStarted(a) \/ StartRejected(a)
         \/ (StartLost(a) /\ op[a].task = 0)
  PROVE  InvHolds
<1>0. /\ TypeOK /\ RelayInv /\ DeliveryInv /\ UNCHANGED inputs
      /\ op[a].task = 0 \/ op[a].task \in TaskId
  BY HandlerType DEF Inv, BindRun, RunDueScheduleFails, StartTurnReplies, CallStartTurn,
     SetRunStarted, StartRejected, StartLost
<1>1. op[a].pc \in StartPC
  BY DEF BindRun, RunDueScheduleFails, StartTurnReplies, CallStartTurn,
     SetRunStarted, StartRejected, StartLost, StartPC
<1>2. op[a].run \in RunId /\ run[op[a].run].task = op[a].task
  BY <1>0, <1>1 DEF DeliveryInv, HandlerHoldsRun
<1>3. CASE BindRun(a)
  <2>1. TasksKeep
    BY <1>0, <1>3, RebindKeeps DEF BindRun
  <2>2. HandlersKeep
    BY <1>0, <1>1, <1>3, StartMoves DEF BindRun, StartPC, SentPC
  <2> QED
    BY <1>0, <1>3, <2>1, <2>2, RunsUnchanged, Quiet DEF BindRun, RunsKeep
<1>4. CASE RunDueScheduleFails(a)
  <2>1. op[a].task = 0
    BY <1>0, <1>2, <1>4 DEF RunDueScheduleFails, DeliveryInv, OneOwnRun
  <2>2. HandlersKeep
    BY <1>0, <1>4, <2>1, IdleHands DEF RunDueScheduleFails, HandlersKeep
  <2>3. RunsKeep
    BY <1>0, <1>4, StatusKeeps DEF RunDueScheduleFails, FinishRun
  <2> QED
    BY <1>0, <1>4, <2>2, <2>3, TasksUnchanged, Quiet DEF RunDueScheduleFails, TasksKeep
<1>5. CASE StartTurnReplies(a)
  <2>1. HandlersKeep
    BY <1>0, <1>1, <1>5, StartMoves DEF StartTurnReplies, StartPC, SentPC
  <2> QED
    BY <1>0, <1>5, <2>1, RunsUnchanged, TasksUnchanged, Quiet DEF StartTurnReplies, TasksKeep, RunsKeep
<1>6. CASE CallStartTurn(a) /\ UNCHANGED run
  <2>1. PICK pc \in {"rejected", "calling", "lost"} : Step(a, pc)
    BY <1>6 DEF CallStartTurn
  <2>2. HandlersKeep
    BY <1>0, <1>1, <1>6, <2>1, StartMoves DEF CallStartTurn, StartPC, SentPC
  <2> QED
    BY <1>0, <1>6, <2>2, RunsUnchanged, TasksUnchanged, Quiet DEF CallStartTurn, TasksKeep, RunsKeep
<1>7. CASE SetRunStarted(a)
  <2> DEFINE r == op[a].run
  <2>1. HandlersKeep
    <3>1. CASE op[a].task # 0
      BY <1>0, <1>1, <1>7, <3>1, StartMoves DEF SetRunStarted, StartPC, SentPC
    <3>2. CASE op[a].task = 0
      BY <1>0, <1>7, <3>2, IdleHands DEF SetRunStarted, HandlersKeep
    <3> QED
      BY <3>1, <3>2
  <2>2. RunsKeep
    <3> DEFINE started == IF op[a].gone THEN run[r]
                          ELSE [run[r] EXCEPT !.status = "running", !.turn = TRUE]
    <3>1. /\ run[r] \in Run
          /\ \A b \in Agent : op[b].pc \in {"created", "bound"} => op[b].run # r
      <4>1. r # 0
        BY <1>0, <1>2, Tables DEF TypeOK
      <4> QED
        BY <1>0, <1>2, <1>7, <4>1, RunRow, NobodyElse DEF SetRunStarted
    <3>2. /\ started \in Run /\ started.agent = run[r].agent /\ started.task = run[r].task
          /\ started.source = run[r].source /\ started.outbox = run[r].outbox
          /\ started.relay = run[r].relay
      BY <3>1 DEF Run, Live
    <3>3. \/ run' = [run EXCEPT ![r] = started]
          \/ run' = [run EXCEPT ![r] = [started EXCEPT !.relay = StartRelay(started.relay)]]
      BY <1>7 DEF SetRunStarted
    <3> HIDE DEF started
    <3>4. PICK row : run' = [run EXCEPT ![r] = row] /\ RowKept(r, row)
      <4>1. CASE run' = [run EXCEPT ![r] = started]
        BY <3>2, <4>1 DEF RowKept
      <4>2. CASE run' = [run EXCEPT ![r] = [started EXCEPT !.relay = StartRelay(started.relay)]]
        <5> DEFINE row == [started EXCEPT !.relay = StartRelay(started.relay)]
        <5>1. RowKept(r, row)
          BY <3>1, <3>2 DEF RowKept, Run, StartRelay
        <5> HIDE DEF row
        <5> QED
          BY <4>2, <5>1 DEF row
      <4> QED
        BY <3>3, <4>1, <4>2
    <3> QED
      BY <1>0, <3>4, RowKeeps
  <2> QED
    BY <1>0, <1>7, <2>1, <2>2, TasksUnchanged, Quiet DEF SetRunStarted, TasksKeep
<1>8. CASE StartRejected(a) \/ (StartLost(a) /\ op[a].task = 0)
  <2>1. HandlersKeep
    <3>1. CASE op[a].task # 0
      BY <1>0, <1>1, <1>8, <3>1, StartMoves DEF StartRejected, StartPC, SentPC
    <3>2. CASE op[a].task = 0
      BY <1>0, <1>8, <3>2, IdleHands DEF StartRejected, StartLost, HandlersKeep
    <3> QED
      BY <3>1, <3>2
  <2>2. RunsKeep
    BY <1>0, <1>8, StatusKeeps DEF StartRejected, StartLost, FinishRun
  <2>3. UNCHANGED task
    BY <1>8 DEF StartRejected, StartLost
  <2> QED
    BY <1>0, <2>1, <2>2, <2>3, TasksUnchanged, Quiet DEF TasksKeep
<1> QED
  BY <1>3, <1>4, <1>5, <1>6, <1>7, <1>8

\* The steps of Stop run, stop, archive and a message to an active run keep
\* the invariants.
LEMMA StopQuiet ==
  ASSUME Inv, TypeOK', NEW a \in Agent,
         \/ MessageSteerReplies(a) \/ CallInterrupt(a) \/ FinishInterrupted(a) \/ Silence(a)
         \/ StopSuppress(a) \/ StopCancelQueued(a) \/ StopRuntime(a) \/ StopFinish(a) \/ ArchiveAgent(a)
  PROVE  InvHolds
<1> USE DEF MessageSteerReplies, CallInterrupt, FinishInterrupted, Silence, StopSuppress,
            StopCancelQueued, StopRuntime, StopFinish, ArchiveAgent
<1>0. TypeOK /\ RelayInv /\ DeliveryInv /\ UNCHANGED inputs
  BY DEF Inv
<1>1. op[a].task = 0
  <2>1. op[a].pc \notin DeliveryPC
    BY DEF DeliveryPC, StartPC
  <2> QED
    BY <1>0, <2>1, NoTask
<1>2. HandlersKeep
  <2>1. Return(a) \/ \E pc \in PC \ StartPC : Step(a, pc)
    BY DEF PC, StartPC
  <2> QED
    BY <1>0, <1>1, <2>1, IdleHands DEF HandlersKeep
<1>3. TasksKeep
  <2>1. CASE UNCHANGED task
    BY <2>1, TasksUnchanged DEF TasksKeep
  <2>2. CASE SuppressCollaborationCompletions(a) /\ UNCHANGED run
    BY <1>0, <2>2, SuppressKeeps DEF TasksKeep
  <2>3. CASE task' = CancelQueued(a)
    <3>1. task' = Cancelled(Queued(a)) /\ Queued(a) \subseteq {t \in TaskId : task[t].status = "queued"}
      BY <2>3 DEF CancelQueued, Cancelled, Queued
    <3> QED
      BY <1>0, <3>1, CancelKeeps DEF TasksKeep
  <2> QED
    BY <2>1, <2>2, <2>3
<1>4. RunsKeep
  <2>1. CASE UNCHANGED run
    BY <2>1, RunsUnchanged DEF RunsKeep
  <2>2. CASE MessageSteerReplies(a)
    <3>1. op[a].pc \notin {"created", "bound"}
      BY <2>2
    <3> QED
      BY <2>1, <2>2, <3>1, RelayStarts
  <2>3. CASE CallInterrupt(a)
    BY <1>0, <2>3, InterruptKeeps DEF InterruptedRun
  <2>4. CASE FinishInterrupted(a) \/ StopFinish(a)
    BY <1>0, <2>1, <2>4, StoppedRunKeeps
  <2>5. CASE StopRuntime(a)
    BY <1>0, <2>5, RecoveredKeeps
  <2>6. CASE Silence(a) \/ StopSuppress(a) \/ StopCancelQueued(a) \/ ArchiveAgent(a)
    BY <2>1, <2>6
  <2> QED
    BY <2>2, <2>3, <2>4, <2>5, <2>6
<1> QED
  BY <1>0, <1>2, <1>3, <1>4, Quiet

\* The interrupt inside stop keeps the invariants.
LEMMA StopInterruptQuiet ==
  ASSUME Inv, TypeOK', NEW a \in Agent, StopInterrupt(a)
  PROVE  InvHolds
<1>0. TypeOK /\ DeliveryInv /\ UNCHANGED <<task, inputs>> /\ op[a].pc = "stopInterrupt"
  BY DEF Inv, StopInterrupt
<1>1. op[a].task = 0
  BY <1>0, NoTask DEF DeliveryPC, StartPC
<1> DEFINE h == [op[a] EXCEPT !.pc = "stopRuntime", !.run = ActiveRun(a)]
<1>2. h.task = 0 /\ h.pc \notin StartPC /\ h.run = ActiveRun(a)
  BY <1>0, <1>1, HandlerType DEF Operation, StartPC
<1>3. op' = [op EXCEPT ![a] = h]
  BY DEF StopInterrupt
<1> HIDE DEF h
<1>4. HandlersKeep
  BY <1>0, <1>1, <1>2, <1>3, FreeHands
<1>5. RunsKeep
  BY <1>0, InterruptKeeps DEF StopInterrupt, InterruptedRun
<1> QED
  BY <1>0, <1>4, <1>5, TasksUnchanged, Quiet DEF TasksKeep

\* What runs without a lock, the start of a turn in the worker and a restart
\* aside, keeps the invariants.
LEMMA BackgroundQuiet ==
  ASSUME Inv, TypeOK',
         \/ \E t \in TaskId : CollaborationCancel(t)
         \/ \E r \in RunId : WorkerStartFails(r) \/ WorkerFinishes(r) \/ Relay(r)
         \/ ReconcileCollaborationTasks
         \/ Settled \/ UNCHANGED vars
  PROVE  InvHolds
<1>0. TypeOK /\ UNCHANGED <<op, inputs>>
  BY DEF Inv, CollaborationCancel, WorkerStartFails, WorkerFinishes, Relay, RelayReads,
         RelayFinishes, ReconcileCollaborationTasks, Settled, vars
<1>1. HandlersKeep
  BY <1>0, HandlersUnchanged DEF HandlersKeep
<1>2. ASSUME NEW t \in TaskId, CollaborationCancel(t) PROVE InvHolds
  <2>1. task' = Cancelled({t}) /\ {t} \subseteq {u \in TaskId : task[u].status = "queued"}
    BY <1>0, <1>2, Tables DEF CollaborationCancel, Cancelled, TypeOK
  <2> QED
    BY <1>0, <1>1, <1>2, <2>1, CancelKeeps, RunsUnchanged, Quiet
       DEF CollaborationCancel, TasksKeep, RunsKeep
<1>3. ASSUME NEW r \in RunId, WorkerStartFails(r) \/ WorkerFinishes(r) PROVE InvHolds
  <2>1. PICK outbox \in RunTerminal : run' = [run EXCEPT ![r] = [run[r] EXCEPT !.outbox = outbox]]
    BY <1>3, ConstantsAssumption DEF WorkerStartFails, WorkerFinishes, RunTerminal
  <2> DEFINE row == [run[r] EXCEPT !.outbox = outbox]
  <2>2. RowKept(r, row)
    BY <1>0, <1>3, RunRow DEF WorkerStartFails, WorkerFinishes, RowKept, Run, RunTerminal
  <2> HIDE DEF row
  <2>3. RunsKeep
    BY <1>0, <2>1, <2>2, RowKeeps DEF row
  <2> QED
    BY <1>0, <1>1, <1>3, <2>3, TasksUnchanged, Quiet DEF WorkerStartFails, WorkerFinishes, TasksKeep
<1>4. ASSUME NEW r \in RunId, Relay(r) PROVE InvHolds
  <2>1. RunsKeep
    <3>1. CASE RelayReads(r)
      <4> DEFINE row == [run[r] EXCEPT !.relay = "finishing"]
      <4>1. RowKept(r, row)
        BY <1>0, <3>1, RunRow DEF RelayReads, RowKept, Run
      <4>2. run' = [run EXCEPT ![r] = row]
        BY <3>1 DEF RelayReads
      <4> HIDE DEF row
      <4> QED
        BY <1>0, <4>1, <4>2, RowKeeps
    <3>2. CASE RelayFinishes(r)
      <4>1. PICK status : run' = [[run EXCEPT ![r].status = status] EXCEPT ![r].relay = "off"]
        BY <3>2 DEF RelayFinishes, FinishRun
      <4> DEFINE row == [run[r] EXCEPT !.status = status, !.relay = "off"]
      <4>2. [run EXCEPT ![r].status = status][r] = [run[r] EXCEPT !.status = status]
        BY <1>0, Tables DEF TypeOK
      <4>3. run' = [run EXCEPT ![r] = row]
        BY <4>1, <4>2
      <4>4. RowKept(r, row)
        BY <1>0, RunRow DEF RowKept, Run
      <4> HIDE DEF row
      <4> QED
        BY <1>0, <4>3, <4>4, RowKeeps
    <3> QED
      BY <1>4, <3>1, <3>2 DEF Relay
  <2> QED
    BY <1>0, <1>1, <1>4, <2>1, TasksUnchanged, Quiet DEF Relay, RelayReads, RelayFinishes, TasksKeep
<1>5. CASE ReconcileCollaborationTasks
  <2>1. DOMAIN task' = TaskId /\ task' = Reconciled
    BY <1>5 DEF ReconcileCollaborationTasks, Reconciled
  <2>2. TasksKeep
    <3>1. TaskId' = TaskId
      BY <2>1 DEF TaskId
    <3>2. \A t \in TaskId : TaskKept(t)
      BY <1>0, <2>1, ReconciledKeeps DEF TaskKept, RunTerminal
    <3> QED
      BY <3>1, <3>2 DEF TasksKeep
  <2> QED
    BY <1>0, <1>1, <1>5, <2>2, RunsUnchanged, Quiet DEF ReconcileCollaborationTasks, RunsKeep
<1>6. CASE Settled \/ UNCHANGED vars
  BY <1>0, <1>1, <1>6, RunsUnchanged, TasksUnchanged, Quiet DEF Settled, vars, RunsKeep, TasksKeep
<1> QED
  BY <1>2, <1>3, <1>4, <1>5, <1>6
-----------------------------------------------------------------------------
(* Steps that settle a delivery.                                           *)

\* SetTaskState on a task in flight changes its status and no other row's.
LEMMA SettledRow ==
  ASSUME TypeOK, NEW t \in TaskId, task[t].status = "dispatching",
         NEW status, status # "dispatching", NEW r, task' = SetTaskState(t, status, r)
  PROVE  /\ TaskId' = TaskId
         /\ \A u \in TaskId : task'[u].target = task[u].target
         /\ \A u \in TaskId : u # t => task'[u].status = task[u].status
         /\ task'[t].status = status
<1> DEFINE fallback == task[t].steerFallback \/ (status = "queued" /\ task[t].mode = "steer")
           confirmed == IF status = "running" THEN TRUE
                        ELSE IF status = "queued" THEN FALSE ELSE task[t].deliveryConfirmed
           row == [task[t] EXCEPT !.status = status, !.run = r,
                     !.steerFallback = fallback, !.deliveryConfirmed = confirmed]
<1>1. task \in [TaskId -> Task]
  BY Tables DEF TypeOK
<1>2. task' = [task EXCEPT ![t] = row]
  BY DEF SetTaskState
<1> HIDE DEF fallback, confirmed
<1>3. row.target = task[t].target /\ row.status = status
  BY <1>1 DEF Task
<1> HIDE DEF row
<1>4. DOMAIN task' = TaskId /\ \A u \in TaskId : task'[u] = IF u = t THEN row ELSE task[u]
  BY <1>1, <1>2
<1>5. TaskId' = TaskId
  BY <1>4 DEF TaskId
<1> QED
  BY <1>3, <1>4, <1>5

\* A handler that settles the task it holds and returns keeps the invariants:
\* only a refused steer may put its task back into the queue.
LEMMA DeliverySettles ==
  ASSUME Inv, TypeOK', NEW a \in Agent, op[a].task # 0, Return(a), RunsKeep, UNCHANGED inputs,
         NEW status, status # "dispatching", NEW r, task' = SetTaskState(op[a].task, status, r),
         status = "queued" => op[a].pc = "steerRejected"
  PROVE  InvHolds
<1> DEFINE t == op[a].task
<1>0. /\ TypeOK /\ RelayInv /\ DeliveryInv /\ t \in TaskId /\ task[t].status = "dispatching" /\ task[t].target = a
      /\ \A u \in TaskId : task[u].target \in Agent
      /\ \A s \in RunId : run[s].task \in TaskId \cup {0}
  <2>1. TypeOK /\ RelayInv /\ DeliveryInv /\ t \in TaskId
    BY HandlerType DEF Inv
  <2>2. task[t].status = "dispatching" /\ task[t].target = a
    BY <2>1 DEF DeliveryInv, HandlerHoldsTask
  <2>3. \A u \in TaskId : task[u].target \in Agent
    BY <2>1, Tables DEF TypeOK, Task
  <2>4. \A s \in RunId : run[s].task \in TaskId \cup {0}
    BY <2>1, Tables DEF TypeOK, RunsTyped
  <2> QED
    BY <2>1, <2>2, <2>3, <2>4
<1>1. /\ TaskId' = TaskId
      /\ \A u \in TaskId : task'[u].target = task[u].target
      /\ \A u \in TaskId : u # t => task'[u].status = task[u].status
      /\ task'[t].status = status
  BY <1>0, SettledRow
<1>2. \A b \in Agent : op'[b] = IF b = a THEN Idle ELSE op[b]
  <2>1. TypeOK
    BY <1>0
  <2>2. op' = [op EXCEPT ![a] = Idle]
    BY DEF Return
  <2> QED
    BY <2>1, <2>2, OneHandlerMoves
<1>3. Idle.task = 0 /\ Idle.run = 0 /\ Idle.pc = "idle"
  BY DEF Idle
<1>4. RunId' = RunId /\ \A s \in RunId : RunKept(s) /\ RelayKept(s)
  BY DEF RunsKeep
<1>5. RelayInv'
  <2>1. \A b \in Agent : RunHeldKept(b)
    BY <1>2, <1>3 DEF RunHeldKept
  <2> QED
    BY <1>0, <1>4, <2>1, RelayFrame
<1>6. \A b \in Agent : b # a /\ op[b].task # 0 => op[b].task # t
  BY <1>0 DEF DeliveryInv, HandlerHoldsTask
<1>7. HandlerHoldsTask'
  <2> SUFFICES ASSUME NEW b \in Agent, op'[b].task # 0
               PROVE  /\ op'[b].pc \in StartPC \cup {"claimed", "steering", "steered", "steerRejected", "steerLost"}
                      /\ task'[op'[b].task].status = "dispatching"
                      /\ task'[op'[b].task].target = b
    BY DEF HandlerHoldsTask
  <2>1. op'[b] = op[b] /\ b # a /\ op[b].task \in TaskId /\ op[b].task # t
    BY <1>0, <1>2, <1>3, <1>6, HandlerType
  <2>2. /\ op[b].pc \in StartPC \cup {"claimed", "steering", "steered", "steerRejected", "steerLost"}
        /\ task[op[b].task].status = "dispatching" /\ task[op[b].task].target = b
    BY <1>0, <2>1 DEF DeliveryInv, HandlerHoldsTask
  <2> QED
    BY <1>1, <2>1, <2>2
<1>8. HandlerHoldsRun'
  <2> SUFFICES ASSUME NEW b \in Agent, op'[b].pc \in StartPC
               PROVE  op'[b].run \in RunId /\ run'[op'[b].run].task = op'[b].task
    BY <1>4 DEF HandlerHoldsRun, StartPC
  <2>1. op'[b] = op[b]
    BY <1>2, <1>3 DEF StartPC
  <2>2. op[b].run \in RunId /\ run[op[b].run].task = op[b].task
    BY <1>0, <2>1 DEF DeliveryInv, HandlerHoldsRun
  <2> QED
    BY <1>4, <2>1, <2>2 DEF RunKept
<1>9. ASSUME NEW u \in TaskId, NEW PCs, InFlight(u, PCs)
      PROVE  NextInFlight(u, PCs)
  <2> SUFFICES ASSUME task'[u].status = "dispatching"
               PROVE  op'[task[u].target].task = u /\ op'[task[u].target].pc \in PCs
    BY <1>1 DEF NextInFlight
  <2>1. u # t /\ task[u].status = "dispatching"
    BY <1>1
  <2>2. op[task[u].target].task = u /\ op[task[u].target].pc \in PCs
    BY <1>9, <2>1 DEF InFlight
  <2>3. task[u].target # a
    BY <2>1, <2>2
  <2> QED
    BY <1>0, <1>2, <2>2, <2>3
<1>10. OneOwnRun'
  <2> SUFFICES ASSUME NEW s \in RunId, run'[s].task # 0
               PROVE  /\ run'[s].source = "collaboration"
                      /\ task'[run'[s].task].status # "queued"
                      /\ NextInFlight(run'[s].task, StartPC)
                      /\ run'[s].outbox # "none" => NextInFlight(run'[s].task, SentPC)
                      /\ \A q \in RunId : run'[q].task = run'[s].task => q = s
    BY <1>4, NextFlight DEF OneOwnRun
  <2>1. run'[s].task = run[s].task /\ run[s].task \in TaskId
    BY <1>0, <1>4 DEF RunKept
  <2>2. /\ run[s].source = "collaboration"
        /\ task[run[s].task].status # "queued"
        /\ InFlight(run[s].task, StartPC)
        /\ run[s].outbox # "none" => InFlight(run[s].task, SentPC)
        /\ \A q \in RunId : run[q].task = run[s].task => q = s
    BY <1>0, <2>1 DEF DeliveryInv, OneOwnRun
  <2>3. task'[run[s].task].status # "queued"
    <3>1. CASE run[s].task = t
      <4>1. op[a].pc \in StartPC
        BY <1>0, <2>2, <3>1 DEF InFlight
      <4> QED
        BY <1>1, <3>1, <4>1 DEF StartPC
    <3>2. CASE run[s].task # t
      BY <1>1, <2>1, <2>2, <3>2
    <3> QED
      BY <3>1, <3>2
  <2>4. run'[s].outbox # "none" => run[s].outbox # "none"
    BY <1>4 DEF RunKept
  <2>5. /\ NextInFlight(run[s].task, StartPC)
        /\ run'[s].outbox # "none" => NextInFlight(run[s].task, SentPC)
    BY <1>9, <2>1, <2>2, <2>4
  <2> QED
    BY <1>4, <2>1, <2>2, <2>3, <2>5 DEF RunKept
<1>11. DeliveredIsNotPending'
  <2> SUFFICES ASSUME NEW i \in inputs, i.task # 0
               PROVE  /\ i.task \in TaskId'
                      /\ task'[i.task].status # "queued"
                      /\ NextInFlight(i.task, SentPC \cup {"steered", "steerLost"})
                      /\ \A s \in RunId : run'[s].task = i.task => run'[s].outbox # "starting"
    BY <1>4, NextFlight DEF DeliveredIsNotPending
  <2>1. /\ i.task \in TaskId
        /\ task[i.task].status # "queued"
        /\ InFlight(i.task, SentPC \cup {"steered", "steerLost"})
        /\ \A s \in RunId : run[s].task = i.task => run[s].outbox # "starting"
    BY <1>0 DEF DeliveryInv, DeliveredIsNotPending
  <2>2. task'[i.task].status # "queued"
    <3>1. CASE i.task = t
      <4>1. op[a].pc \in SentPC \cup {"steered", "steerLost"}
        BY <1>0, <2>1, <3>1 DEF InFlight
      <4> QED
        BY <1>1, <3>1, <4>1 DEF SentPC
    <3>2. CASE i.task # t
      BY <1>1, <2>1, <3>2
    <3> QED
      BY <3>1, <3>2
  <2>3. NextInFlight(i.task, SentPC \cup {"steered", "steerLost"})
    BY <1>9, <2>1
  <2> QED
    BY <1>1, <1>4, <2>1, <2>2, <2>3 DEF RunKept
<1>12. AtMostOnceDelivery'
  BY <1>0 DEF AtMostOnceDelivery, DeliveryInv
<1> QED
  BY <1>5, <1>7, <1>8, <1>10, <1>11, <1>12 DEF InvHolds, DeliveryInv

\* SetTaskState without a task matches no row.
LEMMA NoRow ==
  ASSUME TypeOK, NEW status, NEW r
  PROVE  SetTaskState(0, status, r) = task
<1> DEFINE fallback == task[0].steerFallback \/ (status = "queued" /\ task[0].mode = "steer")
           confirmed == IF status = "running" THEN TRUE
                        ELSE IF status = "queued" THEN FALSE ELSE task[0].deliveryConfirmed
           row == [task[0] EXCEPT !.status = status, !.run = r,
                     !.steerFallback = fallback, !.deliveryConfirmed = confirmed]
<1>1. task \in [TaskId -> Task] /\ 0 \notin TaskId
  BY Tables DEF TypeOK
<1>2. \/ SetTaskState(0, status, r) = task
      \/ SetTaskState(0, status, r) = [task EXCEPT ![0] = row]
  BY DEF SetTaskState
<1> HIDE DEF row
<1> QED
  BY <1>1, <1>2

\* The steps that settle a delivery keep the invariants.
LEMMA SettleSteps ==
  ASSUME Inv, TypeOK', NEW a \in Agent,
         \/ SteerAccepted(a) \/ SteerRejected(a) \/ SteerLost(a)
         \/ StartCollaborationFails(a) \/ CollaborationStarted(a) \/ CollaborationFailed(a)
         \/ (StartLost(a) /\ op[a].task # 0)
  PROVE  InvHolds
<1> USE DEF SteerAccepted, SteerRejected, SteerLost, StartCollaborationFails,
            CollaborationStarted, CollaborationFailed, StartLost
<1>0. TypeOK /\ RelayInv /\ DeliveryInv /\ Return(a) /\ UNCHANGED inputs
  BY DEF Inv
<1>1. PICK status \in {"running", "queued", "unknown", "failed"}, r \in {0, op[a].run} :
        /\ task' = SetTaskState(op[a].task, status, r)
        /\ status = "queued" => op[a].pc = "steerRejected"
  <2>1. CASE SteerAccepted(a)
    BY <2>1
  <2>2. CASE SteerRejected(a)
    BY <2>2
  <2>3. CASE SteerLost(a)
    BY <2>3
  <2>4. CASE StartCollaborationFails(a) \/ CollaborationStarted(a) \/ CollaborationFailed(a)
    BY <2>4
  <2>5. CASE StartLost(a) /\ op[a].task # 0
    BY <2>5
  <2> QED
    BY <2>1, <2>2, <2>3, <2>4, <2>5
<1>2. RunsKeep
  <2>1. CASE UNCHANGED run
    BY <2>1, RunsUnchanged DEF RunsKeep
  <2>2. CASE CollaborationStarted(a) \/ (StartLost(a) /\ op[a].task # 0)
    <3>1. op[a].pc \notin {"created", "bound"}
      BY <2>2
    <3>2. run' = [run EXCEPT ![op[a].run] = [run[op[a].run] EXCEPT !.relay = StartRelay(run[op[a].run].relay)]]
      BY <2>2
    <3> QED
      BY <3>1, <3>2, RelayStarts
  <2> QED
    BY <2>1, <2>2
<1>3. CASE op[a].task # 0
  BY <1>0, <1>1, <1>2, <1>3, DeliverySettles
<1>4. CASE op[a].task = 0
  <2>1. HandlersKeep
    BY <1>0, <1>4, IdleHands DEF HandlersKeep
  <2>2. TasksKeep
    BY <1>0, <1>1, <1>4, NoRow, TasksUnchanged DEF TasksKeep
  <2> QED
    BY <1>0, <1>2, <2>1, <2>2, Quiet
<1> QED
  BY <1>3, <1>4
-----------------------------------------------------------------------------
(* Steps that claim or steer a task.                                       *)

\* What TypeOK says of the rows that the other facts refer to.
LEMMA RowTypes ==
  ASSUME TypeOK
  PROVE  /\ \A u \in TaskId : task[u] \in Task /\ task[u].target \in Agent
         /\ \A s \in RunId : run[s] \in Run /\ run[s].agent \in Agent /\ run[s].task \in TaskId \cup {0}
         /\ 0 \notin TaskId /\ 0 \notin RunId
         /\ TaskId = 1..Len(task) /\ RunId = 1..Len(run)
         /\ Len(task) \in Nat /\ Len(run) \in Nat
         /\ task \in [TaskId -> Task] /\ run \in [RunId -> Run]
<1>1. /\ TaskId = 1..Len(task) /\ RunId = 1..Len(run)
      /\ Len(task) \in Nat /\ Len(run) \in Nat
      /\ task \in [TaskId -> Task] /\ run \in [RunId -> Run]
  BY Tables DEF TypeOK
<1>2. \A s \in RunId : run[s].task \in TaskId \cup {0}
  BY <1>1 DEF TypeOK, RunsTyped
<1>3. \A u \in TaskId : task[u].target \in Agent
  BY <1>1 DEF Task
<1>4. \A s \in RunId : run[s].agent \in Agent
  BY <1>1 DEF Run
<1> QED
  BY <1>1, <1>2, <1>3, <1>4, SMTT(30)

\* Claiming a queued task keeps the invariants: the handler was free, and what is
\* queued has neither been delivered nor got a run.
LEMMA ClaimSteps ==
  ASSUME Inv, TypeOK', NEW a \in Agent, SelectSteer(a) \/ SelectStart(a)
  PROVE  InvHolds
<1>0. TypeOK /\ RelayInv /\ DeliveryInv /\ UNCHANGED <<run, inputs>> /\ op[a].pc = "select"
  BY DEF Inv, SelectSteer, SelectStart
<1>1. op[a].task = 0
  BY <1>0, NoTask DEF DeliveryPC, StartPC
<1>2. PICK t \in Queued(a), r \in {0, ActiveRun(a)}, pc \in {"steering", "claimed"}, s \in {op[a].run, ActiveRun(a)} :
        /\ task' = [task EXCEPT ![t] = [task[t] EXCEPT !.status = "dispatching", !.run = r]]
        /\ op' = [op EXCEPT ![a] = [op[a] EXCEPT !.pc = pc, !.task = t, !.run = s]]
  <2>1. CASE SelectSteer(a)
    <3>1. PICK t \in Steerable(a) :
            /\ task' = [task EXCEPT ![t].status = "dispatching", ![t].run = ActiveRun(a)]
            /\ op' = [op EXCEPT ![a].pc = "steering", ![a].task = t, ![a].run = ActiveRun(a)]
      BY <2>1 DEF SelectSteer
    <3>2. /\ t \in Queued(a) /\ ActiveRun(a) \in {0, ActiveRun(a)}
          /\ ActiveRun(a) \in {op[a].run, ActiveRun(a)}
          /\ "steering" \in {"steering", "claimed"}
      BY DEF Steerable
    <3>3. /\ task' = [task EXCEPT ![t] = [task[t] EXCEPT !.status = "dispatching", !.run = ActiveRun(a)]]
          /\ op' = [op EXCEPT ![a] = [op[a] EXCEPT !.pc = "steering", !.task = t, !.run = ActiveRun(a)]]
      BY <3>1
    <3> QED
      BY <3>2, <3>3
  <2>2. CASE SelectStart(a)
    <3>1. PICK t \in Queued(a) :
            /\ task' = [task EXCEPT ![t].status = "dispatching", ![t].run = 0]
            /\ op' = [op EXCEPT ![a].pc = "claimed", ![a].task = t]
      BY <2>2 DEF SelectStart
    <3>2. [op[a] EXCEPT !.pc = "claimed", !.task = t, !.run = op[a].run]
            = [op[a] EXCEPT !.pc = "claimed", !.task = t]
      BY <1>0, HandlerType DEF Operation
    <3>3. /\ 0 \in {0, ActiveRun(a)} /\ op[a].run \in {op[a].run, ActiveRun(a)}
          /\ "claimed" \in {"steering", "claimed"}
      OBVIOUS
    <3>4. op' = [op EXCEPT ![a] = [op[a] EXCEPT !.pc = "claimed", !.task = t, !.run = op[a].run]]
      BY <3>1, <3>2
    <3>5. task' = [task EXCEPT ![t] = [task[t] EXCEPT !.status = "dispatching", !.run = 0]]
      BY <3>1
    <3> QED
      BY <3>3, <3>4, <3>5
  <2> QED
    BY <2>1, <2>2
<1> DEFINE row == [task[t] EXCEPT !.status = "dispatching", !.run = r]
           h == [op[a] EXCEPT !.pc = pc, !.task = t, !.run = s]
<1>3. t \in TaskId /\ task[t].target = a /\ task[t].status = "queued"
  BY DEF Queued
<1>4. row.target = a /\ row.status = "dispatching"
  BY <1>0, <1>3, RowTypes DEF Task
<1>5. h.pc = pc /\ h.task = t /\ h.run = s
  BY <1>0, HandlerType DEF Operation
<1>6. task' = [task EXCEPT ![t] = row] /\ op' = [op EXCEPT ![a] = h]
  BY <1>2
<1> HIDE DEF row, h
<1>7. /\ TaskId' = TaskId
      /\ \A u \in TaskId : task'[u] = IF u = t THEN row ELSE task[u]
  BY <1>0, <1>6, RowTypes DEF TaskId
<1>8. \A b \in Agent : op'[b] = IF b = a THEN h ELSE op[b]
  <2>1. TypeOK
    BY <1>0
  <2> QED
    BY <1>6, <2>1, OneHandlerMoves
<1>9. RelayInv'
  <2>1. s = op[a].run \/ s = 0 \/ (s \in RunId /\ run[s].agent = a)
    BY ActiveRunType
  <2>2. \A b \in Agent : RunHeldKept(b)
    BY <1>5, <1>8, <2>1 DEF RunHeldKept
  <2> QED
    BY <1>0, <2>2, RunsUnchanged, RelayFrame
<1>10. HandlerHoldsTask'
  <2> SUFFICES ASSUME NEW b \in Agent, op'[b].task # 0
               PROVE  /\ op'[b].pc \in StartPC \cup {"claimed", "steering", "steered", "steerRejected", "steerLost"}
                      /\ task'[op'[b].task].status = "dispatching"
                      /\ task'[op'[b].task].target = b
    BY DEF HandlerHoldsTask
  <2>1. CASE b = a
    BY <1>3, <1>4, <1>5, <1>7, <1>8, <2>1
  <2>2. CASE b # a
    <3>1. op'[b] = op[b] /\ op[b].task \in TaskId
      BY <1>0, <1>8, <2>2, HandlerType
    <3>2. /\ op[b].pc \in StartPC \cup {"claimed", "steering", "steered", "steerRejected", "steerLost"}
          /\ task[op[b].task].status = "dispatching" /\ task[op[b].task].target = b
      BY <1>0, <3>1 DEF DeliveryInv, HandlerHoldsTask
    <3> QED
      BY <1>3, <1>7, <3>1, <3>2
  <2> QED
    BY <2>1, <2>2
<1>11. HandlerHoldsRun'
  <2> SUFFICES ASSUME NEW b \in Agent, op'[b].pc \in StartPC
               PROVE  op'[b].run \in RunId /\ run[op'[b].run].task = op'[b].task
    BY <1>0, RunsUnchanged DEF HandlerHoldsRun, StartPC
  <2>1. op'[b] = op[b]
    BY <1>5, <1>8 DEF StartPC
  <2> QED
    BY <1>0, <2>1 DEF DeliveryInv, HandlerHoldsRun
<1>12. ASSUME NEW u \in TaskId, u # t, NEW PCs, InFlight(u, PCs)
       PROVE  NextInFlight(u, PCs) /\ task'[u].status = task[u].status
  <2>1. task'[u] = task[u]
    BY <1>7, <1>12
  <2> SUFFICES ASSUME task[u].status = "dispatching"
               PROVE  op'[task[u].target].task = u /\ op'[task[u].target].pc \in PCs
    BY <2>1 DEF NextInFlight
  <2>2. op[task[u].target].task = u /\ op[task[u].target].pc \in PCs
    BY <1>12 DEF InFlight
  <2>3. task[u].target # a /\ task[u].target \in Agent
    BY <1>0, <1>1, <2>2, RowTypes
  <2> QED
    BY <1>8, <2>2, <2>3
<1>13. OneOwnRun'
  <2> SUFFICES ASSUME NEW q \in RunId, run[q].task # 0
               PROVE  /\ run[q].source = "collaboration"
                      /\ task'[run[q].task].status # "queued"
                      /\ NextInFlight(run[q].task, StartPC)
                      /\ run[q].outbox # "none" => NextInFlight(run[q].task, SentPC)
                      /\ \A p \in RunId : run[p].task = run[q].task => p = q
    BY <1>0, RunsUnchanged, NextFlight DEF OneOwnRun
  <2>1. run[q].task \in TaskId
    BY <1>0, RowTypes
  <2>2. /\ run[q].source = "collaboration"
        /\ task[run[q].task].status # "queued"
        /\ InFlight(run[q].task, StartPC)
        /\ run[q].outbox # "none" => InFlight(run[q].task, SentPC)
        /\ \A p \in RunId : run[p].task = run[q].task => p = q
    BY <1>0 DEF DeliveryInv, OneOwnRun
  <2>3. run[q].task # t
    BY <1>3, <2>2
  <2> QED
    BY <1>12, <2>1, <2>2, <2>3
<1>14. DeliveredIsNotPending'
  <2> SUFFICES ASSUME NEW i \in inputs, i.task # 0
               PROVE  /\ i.task \in TaskId'
                      /\ task'[i.task].status # "queued"
                      /\ NextInFlight(i.task, SentPC \cup {"steered", "steerLost"})
                      /\ \A q \in RunId : run[q].task = i.task => run[q].outbox # "starting"
    BY <1>0, RunsUnchanged, NextFlight DEF DeliveredIsNotPending
  <2>1. /\ i.task \in TaskId
        /\ task[i.task].status # "queued"
        /\ InFlight(i.task, SentPC \cup {"steered", "steerLost"})
        /\ \A q \in RunId : run[q].task = i.task => run[q].outbox # "starting"
    BY <1>0 DEF DeliveryInv, DeliveredIsNotPending
  <2>2. i.task # t
    BY <1>3, <2>1
  <2> QED
    BY <1>7, <1>12, <2>1, <2>2
<1>15. AtMostOnceDelivery'
  BY <1>0 DEF AtMostOnceDelivery, DeliveryInv
<1> QED
  BY <1>9, <1>10, <1>11, <1>13, <1>14, <1>15 DEF InvHolds, DeliveryInv

\* Steering a task into the active turn keeps the invariants: the task had not
\* been delivered and has no run of its own.
LEMMA SteerSteps ==
  ASSUME Inv, TypeOK', NEW a \in Agent, SteerTurn(a)
  PROVE  InvHolds
<1>0. TypeOK /\ RelayInv /\ DeliveryInv /\ UNCHANGED <<task, run>> /\ op[a].pc = "steering"
  BY DEF Inv, SteerTurn
<1> DEFINE t == op[a].task
           input == [task |-> t, run |-> op[a].run, how |-> "steer"]
<1>1. PICK pc \in {"steered", "steerLost", "steerRejected"} :
        /\ Step(a, pc)
        /\ \/ inputs' = inputs
           \/ inputs' = inputs \cup {input} /\ pc # "steerRejected"
  BY DEF SteerTurn
<1> DEFINE h == [op[a] EXCEPT !.pc = pc]
<1>2. h.task = t /\ h.pc = pc /\ h.run = op[a].run
  BY <1>0, HandlerType DEF Operation
<1>3. op' = [op EXCEPT ![a] = h]
  BY <1>1 DEF Step
<1>4. input.task = t
  OBVIOUS
<1> HIDE DEF h, input
<1>5. \A b \in Agent : op'[b] = IF b = a THEN h ELSE op[b]
  <2>1. TypeOK
    BY <1>0
  <2> QED
    BY <1>3, <2>1, OneHandlerMoves
<1>6. RelayInv'
  <2>1. \A b \in Agent : RunHeldKept(b)
    BY <1>1, <1>2, <1>5 DEF RunHeldKept
  <2> QED
    BY <1>0, <2>1, RunsUnchanged, RelayFrame
<1>7. HandlerHoldsTask'
  BY <1>0, <1>1, <1>2, <1>5 DEF HandlerHoldsTask, DeliveryInv
<1>8. HandlerHoldsRun'
  <2> SUFFICES ASSUME NEW b \in Agent, op'[b].pc \in StartPC
               PROVE  op'[b].run \in RunId /\ run[op'[b].run].task = op'[b].task
    BY <1>0, RunsUnchanged DEF HandlerHoldsRun, StartPC
  <2>1. op'[b] = op[b]
    BY <1>1, <1>2, <1>5 DEF StartPC
  <2> QED
    BY <1>0, <2>1 DEF DeliveryInv, HandlerHoldsRun
<1>9. ASSUME NEW u \in TaskId, NEW PCs, InFlight(u, PCs), op[a].pc \notin PCs
      PROVE  NextInFlight(u, PCs)
  <2>1. task' = task /\ task[u].target \in Agent
    BY <1>0, RowTypes
  <2> SUFFICES ASSUME task[u].status = "dispatching"
               PROVE  op'[task[u].target].task = u /\ op'[task[u].target].pc \in PCs
    BY <2>1 DEF NextInFlight
  <2>2. op[task[u].target].task = u /\ op[task[u].target].pc \in PCs
    BY <1>9 DEF InFlight
  <2>3. task[u].target # a
    BY <1>9, <2>2
  <2> QED
    BY <1>5, <2>1, <2>2, <2>3
<1>10. OneOwnRun'
  <2> SUFFICES ASSUME NEW q \in RunId, run[q].task # 0
               PROVE  /\ run[q].source = "collaboration"
                      /\ task[run[q].task].status # "queued"
                      /\ NextInFlight(run[q].task, StartPC)
                      /\ run[q].outbox # "none" => NextInFlight(run[q].task, SentPC)
                      /\ \A p \in RunId : run[p].task = run[q].task => p = q
    BY <1>0, RunsUnchanged, NextFlight DEF OneOwnRun
  <2>1. run[q].task \in TaskId /\ op[a].pc \notin StartPC /\ op[a].pc \notin SentPC
    BY <1>0, RowTypes DEF StartPC, SentPC
  <2> QED
    BY <1>0, <1>9, <2>1 DEF DeliveryInv, OneOwnRun
<1>11. ASSUME NEW i \in inputs, i.task # 0
       PROVE  /\ i.task \in TaskId /\ i.task # t
              /\ task[i.task].status # "queued"
              /\ NextInFlight(i.task, SentPC \cup {"steered", "steerLost"})
              /\ \A q \in RunId : run[q].task = i.task => run[q].outbox # "starting"
  <2>1. /\ i.task \in TaskId
        /\ task[i.task].status # "queued"
        /\ InFlight(i.task, SentPC \cup {"steered", "steerLost"})
        /\ \A q \in RunId : run[q].task = i.task => run[q].outbox # "starting"
    BY <1>0, <1>11 DEF DeliveryInv, DeliveredIsNotPending
  <2>2. op[a].pc \notin SentPC \cup {"steered", "steerLost"}
    BY <1>0 DEF SentPC
  <2>3. i.task # t
    <3> SUFFICES ASSUME i.task = t PROVE FALSE
      OBVIOUS
    <3>1. task[t].status = "dispatching" /\ task[t].target = a
      BY <1>0, <1>11 DEF DeliveryInv, HandlerHoldsTask
    <3> QED
      BY <2>1, <2>2, <3>1 DEF InFlight
  <2> QED
    BY <1>9, <2>1, <2>2, <2>3
<1>12. ASSUME t # 0, pc # "steerRejected"
       PROVE  /\ t \in TaskId
              /\ task[t].status # "queued"
              /\ NextInFlight(t, SentPC \cup {"steered", "steerLost"})
              /\ \A q \in RunId : run[q].task = t => run[q].outbox # "starting"
  <2>1. t \in TaskId /\ task[t].status = "dispatching" /\ task[t].target = a
    BY <1>0, <1>12, HandlerType DEF DeliveryInv, HandlerHoldsTask
  <2>2. NextInFlight(t, SentPC \cup {"steered", "steerLost"})
    BY <1>0, <1>1, <1>2, <1>5, <1>12, <2>1 DEF NextInFlight
  <2>3. ASSUME NEW q \in RunId, run[q].task = t PROVE FALSE
    <3>1. op[a].pc \in StartPC
      BY <1>0, <1>12, <2>1, <2>3 DEF DeliveryInv, OneOwnRun, InFlight
    <3> QED
      BY <1>0, <3>1 DEF StartPC
  <2> QED
    BY <2>1, <2>2, <2>3
<1>13. DeliveredIsNotPending'
  <2> SUFFICES ASSUME NEW i \in inputs', i.task # 0
               PROVE  /\ i.task \in TaskId
                      /\ task[i.task].status # "queued"
                      /\ NextInFlight(i.task, SentPC \cup {"steered", "steerLost"})
                      /\ \A q \in RunId : run[q].task = i.task => run[q].outbox # "starting"
    BY <1>0, RunsUnchanged, NextFlight DEF DeliveredIsNotPending, TaskId
  <2> QED
    BY <1>1, <1>4, <1>11, <1>12
<1>14. AtMostOnceDelivery'
  <2> SUFFICES ASSUME NEW i \in inputs', NEW j \in inputs', i.task = j.task, i.task # 0
               PROVE  i = j
    BY DEF AtMostOnceDelivery
  <2>1. CASE i \in inputs /\ j \in inputs
    BY <1>0, <2>1 DEF AtMostOnceDelivery, DeliveryInv
  <2>2. CASE i \notin inputs \/ j \notin inputs
    BY <1>1, <1>4, <1>11, <2>2
  <2> QED
    BY <2>1, <2>2
<1> QED
  BY <1>6, <1>7, <1>8, <1>10, <1>13, <1>14 DEF InvHolds, DeliveryInv
-----------------------------------------------------------------------------
(* Steps that create the run of a task and request its start.              *)

\* A delivery stays in flight while another handler moves.
LEMMA OthersStayInFlight ==
  ASSUME TypeOK, UNCHANGED task, NEW a \in Agent, \A b \in Agent : b # a => op'[b] = op[b],
         NEW u \in TaskId, NEW PCs, InFlight(u, PCs), op[a].pc \notin PCs
  PROVE  NextInFlight(u, PCs)
<1>1. task' = task /\ task[u].target \in Agent
  BY RowTypes
<1> SUFFICES ASSUME task[u].status = "dispatching"
             PROVE  op'[task[u].target].task = u /\ op'[task[u].target].pc \in PCs
  BY <1>1 DEF NextInFlight
<1>2. op[task[u].target].task = u /\ op[task[u].target].pc \in PCs
  BY DEF InFlight
<1>3. task[u].target # a
  BY <1>2
<1> QED
  BY <1>1, <1>2, <1>3

\* A new run that enters the table with the handler that will start it keeps
\* the invariants: a claimed task had no run.
LEMMA RunEnters ==
  ASSUME Inv, TypeOK', NEW a \in Agent, op[a].pc \in {"claimed", "idle"}, NEW n,
         n \notin RunId, RunId' = RunId \cup {n}, \A q \in RunId : run'[q] = run[q],
         \A b \in Agent : b # a => op'[b] = op[b],
         run'[n].agent = a, run'[n].task = op[a].task,
         run'[n].relay = "off", run'[n].outbox = "none",
         op[a].task # 0 => run'[n].source = "collaboration",
         op'[a].pc \in {"created", "bound"}, op'[a].task = op[a].task, op'[a].run = n,
         UNCHANGED <<task, inputs>>
  PROVE  InvHolds
<1> DEFINE t == op[a].task
           pc == op'[a].pc
           new == run'[n]
           h == op'[a]
<1>0. TypeOK /\ RelayInv /\ DeliveryInv /\ pc \in {"created", "bound"}
  BY DEF Inv
<1>1. /\ new.agent = a /\ new.task = t /\ new.relay = "off" /\ new.outbox = "none"
      /\ t # 0 => new.source = "collaboration"
  OBVIOUS
<1>2. h.pc = pc /\ h.task = t /\ h.run = n
  OBVIOUS
<1>4. /\ RunId' = RunId \cup {n} /\ n \notin RunId
      /\ \A q \in RunId : run'[q] = run[q]
      /\ run'[n] = new
  OBVIOUS
<1>5. \A b \in Agent : op'[b] = IF b = a THEN h ELSE op[b]
  OBVIOUS
<1> HIDE DEF pc, new, h
<1>6. RelayInv'
  <2>1. RelayHoldsOutcome'
    BY <1>0, <1>1, <1>4 DEF RelayInv, RelayHoldsOutcome
  <2>2. HandlerHoldsOwnRun'
    <3> SUFFICES ASSUME NEW b \in Agent, op'[b].run # 0 PROVE run'[op'[b].run].agent = b
      BY DEF HandlerHoldsOwnRun
    <3>1. CASE b = a
      BY <1>1, <1>2, <1>4, <1>5, <3>1
    <3>2. CASE b # a
      <4>1. op'[b] = op[b] /\ op[b].run \in RunId
        BY <1>0, <1>5, <3>2, HandlerType
      <4> QED
        BY <1>0, <1>4, <4>1 DEF RelayInv, HandlerHoldsOwnRun
    <3> QED
      BY <3>1, <3>2
  <2>3. UnrequestedIsUnwatched'
    BY <1>0, <1>1, <1>2, <1>4, <1>5 DEF RelayInv, UnrequestedIsUnwatched
  <2> QED
    BY <2>1, <2>2, <2>3 DEF RelayInv
<1>7. HandlerHoldsTask'
  <2> SUFFICES ASSUME NEW b \in Agent, op'[b].task # 0
               PROVE  /\ op'[b].pc \in StartPC \cup {"claimed", "steering", "steered", "steerRejected", "steerLost"}
                      /\ task'[op'[b].task].status = "dispatching"
                      /\ task'[op'[b].task].target = b
    BY DEF HandlerHoldsTask
  <2>1. op'[b].task = op[b].task /\ (op'[b].pc = op[b].pc \/ op'[b].pc = pc)
    BY <1>2, <1>5
  <2> QED
    BY <1>0, <2>1 DEF DeliveryInv, HandlerHoldsTask, StartPC
<1>8. HandlerHoldsRun'
  <2> SUFFICES ASSUME NEW b \in Agent, op'[b].pc \in StartPC
               PROVE  op'[b].run \in RunId' /\ run'[op'[b].run].task = op'[b].task
    BY DEF HandlerHoldsRun, StartPC
  <2>1. CASE b = a
    BY <1>1, <1>2, <1>4, <1>5, <2>1
  <2>2. CASE b # a
    <3>1. op'[b] = op[b] /\ op[b].run \in RunId /\ run[op[b].run].task = op[b].task
      BY <1>0, <1>5, <2>2 DEF DeliveryInv, HandlerHoldsRun
    <3> QED
      BY <1>4, <3>1
  <2> QED
    BY <2>1, <2>2
<1>9. op[a].pc \notin StartPC /\ op[a].pc \notin SentPC \cup {"steered", "steerLost"} /\ op[a].pc \notin SentPC
  BY DEF StartPC, SentPC
<1>10. \A b \in Agent : b # a => op'[b] = op[b]
  BY <1>5
<1>11. ASSUME t # 0
       PROVE  /\ t \in TaskId /\ task[t].status = "dispatching" /\ task[t].target = a
              /\ NextInFlight(t, StartPC)
              /\ \A q \in RunId : run[q].task # t
  <2>1. t \in TaskId /\ task[t].status = "dispatching" /\ task[t].target = a
    BY <1>0, <1>11, HandlerType DEF DeliveryInv, HandlerHoldsTask
  <2>2. NextInFlight(t, StartPC)
    BY <1>2, <1>5, <2>1 DEF NextInFlight, StartPC
  <2>3. \A q \in RunId : run[q].task # t
    BY <1>0, <1>9, <1>11, <2>1 DEF DeliveryInv, OneOwnRun, InFlight
  <2> QED
    BY <2>1, <2>2, <2>3
<1>12. OneOwnRun'
  <2> SUFFICES ASSUME NEW q \in RunId', run'[q].task # 0
               PROVE  /\ run'[q].source = "collaboration"
                      /\ task[run'[q].task].status # "queued"
                      /\ NextInFlight(run'[q].task, StartPC)
                      /\ run'[q].outbox # "none" => NextInFlight(run'[q].task, SentPC)
                      /\ \A p \in RunId' : run'[p].task = run'[q].task => p = q
    BY NextFlight DEF OneOwnRun
  <2>1. CASE q = n
    BY <1>1, <1>4, <1>11, <2>1
  <2>2. CASE q # n
    <3>1. q \in RunId /\ run'[q] = run[q] /\ run[q].task \in TaskId
      BY <1>0, <1>4, <2>2, RowTypes
    <3>2. /\ run[q].source = "collaboration"
          /\ task[run[q].task].status # "queued"
          /\ InFlight(run[q].task, StartPC)
          /\ run[q].outbox # "none" => InFlight(run[q].task, SentPC)
          /\ \A p \in RunId : run[p].task = run[q].task => p = q
      BY <1>0, <3>1 DEF DeliveryInv, OneOwnRun
    <3>3. /\ NextInFlight(run[q].task, StartPC)
          /\ run[q].outbox # "none" => NextInFlight(run[q].task, SentPC)
      BY <1>0, <1>9, <1>10, <3>1, <3>2, OthersStayInFlight
    <3>4. run'[n].task # run[q].task
      BY <1>1, <1>4, <1>11, <3>1
    <3> QED
      BY <1>4, <3>1, <3>2, <3>3, <3>4
  <2> QED
    BY <2>1, <2>2
<1>13. DeliveredIsNotPending'
  <2> SUFFICES ASSUME NEW i \in inputs, i.task # 0
               PROVE  /\ i.task \in TaskId
                      /\ task[i.task].status # "queued"
                      /\ NextInFlight(i.task, SentPC \cup {"steered", "steerLost"})
                      /\ \A q \in RunId' : run'[q].task = i.task => run'[q].outbox # "starting"
    BY NextFlight DEF DeliveredIsNotPending, TaskId
  <2>1. /\ i.task \in TaskId
        /\ task[i.task].status # "queued"
        /\ InFlight(i.task, SentPC \cup {"steered", "steerLost"})
        /\ \A q \in RunId : run[q].task = i.task => run[q].outbox # "starting"
    BY <1>0 DEF DeliveryInv, DeliveredIsNotPending
  <2>2. NextInFlight(i.task, SentPC \cup {"steered", "steerLost"})
    BY <1>0, <1>9, <1>10, <2>1, OthersStayInFlight
  <2> QED
    BY <1>1, <1>4, <2>1, <2>2
<1>14. AtMostOnceDelivery'
  BY <1>0 DEF AtMostOnceDelivery, DeliveryInv
<1> QED
  BY <1>6, <1>7, <1>8, <1>12, <1>13, <1>14 DEF InvHolds, DeliveryInv

\* CreateRun as an INSERT, in the hands of the handler of a.
LEMMA RunBegins ==
  ASSUME Inv, TypeOK', NEW a \in Agent, op[a].pc \in {"claimed", "idle"},
         NEW c, NEW source, NEW pc \in {"created", "bound"},
         op[a].task # 0 => source = "collaboration",
         run' = Append(run, NewRun(a, c, source, op[a].task)),
         op' = [op EXCEPT ![a].pc = pc, ![a].run = Len(run) + 1],
         UNCHANGED <<task, inputs>>
  PROVE  InvHolds
<1>0. TypeOK /\ RelayInv /\ DeliveryInv
  BY DEF Inv
<1> DEFINE t == op[a].task
           n == Len(run) + 1
           new == NewRun(a, c, source, t)
           h == [op[a] EXCEPT !.pc = pc, !.run = n]
<1>1. /\ new.agent = a /\ new.task = t
      /\ new.relay = "off" /\ new.outbox = "none"
      /\ t # 0 => new.source = "collaboration"
  BY DEF NewRun
<1>2. h.pc = pc /\ h.task = t /\ h.run = n
  BY <1>0, HandlerType DEF Operation
<1>3. run' = Append(run, new) /\ op' = [op EXCEPT ![a] = h]
  OBVIOUS
<1> HIDE DEF new, h
<1>4. /\ RunId' = RunId \cup {n} /\ n \notin RunId
      /\ \A q \in RunId : run'[q] = run[q]
      /\ run'[n] = new
  <2>1. RunId = 1..Len(run) /\ Len(run) \in Nat
    BY <1>0, RowTypes
  <2>2. run \in Seq(Run \cup {new}) /\ new \in Run \cup {new}
    <3>1. run \in Seq(Run)
      BY <1>0 DEF TypeOK, RunsTyped
    <3>2. run \in [1..Len(run) -> Run \cup {new}]
      BY <2>1, <3>1, <1>0, RowTypes
    <3> QED
      BY <2>1, <3>2, FunctionIsSequence
  <2> HIDE DEF new
  <2>3. /\ run' \in Seq(Run \cup {new}) /\ Len(run') = Len(run) + 1
        /\ \A q \in 1..Len(run) : run'[q] = run[q]
        /\ run'[Len(run) + 1] = new
    <3> DEFINE S == Run \cup {new}
    <3>1. run \in Seq(S) /\ new \in S
      BY <2>2
    <3> HIDE DEF S
    <3>2. /\ run' \in Seq(S) /\ Len(run') = Len(run) + 1
          /\ \A q \in 1..Len(run) : run'[q] = run[q]
          /\ run'[Len(run) + 1] = new
      BY <1>3, <3>1, AppendProperties
    <3> QED
      BY <3>2 DEF S
  <2>4. RunId' = 1..(Len(run) + 1)
    BY <2>3, LenProperties DEF RunId
  <2> QED
    BY <2>1, <2>3, <2>4
<1>5. \A b \in Agent : op'[b] = IF b = a THEN h ELSE op[b]
  <2>1. TypeOK
    BY <1>0
  <2> QED
    BY <1>3, <2>1, OneHandlerMoves
<1> HIDE DEF n
<1> QED
  <2>1. /\ run'[n].agent = a /\ run'[n].task = op[a].task
        /\ run'[n].relay = "off" /\ run'[n].outbox = "none"
        /\ op[a].task # 0 => run'[n].source = "collaboration"
    BY <1>1, <1>4
  <2>2. /\ op'[a].pc \in {"created", "bound"} /\ op'[a].task = op[a].task /\ op'[a].run = n
        /\ \A b \in Agent : b # a => op'[b] = op[b]
    BY <1>2, <1>5
  <2> QED
    BY <1>4, <2>1, <2>2, RunEnters

\* The steps that create a run keep the invariants.
LEMMA BeginSteps ==
  ASSUME Inv, TypeOK', NEW a \in Agent, CreateRun(a) \/ Message(a) \/ RunDueSchedule(a)
  PROVE  InvHolds
<1>1. CASE CreateRun(a)
  BY <1>1, RunBegins DEF CreateRun
<1>2. CASE Message(a) \/ RunDueSchedule(a)
  <2>1. op[a].pc = "idle" /\ op[a].task = 0
    BY <1>2 DEF Message, RunDueSchedule, BeginUserRun, Idle
  <2>2. PICK source, c : /\ run' = Append(run, NewRun(a, c, source, 0))
                         /\ op' = [op EXCEPT ![a].pc = "bound", ![a].run = Len(run) + 1]
                         /\ UNCHANGED <<task, inputs>>
    BY <1>2 DEF Message, RunDueSchedule, BeginUserRun
  <2> QED
    BY <2>1, <2>2, RunBegins
<1> QED
  BY <1>1, <1>2

\* The request to start a turn keeps the invariants: the task of the run had not
\* been delivered.
LEMMA CallSteps ==
  ASSUME Inv, TypeOK', NEW a \in Agent, CallStartTurn(a)
  PROVE  InvHolds
<1>0. /\ TypeOK /\ RelayInv /\ DeliveryInv /\ op[a].pc = "bound" /\ UNCHANGED <<task, inputs>>
      /\ op[a].pc \in StartPC
  BY DEF Inv, CallStartTurn, StartPC
<1>1. CASE UNCHANGED run
  BY <1>1, StartQuiet
<1>2. CASE run' # run
  <2> DEFINE r == op[a].run
             t == op[a].task
             row == [run[r] EXCEPT !.outbox = "starting"]
  <2>1. Step(a, "calling") /\ run' = [run EXCEPT ![r] = row]
    BY <1>2 DEF CallStartTurn
  <2>2. /\ r \in RunId /\ run[r].task = t /\ run[r].relay = "off"
    BY <1>0 DEF DeliveryInv, HandlerHoldsRun, RelayInv, UnrequestedIsUnwatched
  <2>3. /\ row.agent = run[r].agent /\ row.task = t /\ row.source = run[r].source
        /\ row.relay = "off" /\ row.outbox = "starting"
    BY <1>0, <2>2, RowTypes DEF Run
  <2> HIDE DEF row
  <2>4. /\ RunId' = RunId
        /\ \A q \in RunId : run'[q] = IF q = r THEN row ELSE run[q]
    BY <1>0, <2>1, RowTypes DEF RunId
  <2>5. HandlersKeep
    BY <1>0, <2>1, StartMoves DEF StartPC, SentPC
  <2> DEFINE h == [op[a] EXCEPT !.pc = "calling"]
  <2>6. h.pc = "calling" /\ h.task = t /\ h.run = r
    BY <1>0, HandlerType DEF Operation
  <2>7. \A b \in Agent : op'[b] = IF b = a THEN h ELSE op[b]
    <3>1. TypeOK
      BY <1>0
    <3>2. op' = [op EXCEPT ![a] = h]
      BY <2>1 DEF Step
    <3> QED
      BY <3>1, <3>2, OneHandlerMoves
  <2> HIDE DEF h
  <2>8. RelayInv'
    <3>1. \A q \in RunId : RelayKept(q)
      BY <2>2, <2>3, <2>4 DEF RelayKept
    <3> QED
      BY <1>0, <2>4, <2>5, <3>1, RelayFrame DEF HandlersKeep
  <2>9. HandlerHoldsTask'
    <3> SUFFICES ASSUME NEW b \in Agent, op'[b].task # 0
                 PROVE  /\ op'[b].pc \in StartPC \cup {"claimed", "steering", "steered", "steerRejected", "steerLost"}
                        /\ task'[op'[b].task].status = "dispatching"
                        /\ task'[op'[b].task].target = b
      BY DEF HandlerHoldsTask
    <3>1. op'[b].task = op[b].task /\ (op'[b].pc = op[b].pc \/ op'[b].pc = "calling")
      BY <2>6, <2>7
    <3> QED
      BY <1>0, <3>1 DEF DeliveryInv, HandlerHoldsTask, StartPC
  <2>10. HandlerHoldsRun'
    <3> SUFFICES ASSUME NEW b \in Agent, op'[b].pc \in StartPC
                 PROVE  op'[b].run \in RunId /\ run'[op'[b].run].task = op'[b].task
      BY <2>4 DEF HandlerHoldsRun, StartPC
    <3>1. op[b].pc \in StartPC /\ op'[b].run = op[b].run /\ op'[b].task = op[b].task
      BY <1>0, <2>6, <2>7
    <3>2. op[b].run \in RunId /\ run[op[b].run].task = op[b].task
      BY <1>0, <3>1 DEF DeliveryInv, HandlerHoldsRun
    <3> QED
      BY <2>2, <2>3, <2>4, <3>1, <3>2
  <2>11. ASSUME NEW u \in TaskId, NEW PCs, InFlight(u, PCs), "calling" \in PCs
         PROVE  NextInFlight(u, PCs)
    <3>1. task[u].target \in Agent
      BY <1>0, RowTypes
    <3> SUFFICES ASSUME task[u].status = "dispatching"
                 PROVE  op'[task[u].target].task = u /\ op'[task[u].target].pc \in PCs
      BY <1>0 DEF NextInFlight
    <3>2. op[task[u].target].task = u /\ op[task[u].target].pc \in PCs
      BY <2>11 DEF InFlight
    <3> QED
      BY <2>6, <2>7, <2>11, <3>1, <3>2
  <2>12. ASSUME t # 0
         PROVE  /\ NextInFlight(t, SentPC)
                /\ \A i \in inputs : i.task # t
    <3>1. t \in TaskId /\ task[t].status = "dispatching" /\ task[t].target = a
      BY <1>0, <2>12, HandlerType DEF DeliveryInv, HandlerHoldsTask
    <3>2. NextInFlight(t, SentPC)
      BY <1>0, <2>6, <2>7, <3>1 DEF NextInFlight, SentPC
    <3>3. ASSUME NEW i \in inputs, i.task = t PROVE FALSE
      <4>1. op[a].pc \in SentPC \cup {"steered", "steerLost"}
        BY <1>0, <2>12, <3>1, <3>3 DEF DeliveryInv, DeliveredIsNotPending, InFlight
      <4> QED
        BY <1>0, <4>1 DEF SentPC
    <3> QED
      BY <3>2, <3>3
  <2>13. OneOwnRun'
    <3> SUFFICES ASSUME NEW q \in RunId, run'[q].task # 0
                 PROVE  /\ run'[q].source = "collaboration"
                        /\ task[run'[q].task].status # "queued"
                        /\ NextInFlight(run'[q].task, StartPC)
                        /\ run'[q].outbox # "none" => NextInFlight(run'[q].task, SentPC)
                        /\ \A p \in RunId : run'[p].task = run'[q].task => p = q
      BY <1>0, <2>4, NextFlight DEF OneOwnRun
    <3>1. /\ run'[q].task = run[q].task /\ run[q].task \in TaskId /\ run'[q].source = run[q].source
          /\ \A p \in RunId : run'[p].task = run[p].task
      BY <1>0, <2>2, <2>3, <2>4, RowTypes
    <3>2. /\ run[q].source = "collaboration"
          /\ task[run[q].task].status # "queued"
          /\ InFlight(run[q].task, StartPC)
          /\ run[q].outbox # "none" => InFlight(run[q].task, SentPC)
          /\ \A p \in RunId : run[p].task = run[q].task => p = q
      BY <1>0, <3>1 DEF DeliveryInv, OneOwnRun
    <3>3. NextInFlight(run[q].task, StartPC)
      BY <2>11, <3>1, <3>2 DEF StartPC
    <3>4. run'[q].outbox # "none" => NextInFlight(run[q].task, SentPC)
      <4>1. CASE q = r
        BY <2>2, <2>12, <3>1, <4>1
      <4>2. CASE q # r
        BY <2>4, <2>11, <3>1, <3>2, <4>2 DEF SentPC
      <4> QED
        BY <4>1, <4>2
    <3> QED
      BY <3>1, <3>2, <3>3, <3>4
  <2>14. DeliveredIsNotPending'
    <3> SUFFICES ASSUME NEW i \in inputs, i.task # 0
                 PROVE  /\ i.task \in TaskId
                        /\ task[i.task].status # "queued"
                        /\ NextInFlight(i.task, SentPC \cup {"steered", "steerLost"})
                        /\ \A q \in RunId : run'[q].task = i.task => run'[q].outbox # "starting"
      BY <1>0, <2>4, NextFlight DEF DeliveredIsNotPending, TaskId
    <3>1. /\ i.task \in TaskId
          /\ task[i.task].status # "queued"
          /\ InFlight(i.task, SentPC \cup {"steered", "steerLost"})
          /\ \A q \in RunId : run[q].task = i.task => run[q].outbox # "starting"
      BY <1>0 DEF DeliveryInv, DeliveredIsNotPending
    <3>2. NextInFlight(i.task, SentPC \cup {"steered", "steerLost"})
      BY <2>11, <3>1 DEF SentPC
    <3>3. \A q \in RunId : run'[q].task = i.task => run'[q].outbox # "starting"
      BY <2>3, <2>4, <2>12, <3>1
    <3> QED
      BY <3>1, <3>2, <3>3
  <2>15. AtMostOnceDelivery'
    BY <1>0 DEF AtMostOnceDelivery, DeliveryInv
  <2> QED
    BY <2>8, <2>9, <2>10, <2>13, <2>14, <2>15 DEF InvHolds, DeliveryInv
<1> QED
  BY <1>1, <1>2
-----------------------------------------------------------------------------
(* The worker, the restart, and all steps together.                        *)

\* The start of a turn in the worker keeps the invariants: the run's task had not
\* been delivered, and no other run can deliver it.
LEMMA WorkerSteps ==
  ASSUME Inv, TypeOK', NEW r \in RunId, WorkerStarts(r)
  PROVE  InvHolds
<1> DEFINE t == run[r].task
           input == [task |-> t, run |-> r, how |-> "start"]
           row == [run[r] EXCEPT !.outbox = "live"]
<1>0. /\ TypeOK /\ RelayInv /\ DeliveryInv /\ run[r].outbox = "starting"
      /\ UNCHANGED <<task, op>>
      /\ inputs' = inputs \cup {input} /\ run' = [run EXCEPT ![r] = row]
  BY DEF Inv, WorkerStarts
<1>1. input.task = t
  OBVIOUS
<1>2. /\ row.agent = run[r].agent /\ row.task = t /\ row.source = run[r].source
      /\ row.relay = run[r].relay /\ row.outbox = "live"
  BY <1>0, RowTypes DEF Run
<1> HIDE DEF input, row
<1>3. /\ RunId' = RunId
      /\ \A q \in RunId : run'[q] = IF q = r THEN row ELSE run[q]
  BY <1>0, RowTypes DEF RunId
<1>4. HandlersKeep
  BY <1>0, HandlersUnchanged DEF HandlersKeep
<1>5. RelayInv'
  <2>1. \A q \in RunId : RelayKept(q)
    BY <1>0, <1>2, <1>3 DEF RelayKept
  <2> QED
    BY <1>0, <1>3, <1>4, <2>1, RelayFrame DEF HandlersKeep
<1>6. HandlerHoldsTask'
  BY <1>0 DEF DeliveryInv, HandlerHoldsTask
<1>7. HandlerHoldsRun'
  <2> SUFFICES ASSUME NEW b \in Agent, op[b].pc \in StartPC
               PROVE  op[b].run \in RunId /\ run'[op[b].run].task = op[b].task
    BY <1>0, <1>3 DEF HandlerHoldsRun, StartPC
  <2> QED
    BY <1>0, <1>2, <1>3 DEF DeliveryInv, HandlerHoldsRun
<1>8. ASSUME NEW u \in TaskId, NEW PCs, InFlight(u, PCs)
      PROVE  NextInFlight(u, PCs)
  BY <1>0, <1>8 DEF InFlight, NextInFlight
<1>9. ASSUME t # 0
      PROVE  /\ t \in TaskId /\ task[t].status # "queued"
             /\ NextInFlight(t, SentPC \cup {"steered", "steerLost"})
             /\ \A q \in RunId : run[q].task = t => q = r
             /\ \A i \in inputs : i.task # t
  <2>1. t \in TaskId
    BY <1>0, <1>9, RowTypes
  <2>2. /\ task[t].status # "queued" /\ InFlight(t, SentPC)
        /\ \A q \in RunId : run[q].task = t => q = r
    BY <1>0, <1>9 DEF DeliveryInv, OneOwnRun
  <2>3. InFlight(t, SentPC \cup {"steered", "steerLost"})
    BY <2>2 DEF InFlight
  <2>4. \A i \in inputs : i.task # t
    BY <1>0, <1>9 DEF DeliveryInv, DeliveredIsNotPending
  <2> QED
    BY <1>8, <2>1, <2>2, <2>3, <2>4
<1>10. OneOwnRun'
  <2> SUFFICES ASSUME NEW q \in RunId, run'[q].task # 0
               PROVE  /\ run'[q].source = "collaboration"
                      /\ task[run'[q].task].status # "queued"
                      /\ NextInFlight(run'[q].task, StartPC)
                      /\ run'[q].outbox # "none" => NextInFlight(run'[q].task, SentPC)
                      /\ \A p \in RunId : run'[p].task = run'[q].task => p = q
    BY <1>0, <1>3, NextFlight DEF OneOwnRun
  <2>1. /\ run'[q].task = run[q].task /\ run[q].task \in TaskId /\ run'[q].source = run[q].source
        /\ \A p \in RunId : run'[p].task = run[p].task
        /\ run'[q].outbox # "none" => run[q].outbox # "none"
    BY <1>0, <1>2, <1>3, RowTypes
  <2>2. /\ run[q].source = "collaboration"
        /\ task[run[q].task].status # "queued"
        /\ InFlight(run[q].task, StartPC)
        /\ run[q].outbox # "none" => InFlight(run[q].task, SentPC)
        /\ \A p \in RunId : run[p].task = run[q].task => p = q
    BY <1>0, <2>1 DEF DeliveryInv, OneOwnRun
  <2> QED
    BY <1>8, <2>1, <2>2
<1>11. ASSUME NEW i \in inputs, i.task # 0
       PROVE  /\ i.task \in TaskId
              /\ task[i.task].status # "queued"
              /\ NextInFlight(i.task, SentPC \cup {"steered", "steerLost"})
              /\ \A q \in RunId : run'[q].task = i.task => run'[q].outbox # "starting"
  <2>1. /\ i.task \in TaskId
        /\ task[i.task].status # "queued"
        /\ InFlight(i.task, SentPC \cup {"steered", "steerLost"})
        /\ \A q \in RunId : run[q].task = i.task => run[q].outbox # "starting"
    BY <1>0, <1>11 DEF DeliveryInv, DeliveredIsNotPending
  <2> QED
    BY <1>2, <1>3, <1>8, <2>1
<1>12. DeliveredIsNotPending'
  <2> SUFFICES ASSUME NEW i \in inputs', i.task # 0
               PROVE  /\ i.task \in TaskId
                      /\ task[i.task].status # "queued"
                      /\ NextInFlight(i.task, SentPC \cup {"steered", "steerLost"})
                      /\ \A q \in RunId : run'[q].task = i.task => run'[q].outbox # "starting"
    BY <1>0, <1>3, NextFlight DEF DeliveredIsNotPending, TaskId
  <2>1. CASE i \in inputs
    BY <1>11, <2>1
  <2>2. CASE i = input
    BY <1>1, <1>2, <1>3, <1>9, <2>2
  <2> QED
    BY <1>0, <2>1, <2>2
<1>13. AtMostOnceDelivery'
  <2> SUFFICES ASSUME NEW i \in inputs', NEW j \in inputs', i.task = j.task, i.task # 0
               PROVE  i = j
    BY DEF AtMostOnceDelivery
  <2>1. CASE i \in inputs /\ j \in inputs
    BY <1>0, <2>1 DEF AtMostOnceDelivery, DeliveryInv
  <2>2. CASE i \notin inputs \/ j \notin inputs
    BY <1>0, <1>1, <1>9, <2>2
  <2> QED
    BY <2>1, <2>2
<1> QED
  BY <1>5, <1>6, <1>7, <1>10, <1>12, <1>13 DEF InvHolds, DeliveryInv

\* A restart keeps the invariants: whatever was in flight gets an unknown
\* outcome, so that no later dispatch claims it.
LEMMA RestartSteps ==
  ASSUME Inv, TypeOK', Restart
  PROVE  InvHolds
<1>0. /\ TypeOK /\ RelayInv /\ DeliveryInv /\ UNCHANGED inputs
      /\ op' = [a \in Agent |-> Idle]
  BY DEF Inv, Restart
<1>1. Idle.task = 0 /\ Idle.run = 0 /\ Idle.pc = "idle"
  BY DEF Idle
<1>2. ASSUME NEW u \in TaskId
      PROVE  /\ task'[u].status = "queued" => task[u].status = "queued"
             /\ task'[u].status # "dispatching"
  <2>1. /\ Reconciled[u] \in Task
        /\ \/ Reconciled[u].status = task[u].status
           \/ Reconciled[u].status \in RunTerminal
    BY <1>0, ReconciledKeeps
  <2>2. PICK status : status = RecoveredStatus(Reconciled[u].status)
    OBVIOUS
  <2>3. task'[u] = [Reconciled[u] EXCEPT !.status = status]
    BY <2>2 DEF Restart
  <2>4. task'[u].status = status
    BY <2>1, <2>3 DEF Task
  <2> QED
    BY <2>1, <2>2, <2>4 DEF RecoveredStatus, RunTerminal
<1>3. TaskId' = TaskId /\ RunId' = RunId
  BY DEF Restart, TaskId, RunId
<1>4. ASSUME NEW q \in RunId
      PROVE  /\ run'[q].agent = run[q].agent /\ run'[q].task = run[q].task
             /\ run'[q].source = run[q].source /\ run'[q].outbox = run[q].outbox
             /\ run'[q].relay \in {"off", "polling"}
  <2>1. PICK relay \in {"off", "polling"} : run'[q] = [run[q] EXCEPT !.relay = relay]
    BY DEF Restart, ResumedRelay
  <2> QED
    BY <1>0, <2>1, RowTypes DEF Run
<1>5. RelayInv'
  <2>1. RelayHoldsOutcome'
    BY <1>3, <1>4 DEF RelayHoldsOutcome
  <2>2. HandlerHoldsOwnRun' /\ UnrequestedIsUnwatched'
    BY <1>0, <1>1 DEF HandlerHoldsOwnRun, UnrequestedIsUnwatched
  <2> QED
    BY <2>1, <2>2 DEF RelayInv
<1>6. HandlerHoldsTask' /\ HandlerHoldsRun'
  BY <1>0, <1>1 DEF HandlerHoldsTask, HandlerHoldsRun, StartPC
<1>7. \A u \in TaskId : \A PCs : NextInFlight(u, PCs)
  BY <1>2 DEF NextInFlight
<1>8. OneOwnRun'
  <2> SUFFICES ASSUME NEW q \in RunId, run'[q].task # 0
               PROVE  /\ run'[q].source = "collaboration"
                      /\ task'[run'[q].task].status # "queued"
                      /\ NextInFlight(run'[q].task, StartPC)
                      /\ run'[q].outbox # "none" => NextInFlight(run'[q].task, SentPC)
                      /\ \A p \in RunId : run'[p].task = run'[q].task => p = q
    BY <1>3, NextFlight DEF OneOwnRun
  <2>1. run'[q].task = run[q].task /\ run[q].task \in TaskId
    BY <1>0, <1>4, RowTypes
  <2>2. /\ run[q].source = "collaboration"
        /\ task[run[q].task].status # "queued"
        /\ \A p \in RunId : run[p].task = run[q].task => p = q
    BY <1>0, <2>1 DEF DeliveryInv, OneOwnRun
  <2>3. NextInFlight(run[q].task, StartPC) /\ NextInFlight(run[q].task, SentPC)
    BY <1>2, <2>1 DEF NextInFlight
  <2> QED
    BY <1>2, <1>4, <2>1, <2>2, <2>3
<1>9. DeliveredIsNotPending'
  <2> SUFFICES ASSUME NEW i \in inputs, i.task # 0
               PROVE  /\ i.task \in TaskId
                      /\ task'[i.task].status # "queued"
                      /\ NextInFlight(i.task, SentPC \cup {"steered", "steerLost"})
                      /\ \A q \in RunId : run'[q].task = i.task => run'[q].outbox # "starting"
    BY <1>0, <1>3, NextFlight DEF DeliveredIsNotPending
  <2>1. /\ i.task \in TaskId
        /\ task[i.task].status # "queued"
        /\ \A q \in RunId : run[q].task = i.task => run[q].outbox # "starting"
    BY <1>0 DEF DeliveryInv, DeliveredIsNotPending
  <2>2. NextInFlight(i.task, SentPC \cup {"steered", "steerLost"})
    BY <1>2, <2>1 DEF NextInFlight
  <2> QED
    BY <1>2, <1>4, <2>1, <2>2
<1>10. AtMostOnceDelivery'
  BY <1>0 DEF AtMostOnceDelivery, DeliveryInv
<1> QED
  BY <1>5, <1>6, <1>8, <1>9, <1>10 DEF InvHolds, DeliveryInv

\* Every step of a handler keeps the invariants.
LEMMA HandlerSteps ==
  ASSUME Inv, TypeOK', NEW a \in Agent, Handler(a)
  PROVE  InvHolds
<1>1. CASE EnqueueCompletion(a) \/ LoadPending(a) \/ SelectNone(a)
  BY <1>1, DispatchQuiet
<1>2. CASE SelectSteer(a) \/ SelectStart(a)
  BY <1>2, ClaimSteps
<1>3. CASE SteerTurn(a)
  BY <1>3, SteerSteps
<1>4. CASE \/ SteerAccepted(a) \/ SteerRejected(a) \/ SteerLost(a)
           \/ StartCollaborationFails(a) \/ CollaborationStarted(a) \/ CollaborationFailed(a)
           \/ (StartLost(a) /\ op[a].task # 0)
  BY <1>4, SettleSteps
<1>5. CASE CreateRun(a)
  BY <1>5, BeginSteps
<1>6. CASE \/ BindRun(a) \/ RunDueScheduleFails(a) \/ StartTurnReplies(a)
           \/ SetRunStarted(a) \/ StartRejected(a) \/ (StartLost(a) /\ op[a].task = 0)
  BY <1>6, StartQuiet
<1>7. CASE CallStartTurn(a)
  BY <1>7, CallSteps
<1>8. CASE \/ MessageSteerReplies(a) \/ CallInterrupt(a) \/ FinishInterrupted(a) \/ Silence(a)
           \/ StopSuppress(a) \/ StopCancelQueued(a) \/ StopRuntime(a) \/ StopFinish(a) \/ ArchiveAgent(a)
  BY <1>8, StopQuiet
<1>9. CASE StopInterrupt(a)
  BY <1>9, StopInterruptQuiet
<1> QED
  BY <1>1, <1>2, <1>3, <1>4, <1>5, <1>6, <1>7, <1>8, <1>9 DEF Handler

\* Every step keeps the inductive invariant.
LEMMA StepKeepsInv ==
  ASSUME Inv, [Next]_vars
  PROVE  Inv'
<1>0. TypeOK'
  BY StepTyped DEF Inv, RelayInv
<1>1. ASSUME NEW a \in Agent, Submission(a) PROVE InvHolds
  BY <1>0, <1>1, SubmissionQuiet
<1>2. ASSUME NEW a \in Agent, Request(a) PROVE InvHolds
  BY <1>0, <1>2, BeginSteps, RequestQuiet DEF Request
<1>3. ASSUME NEW a \in Agent, ClientGone(a) PROVE InvHolds
  BY <1>0, <1>3, RequestQuiet
<1>4. ASSUME NEW a \in Agent, DispatchCollaboration(a) PROVE InvHolds
  BY <1>0, <1>4, DispatchQuiet
<1>5. ASSUME NEW a \in Agent, Handler(a) PROVE InvHolds
  BY <1>0, <1>5, HandlerSteps
<1>6. ASSUME NEW r \in RunId, Worker(r) \/ Relay(r) PROVE InvHolds
  BY <1>0, <1>6, WorkerSteps, BackgroundQuiet DEF Worker
<1>7. ASSUME \/ \E t \in TaskId : CollaborationCancel(t)
             \/ ReconcileCollaborationTasks
             \/ Settled
             \/ UNCHANGED vars
      PROVE  InvHolds
  BY <1>0, <1>7, BackgroundQuiet
<1>8. ASSUME Restart PROVE InvHolds
  BY <1>0, <1>8, RestartSteps
<1>9. InvHolds
  BY <1>1, <1>2, <1>3, <1>4, <1>5, <1>6, <1>7, <1>8 DEF Next
<1> QED
  BY <1>0, <1>9 DEF Inv, InvHolds

\* The initial state satisfies the inductive invariant.
LEMMA InitInv == Init => Inv
<1> SUFFICES ASSUME Init PROVE Inv
  OBVIOUS
<1>1. TypeOK
  BY InitTyped
<1>2. /\ op = [a \in Agent |-> Idle] /\ RunId = {} /\ TaskId = {} /\ inputs = {}
  BY DEF Init, RunId, TaskId
<1>3. Idle.task = 0 /\ Idle.run = 0 /\ Idle.pc = "idle"
  BY DEF Idle
<1>4. RelayInv
  BY <1>2, <1>3 DEF RelayInv, RelayHoldsOutcome, HandlerHoldsOwnRun, UnrequestedIsUnwatched
<1>5. DeliveryInv
  BY <1>2, <1>3 DEF DeliveryInv, HandlerHoldsTask, HandlerHoldsRun, OneOwnRun,
                    DeliveredIsNotPending, AtMostOnceDelivery, StartPC
<1> QED
  BY <1>1, <1>4, <1>5 DEF Inv

\* The inductive invariant holds in every reachable state, for any number of
\* agents, keys, tasks, runs, faults and restarts.
THEOREM Invariance == Spec => []Inv
<1>1. Init => Inv
  BY InitInv
<1>2. Inv /\ [Next]_vars => Inv'
  BY StepKeepsInv
<1> QED
  BY <1>1, <1>2, PTL DEF Spec

\* Rows keep their column types and refer to rows that exist, although links
\* and rows are written by several transactions and handlers.
THEOREM TypeCorrect == Spec => []TypeOK
<1>1. Inv => TypeOK
  BY DEF Inv
<1> QED
  BY <1>1, Invariance, PTL

\* The prompt of a task enters an app-server at most once, whatever replies were
\* lost, steers refused or servers restarted between its claim and confirmation.
THEOREM DeliveredAtMostOnce == Spec => []AtMostOnceDelivery
<1>1. Inv => AtMostOnceDelivery
  BY DEF Inv, DeliveryInv
<1> QED
  BY <1>1, Invariance, PTL
=============================================================================
