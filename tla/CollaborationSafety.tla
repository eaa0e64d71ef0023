------------------------ MODULE CollaborationSafety ------------------------
(***************************************************************************)
(* SafeInv is an invariant of Collaboration, and the safety properties     *)
(* that follow from it.  Some fifty actions meet some twenty formulas, so  *)
(* the proof goes through a summary of a step: what any step may do to a   *)
(* run, a task, a handler and the history (Summary).  Every action is      *)
(* shown to be within the summary, and every formula to survive it.        *)
(***************************************************************************)
EXTENDS CollaborationProofs

-----------------------------------------------------------------------------
(* What a step may do to the runs.                                         *)

\* The handler of a goes on with what it is at, though its client may have left.
Stays(a) ==
  /\ op'[a].pc = op[a].pc /\ op'[a].task = op[a].task /\ op'[a].run = op[a].run
  /\ op[a].gone => op'[a].gone

\* A turn of r has started by the next state.
NextStarted(r) == \E i \in inputs' : i.run = r /\ i.how = "start"

\* A run keeps its origin, is over for good once it is over, and completes only when
\* its turn has; only its relay or the handler that holds it moves it on.
RunMoves(r) ==
  /\ run'[r].agent = run[r].agent /\ run'[r].conversation = run[r].conversation
  /\ run'[r].source = run[r].source /\ run'[r].task = run[r].task
  /\ run[r].status \in RunTerminal => run'[r].status \in RunTerminal
  /\ run'[r].status = "completed" => "completed" \in {run[r].status, run[r].outbox}
  /\ run'[r].outbox \in {"live", "completed"} =>
       run[r].outbox \in {"live", "completed"} \/ NextStarted(r)
  /\ \/ run'[r].status = run[r].status /\ run'[r].relay = run[r].relay
     \/ run[r].relay # "off"
     \/ \E a \in Agent : op[a].run = r /\ ~Stays(a)
     \/ \A a \in Agent : op'[a] = Idle

\* Run n is new, and in the hands of a's handler.
RunComes(n, a) ==
  /\ run'[n].agent = a /\ run'[n].task = op[a].task
  /\ run'[n].status = "queued" /\ run'[n].outbox = "none" /\ run'[n].relay = "off"
  /\ run'[n].source = "schedule" \/ run'[n].conversation = conv[a]
  /\ \/ op[a].pc = "claimed" /\ run'[n].source = "collaboration"
     \/ op[a] = Idle /\ ActiveRuns(a) = {} /\ a \notin archived
  /\ op'[a].run = n /\ op'[a].task = op[a].task /\ op'[a].pc \in {"created", "bound"}
  /\ \A b \in Agent \ {a} : op'[b] = op[b]
  /\ UNCHANGED <<task, conv, archived, inputs, silenced>>

RunsStep ==
  \/ RunId' = RunId /\ \A r \in RunId : RunMoves(r)
  \/ \E n \in RunId' \ RunId, a \in Agent :
       /\ RunId' = RunId \cup {n} /\ \A r \in RunId : run'[r] = run[r]
       /\ RunComes(n, a)

-----------------------------------------------------------------------------
(* What a step may do to the tasks.                                        *)

\* The handler of its target claims task t.
IsClaimed(t) ==
  LET a == task[t].target IN
    /\ op[a].pc = "select" /\ op'[a].task = t
    /\ task[t].mode = "steer" \/ IsFirst(t, Queued(a))

\* The turn that task t was to steer has refused it.
IsRefused(t) ==
  LET a == task[t].target IN
    op[a].pc = "steerRejected" /\ op[a].task = t /\ op'[a] = Idle

\* A task keeps what its sender asked for, is linked to a receipt once, is claimed from
\* the queue, returns to it when a turn refuses it, and then settles.
TaskMoves(t) ==
  /\ task'[t].sender = task[t].sender /\ task'[t].senderRun = task[t].senderRun
  /\ task'[t].target = task[t].target /\ task'[t].mode = task[t].mode
  /\ task'[t].completionMode = task[t].completionMode
  /\ task'[t].notificationFor = task[t].notificationFor
  /\ \/ task'[t].completionTask = task[t].completionTask
     \/ /\ task[t].completionTask = 0 /\ task[t].completionMode = "notify"
        /\ task'[t].completionTask \in TaskId' \ TaskId
        /\ task'[task'[t].completionTask].notificationFor = t
  /\ task'[t].steerFallback = task[t].steerFallback \/ IsRefused(t)
  /\ task'[t].status = "queued" => task[t].status = "queued" \/ IsRefused(t)
  /\ task'[t].status = "dispatching" =>
       \/ task[t].status = "dispatching" /\ op'[task[t].target].task = t
       \/ task[t].status = "queued" /\ IsClaimed(t)
  /\ task'[t].status \in {"running", "completed"} =>
       \/ task[t].status \in {"running", "completed"} /\ task'[t].run = task[t].run
       \/ \E i \in inputs' : i.task = t /\ i.run = task'[t].run
  /\ task[t].status = "queued" => task'[t].status \in {"queued", "dispatching", "cancelled"}
  /\ task[t].status = "cancelled" => task'[t].status = "cancelled"
  /\ task[t].status \in Terminal /\ task'[t].status # task[t].status =>
       /\ task[t].status = "unknown" /\ task[t].run # 0 /\ run[task[t].run].task = t
       /\ task'[t].status = run[task[t].run].status

\* Task n is new: accepted from a sender, or the receipt of an older task.
TaskComes(n) ==
  /\ n \in Nat /\ \A t \in TaskId : t < n
  /\ task'[n].status \in {"queued", "cancelled"} /\ task'[n].completionTask = 0
  /\ ~task'[n].steerFallback
  /\ \/ /\ task'[n].notificationFor = 0
        /\ task'[n].completionMode = "notify" => task'[n].senderRun \in ActiveRuns(task'[n].sender)
     \/ /\ task'[n].notificationFor \in TaskId
        /\ task'[n].completionMode = "poll" /\ task'[n].mode = "steer"
        /\ task[task'[n].notificationFor].completionMode = "notify"
        /\ task'[task'[n].notificationFor].completionTask = n
        /\ task'[n].target = task[task'[n].notificationFor].sender
        /\ task'[n].status = "queued" =>
             op[task'[n].target].pc = "outbox" /\ op'[task'[n].target].pc = "outbox"

TasksStep ==
  /\ TaskId \subseteq TaskId'
  /\ \A t \in TaskId : TaskMoves(t)
  /\ \A n \in TaskId' \ TaskId : TaskComes(n)

-----------------------------------------------------------------------------
(* What a step may do to the handler of a.                                 *)

\* A request takes the lock.
Opens(a) ==
  /\ op[a] = Idle /\ op'[a].task = 0
  /\ op'[a].pc \in {"outbox", "messageSteer", "interrupting", "suppress"}
  /\ op'[a].pc = "outbox" \/ a \notin archived \/ ActiveRuns(a) # {}
  /\ op'[a].pc = "interrupting" => op'[a].run \in RunId

\* The dispatcher has dropped the stale notifications and goes on to select.
Loads(a) ==
  /\ op[a].pc = "outbox" /\ op'[a].pc = "select" /\ op'[a].task = op[a].task
  /\ a \notin archived
  /\ TaskId' = TaskId /\ UNCHANGED <<run, conv>>
  /\ \A t \in TaskId :
       task[t].target = a /\ task'[t].status = "queued" /\ task[t].notificationFor # 0
         => Requested(t) = conv[a]

\* It claims a task, to start a run for it or to steer the active one.
Claims(a) ==
  /\ op[a].pc = "select" /\ op'[a].task \in Queued(a)
  /\ UNCHANGED <<run, conv>>
  /\ \/ op'[a].pc = "claimed" /\ ActiveRuns(a) = {}
     \/ /\ op'[a].pc = "steering" /\ op'[a].task \in Steerable(a)
        /\ op'[a].run \in ActiveRuns(a) /\ run[op'[a].run].source # "schedule"

Steers(a) ==
  /\ op[a].pc = "steering" /\ op'[a].task = op[a].task /\ op'[a].run = op[a].run
  /\ op'[a].pc \in SteerPC \ {"steering"}
  /\ op'[a].pc = "steered" => \E i \in inputs' : i.task = op[a].task /\ i.run = op[a].run

\* It has a new run for what it starts.
Begins(a) ==
  /\ op'[a].task = op[a].task /\ op'[a].pc \in {"created", "bound"}
  /\ op'[a].run \in RunId' \ RunId

\* The start goes on; its run stays active unless the start has failed.
Starts(a) ==
  /\ op[a].pc \in StartPC /\ op'[a].pc \in StartPC
  /\ op'[a].task = op[a].task /\ op'[a].run = op[a].run
  /\ run'[op[a].run].relay = "off"
  /\ op'[a].pc # "failing" => run'[op[a].run].status \in Live
  /\ op'[a].pc = "failing" => op[a].gone \/ run'[op[a].run].status \in RunTerminal
  /\ op'[a].pc \in {"accepted", "started"} =>
       op[a].pc \in {"accepted", "started"} \/ NextStarted(op[a].run)

Interrupts(a) ==
  /\ op'[a].task = op[a].task /\ op'[a].run = op[a].run
  /\ \/ op[a].pc = "interrupting" /\ op'[a].pc = "interrupted"
     \/ /\ op[a].pc = "interrupted" /\ op'[a].pc = "silence"
        /\ op'[a].gone \/ run'[op[a].run].status \in RunTerminal

Stops(a) ==
  /\ op'[a].task = op[a].task /\ op'[a].gone = op[a].gone
  /\ \/ op[a].pc = "suppress" /\ op'[a].pc = "cancelQueued"
     \/ op[a].pc = "cancelQueued" /\ op'[a].pc = "stopInterrupt"
     \/ op[a].pc = "stopInterrupt" /\ op'[a].pc = "stopRuntime" /\ op'[a].run = ActiveRun(a)
     \/ op[a].pc = "stopRuntime" /\ op'[a].pc = "stopFinish" /\ op'[a].run = op[a].run
     \/ /\ op[a].pc = "stopFinish" /\ op'[a].pc = "suppressAgain"
        /\ op[a].gone \/ op[a].run = 0 \/ run'[op[a].run].status \in RunTerminal
     \/ op[a].pc = "suppressAgain" /\ op'[a].pc = "cancelAgain"
     \/ op[a].pc = "cancelAgain" /\ op'[a].pc = "archive"

HandMoves(a) ==
  \/ Stays(a) \/ op'[a] = Idle \/ Opens(a) \/ Loads(a) \/ Claims(a) \/ Steers(a)
  \/ Begins(a) \/ Starts(a) \/ Interrupts(a) \/ Stops(a)

HandsStep == \A a \in Agent : HandMoves(a)

-----------------------------------------------------------------------------
(* What a step may do to conversations, archive and history.               *)

\* An input enters a turn through a start that the worker has been asked for, or
\* through the steer that a handler is at.
InputComes(i) ==
  \/ /\ i.how = "start" /\ i.run \in RunId /\ i.task = run[i.run].task
     /\ run[i.run].outbox = "starting"
  \/ /\ i.how = "steer"
     /\ \E a \in Agent : op[a].pc = "steering" /\ i.task = op[a].task /\ i.run = op[a].run

\* Stop run of a's active run is acknowledged: nothing is left that calls a back.
IsSilenced(a) ==
  /\ op[a].pc = "silence" /\ ~op[a].gone /\ silenced' = silenced \cup {op[a].run}
  /\ \A t \in TaskId :
       /\ task[t].sender = a /\ task[t].completionMode = "notify" => task'[t].completionTask # 0
       /\ task[t].target = a /\ task[t].notificationFor # 0 => task'[t].status # "queued"
  /\ \A n \in TaskId' \ TaskId : task'[n].status = "cancelled"
  /\ UNCHANGED <<run, inputs>>

HistoryStep ==
  /\ inputs \subseteq inputs' /\ \A i \in inputs' \ inputs : InputComes(i)
  /\ silenced' = silenced \/ \E a \in Agent : IsSilenced(a)
  /\ \/ archived' = archived
     \/ \E a \in Agent : /\ op[a].pc = "archive" /\ ~op[a].gone /\ op'[a] = Idle
                         /\ archived' = archived \cup {a} /\ UNCHANGED run
  /\ \A a \in Agent : \/ conv'[a] = conv[a]
                      \/ op[a] = Idle /\ op'[a] = Idle /\ ActiveRuns(a) = {} /\ UNCHANGED <<run, inputs>>

\* The summary of a step.
Summary == RunsStep /\ TasksStep /\ HandsStep /\ HistoryStep

\* What the formulas below are shown to survive.
Stepping == Inv /\ Inv' /\ SafeInv /\ Summary

-----------------------------------------------------------------------------
(* The formulas about runs survive a step within the summary.              *)

\* The row types of the next state.
LEMMA NextTypes ==
  ASSUME TypeOK'
  PROVE  /\ \A u \in TaskId' : task'[u] \in Task /\ task'[u].target \in Agent
         /\ \A s \in RunId' : run'[s] \in Run /\ run'[s].agent \in Agent /\ run'[s].task \in TaskId' \cup {0}
         /\ 0 \notin TaskId' /\ 0 \notin RunId'
         /\ TaskId' = 1..Len(task') /\ RunId' = 1..Len(run')
         /\ Len(task') \in Nat /\ Len(run') \in Nat
<1>1. task' \in Seq(Task) /\ run' \in Seq(Run) /\ \A r \in RunId' : run'[r].task \in 0..Len(task')
  BY DEF TypeOK, TasksTyped, RunsTyped
<1>2. /\ TaskId' = 1..Len(task') /\ RunId' = 1..Len(run')
      /\ Len(task') \in Nat /\ Len(run') \in Nat
      /\ task' \in [1..Len(task') -> Task] /\ run' \in [1..Len(run') -> Run]
  BY <1>1, LenProperties DEF TaskId, RunId
<1>3. \A u \in TaskId' : task'[u] \in Task
  BY <1>2
<1>4. \A s \in RunId' : run'[s] \in Run
  BY <1>2
<1> QED
  BY <1>1, <1>2, <1>3, <1>4 DEF Task, Run

\* A run that is active after a step was active before, or the step has begun it.
LEMMA NextActive ==
  ASSUME TypeOK, TypeOK', RunsStep, NEW a \in Agent, NEW r \in ActiveRuns(a)'
  PROVE  \/ r \in ActiveRuns(a)
         \/ /\ r \notin RunId /\ RunComes(r, a) /\ RunId' = RunId \cup {r}
            /\ \A q \in RunId : run'[q] = run[q]
<1>1. r \in RunId' /\ run'[r].agent = a /\ run'[r].status \in Live
  BY DEF ActiveRuns
<1>2. CASE RunId' = RunId /\ \A q \in RunId : RunMoves(q)
  <2>1. run[r].agent = a /\ run[r].status \notin RunTerminal
    BY <1>1, <1>2 DEF RunMoves, Live, RunTerminal
  <2>2. run[r].status \in Live \cup RunTerminal
    BY <1>1, <1>2, RunRow
  <2> QED
    BY <1>1, <1>2, <2>1, <2>2 DEF ActiveRuns
<1>3. ASSUME NEW n \in RunId' \ RunId, NEW b \in Agent,
             RunId' = RunId \cup {n}, \A q \in RunId : run'[q] = run[q], RunComes(n, b)
      PROVE  \/ r \in ActiveRuns(a)
             \/ /\ r \notin RunId /\ RunComes(r, a) /\ RunId' = RunId \cup {r}
                /\ \A q \in RunId : run'[q] = run[q]
  <2>1. CASE r \in RunId
    BY <1>1, <1>3, <2>1 DEF ActiveRuns
  <2>2. CASE r \notin RunId
    <3>1. r = n
      BY <1>1, <1>3, <2>2
    <3>2. b = a
      BY <1>1, <1>3, <3>1 DEF RunComes
    <3> QED
      BY <1>3, <3>1, <3>2
  <2> QED
    BY <2>1, <2>2
<1> QED
  BY <1>2, <1>3 DEF RunsStep

\* Every run there was keeps its origin, and is over for good once it is over.
LEMMA RunsStay ==
  ASSUME RunsStep
  PROVE  /\ RunId \subseteq RunId'
         /\ \A r \in RunId :
              /\ run'[r].agent = run[r].agent /\ run'[r].conversation = run[r].conversation
              /\ run'[r].source = run[r].source /\ run'[r].task = run[r].task
              /\ run[r].status \in RunTerminal => run'[r].status \in RunTerminal
<1>1. CASE RunId' = RunId /\ \A q \in RunId : RunMoves(q)
  BY <1>1 DEF RunMoves
<1> QED
  BY <1>1 DEF RunsStep

\* While its turn is being started a run stays active and unwatched: its relay is off,
\* and nobody but the starting handler holds it.
LEMMA StartStillHoldsRun ==
  ASSUME Stepping
  PROVE  StartHoldsRun'
<1> SUFFICES ASSUME NEW a \in Agent, op'[a].pc \in StartPC
             PROVE  /\ run'[op'[a].run].relay = "off"
                    /\ op'[a].pc # "failing" => run'[op'[a].run].status \in Live
  BY DEF StartHoldsRun
<1>0. TypeOK /\ TypeOK' /\ RelayInv /\ HandlerHoldsRun /\ RunsStep /\ HandMoves(a) /\ StartHoldsRun
  BY DEF Stepping, Inv, SafeInv, RunInv, Summary, HandsStep, DeliveryInv
<1>1. CASE Stays(a)
  <2> DEFINE r == op[a].run
  <2>1. op[a].pc \in StartPC /\ op'[a].pc = op[a].pc /\ op'[a].run = r /\ r \in RunId
    BY <1>0, <1>1 DEF Stays, HandlerHoldsRun
  <2>2. run[r].relay = "off" /\ (op[a].pc # "failing" => run[r].status \in Live) /\ run[r].agent = a /\ r # 0
    BY <1>0, <2>1, RowTypes DEF StartHoldsRun, RelayInv, HandlerHoldsOwnRun
  <2>3. CASE RunId' = RunId /\ \A q \in RunId : RunMoves(q)
    <3>1. CASE run'[r].status = run[r].status /\ run'[r].relay = run[r].relay
      BY <2>1, <2>2, <3>1
    <3>2. CASE \E b \in Agent : op[b].run = r /\ ~Stays(b)
      <4>1. PICK b \in Agent : op[b].run = r /\ ~Stays(b)
        BY <3>2
      <4>2. b = a
        BY <1>0, <2>2, <4>1 DEF RelayInv, HandlerHoldsOwnRun
      <4> QED
        BY <1>1, <4>1, <4>2
    <3>3. CASE \A b \in Agent : op'[b] = Idle
      BY <2>1, <3>3 DEF Idle, StartPC
    <3> QED
      BY <2>1, <2>2, <2>3, <3>1, <3>2, <3>3 DEF RunMoves
  <2>4. CASE ~(RunId' = RunId /\ \A q \in RunId : RunMoves(q))
    <3>1. run'[r] = run[r]
      BY <1>0, <2>1, <2>4 DEF RunsStep
    <3> QED
      BY <2>1, <2>2, <3>1
  <2> QED
    BY <2>3, <2>4
<1>2. CASE Begins(a)
  <2>1. PICK n \in RunId' \ RunId, b \in Agent :
          RunId' = RunId \cup {n} /\ RunComes(n, b)
    BY <1>0, <1>2 DEF Begins, RunsStep
  <2>2. op'[a].run = n
    BY <1>2, <2>1 DEF Begins
  <2> QED
    BY <2>1, <2>2 DEF RunComes, Live
<1>3. CASE Starts(a)
  BY <1>3 DEF Starts
<1>4. CASE op'[a] = Idle \/ Opens(a) \/ Loads(a) \/ Claims(a) \/ Steers(a) \/ Interrupts(a) \/ Stops(a)
  BY <1>4 DEF Idle, Opens, Loads, Claims, Steers, Interrupts, Stops, StartPC, SteerPC
<1> QED
  BY <1>0, <1>1, <1>2, <1>3, <1>4 DEF HandMoves

\* Only a handler that begins a run gives its agent another active one.
LEMMA ActiveShrinks ==
  ASSUME TypeOK, TypeOK', RunsStep, NEW a \in Agent, op'[a].pc \notin {"created", "bound"}
  PROVE  ActiveRuns(a)' \subseteq ActiveRuns(a)
BY NextActive DEF RunComes

\* The run of a handler that begins is the one the step has created.
LEMMA BegunComes ==
  ASSUME TypeOK, TypeOK', RunsStep, NEW a \in Agent, Begins(a)
  PROVE  RunComes(op'[a].run, a)
<1>1. PICK n \in RunId' \ RunId, b \in Agent : RunId' = RunId \cup {n} /\ RunComes(n, b)
  BY DEF Begins, RunsStep
<1>2. op'[a].run = n /\ n # 0
  BY <1>1, NextTypes DEF Begins
<1>3. CASE a # b
  <2>1. op'[a] = op[a]
    BY <1>1, <1>3 DEF RunComes
  <2> QED
    BY <1>1, <1>2, <2>1, HandlerType
<1> QED
  BY <1>1, <1>2, <1>3

\* An agent has one active run at most, and none when a task is claimed for a new one.
LEMMA StillOneActiveRun ==
  ASSUME Stepping
  PROVE  OneActiveRun'
<1>0. TypeOK /\ TypeOK' /\ RunsStep /\ OneActiveRun
  BY DEF Stepping, Inv, SafeInv, RunInv, Summary
<1> SUFFICES ASSUME NEW a \in Agent
             PROVE  /\ \A r, s \in ActiveRuns(a)' : r = s
                    /\ op'[a].pc = "claimed" => ActiveRuns(a)' = {}
  BY DEF OneActiveRun
<1>1. ASSUME NEW r \in ActiveRuns(a)', NEW s \in ActiveRuns(a)' PROVE r = s
  <2>1. CASE r \in ActiveRuns(a) /\ s \in ActiveRuns(a)
    BY <1>0, <2>1 DEF OneActiveRun
  <2>2. CASE ~(r \in ActiveRuns(a) /\ s \in ActiveRuns(a))
    <3>1. ActiveRuns(a) = {}
      BY <1>0, <1>1, <2>2, NextActive DEF RunComes, OneActiveRun
    <3> QED
      BY <1>0, <1>1, <3>1, NextActive DEF ActiveRuns
  <2> QED
    BY <2>1, <2>2
<1>2. ASSUME op'[a].pc = "claimed" PROVE ActiveRuns(a)' = {}
  <2>1. ActiveRuns(a)' \subseteq ActiveRuns(a)
    BY <1>0, <1>2, ActiveShrinks
  <2>2. op[a].pc = "claimed" \/ Claims(a)
    BY <1>2 DEF Stepping, Summary, HandsStep, HandMoves, Stays, Idle, Opens, Loads, Steers, Begins, Starts,
                Interrupts, Stops, StartPC, SteerPC
  <2>3. ActiveRuns(a) = {}
    BY <1>0, <1>2, <2>2 DEF OneActiveRun, Claims
  <2> QED
    BY <2>1, <2>3
<1> QED
  BY <1>1, <1>2

\* stop holds the only active run, which is over before the agent is archived.
LEMMA StopStillHoldsRun ==
  ASSUME Stepping
  PROVE  StopHoldsRun'
<1>0. TypeOK /\ TypeOK' /\ RunsStep /\ HandsStep /\ OneActiveRun /\ StopHoldsRun
  BY DEF Stepping, Inv, SafeInv, RunInv, Summary
<1> DEFINE Late == {"suppressAgain", "cancelAgain", "archive"}
<1> SUFFICES ASSUME NEW a \in Agent,
                    op'[a].pc \in {"stopRuntime", "stopFinish"} \/ (op'[a].pc \in Late /\ ~op'[a].gone)
             PROVE  /\ op'[a].pc \in {"stopRuntime", "stopFinish"} => ActiveRuns(a)' \subseteq {op'[a].run}
                    /\ op'[a].pc \in Late /\ ~op'[a].gone => ActiveRuns(a)' = {}
  BY DEF StopHoldsRun
<1>1. ActiveRuns(a)' \subseteq ActiveRuns(a)
  BY <1>0, ActiveShrinks
<1>2. CASE Stays(a)
  BY <1>0, <1>1, <1>2 DEF StopHoldsRun, Stays
<1>3. CASE Stops(a)
  <2>1. CASE op'[a].pc = "stopRuntime"
    <3>1. op'[a].run = ActiveRun(a)
      BY <1>3, <2>1 DEF Stops
    <3>2. ActiveRuns(a) \subseteq {ActiveRun(a)}
      BY <1>0 DEF OneActiveRun, ActiveRun
    <3> QED
      BY <1>1, <2>1, <3>1, <3>2
  <2>2. CASE op'[a].pc = "stopFinish"
    BY <1>0, <1>1, <1>3, <2>2 DEF Stops, StopHoldsRun
  <2>3. CASE op'[a].pc = "suppressAgain"
    <3>1. /\ op[a].pc = "stopFinish" /\ ~op[a].gone
          /\ op[a].run = 0 \/ run'[op[a].run].status \in RunTerminal
      BY <1>3, <2>3 DEF Stops
    <3>2. ASSUME NEW r \in ActiveRuns(a)' PROVE FALSE
      <4>1. r = op[a].run /\ r \in RunId' /\ run'[r].status \in Live
        BY <1>0, <1>1, <3>1, <3>2 DEF StopHoldsRun, ActiveRuns
      <4> QED
        BY <1>0, <3>1, <4>1, NextTypes DEF Live, RunTerminal
    <3> QED
      BY <2>3, <3>2
  <2>4. CASE op'[a].pc \in {"cancelAgain", "archive"}
    BY <1>0, <1>1, <1>3, <2>4 DEF Stops, StopHoldsRun
  <2> QED
    BY <2>1, <2>2, <2>3, <2>4
<1> QED
  BY <1>0, <1>2, <1>3 DEF HandsStep, HandMoves, Idle, Opens, Loads, Claims, Steers, Begins, Starts,
                          Interrupts, StartPC, SteerPC

\* The only handler of an archived agent is a dispatcher that settles its outbox.
LEMMA ArchivedStillIdle ==
  ASSUME Stepping
  PROVE  ArchivedIsIdle'
<1>0. TypeOK /\ TypeOK' /\ RunsStep /\ HandsStep /\ HistoryStep /\ StopHoldsRun /\ ArchivedIsIdle
  BY DEF Stepping, Inv, SafeInv, RunInv, Summary
<1> SUFFICES ASSUME NEW a \in archived'
             PROVE  op'[a].pc \in {"idle", "outbox"} /\ ActiveRuns(a)' = {}
  BY DEF ArchivedIsIdle
<1>1. a \in Agent
  BY <1>0 DEF TypeOK
<1>2. CASE a \in archived
  <2>1. op[a].pc \in {"idle", "outbox"} /\ ActiveRuns(a) = {}
    BY <1>0, <1>2 DEF ArchivedIsIdle
  <2>2. ~Begins(a)
    BY <1>0, <1>1, <1>2, <2>1, BegunComes DEF RunComes
  <2>3. op'[a].pc \in {"idle", "outbox"}
    BY <1>0, <1>1, <1>2, <2>1, <2>2 DEF HandsStep, HandMoves, Stays, Idle, Opens, Loads, Claims, Steers,
                                        Starts, Interrupts, Stops, StartPC, SteerPC
  <2> QED
    BY <1>0, <1>1, <2>1, <2>3, ActiveShrinks
<1>3. CASE a \notin archived
  <2>1. op[a].pc = "archive" /\ ~op[a].gone /\ op'[a] = Idle /\ UNCHANGED run
    BY <1>0, <1>3 DEF HistoryStep
  <2> QED
    BY <1>0, <1>1, <2>1, ActiveShrinks DEF StopHoldsRun, Idle
<1> QED
  BY <1>2, <1>3

\* Stop run acknowledges a run that is over.
LEMMA SilencedStillOver ==
  ASSUME Stepping
  PROVE  SilencedIsOver'
<1>0. TypeOK /\ RunsStep /\ HandsStep /\ HistoryStep /\ SilencedIsOver
  BY DEF Stepping, Inv, SafeInv, RunInv, Summary
<1>1. ASSUME NEW a \in Agent
      PROVE  /\ op'[a].pc \in {"interrupting", "interrupted", "silence"} => op'[a].run \in RunId'
             /\ op'[a].pc = "silence" /\ ~op'[a].gone => run'[op'[a].run].status \in RunTerminal
  <2>1. CASE Stays(a) \/ Interrupts(a) \/ Opens(a)
    BY <1>0, <2>1, RunsStay DEF SilencedIsOver, Stays, Interrupts, Opens
  <2> QED
    BY <1>0, <2>1 DEF HandsStep, HandMoves, Idle, Loads, Claims, Steers, Begins, Starts, Stops, StartPC, SteerPC
<1>2. ASSUME NEW r \in silenced' PROVE r \in RunId' /\ run'[r].status \in RunTerminal
  <2>1. r \in RunId /\ run[r].status \in RunTerminal
    BY <1>0, <1>2 DEF HistoryStep, IsSilenced, SilencedIsOver
  <2> QED
    BY <1>0, <2>1, RunsStay
<1> QED
  BY <1>1, <1>2 DEF SilencedIsOver

\* An active run outside schedules is in the current conversation of its agent.
LEMMA ActiveChatStillCurrent ==
  ASSUME Stepping
  PROVE  ActiveChatIsCurrent'
<1>0. TypeOK /\ TypeOK' /\ RunsStep /\ HistoryStep /\ ActiveChatIsCurrent
  BY DEF Stepping, Inv, SafeInv, RunInv, Summary
<1> SUFFICES ASSUME NEW r \in RunId', run'[r].status \in Live, run'[r].source # "schedule"
             PROVE  run'[r].conversation = conv'[run'[r].agent]
  BY DEF ActiveChatIsCurrent
<1>1. PICK a \in Agent : run'[r].agent = a /\ r \in ActiveRuns(a)'
  BY <1>0, NextTypes DEF ActiveRuns
<1>2. CASE r \in ActiveRuns(a)
  <2>1. r \in RunId /\ run[r].agent = a /\ run[r].status \in Live
    BY <1>2 DEF ActiveRuns
  <2>2. run[r].conversation = run'[r].conversation /\ run[r].source # "schedule"
    BY <1>0, <2>1, RunsStay
  <2>3. conv'[a] = conv[a]
    BY <1>0, <1>1, <1>2 DEF HistoryStep
  <2> QED
    BY <1>0, <1>1, <2>1, <2>2, <2>3 DEF ActiveChatIsCurrent
<1>3. CASE r \notin ActiveRuns(a)
  BY <1>0, <1>1, <1>3, NextActive DEF RunComes
<1> QED
  BY <1>2, <1>3

\* The formulas about runs survive.
LEMMA RunInvSurvives ==
  ASSUME Stepping
  PROVE  RunInv'
BY StartStillHoldsRun, StillOneActiveRun, StopStillHoldsRun, ArchivedStillIdle, SilencedStillOver,
   ActiveChatStillCurrent DEF RunInv

-----------------------------------------------------------------------------
(* The formulas about tasks survive.                                       *)

\* Links of a task lead to rows of the tables.
LEMMA LinksLead ==
  ASSUME TypeOK, NEW t \in TaskId
  PROVE  /\ task[t].notificationFor \in TaskId \cup {0}
         /\ task[t].completionTask \in TaskId \cup {0}
BY RowTypes DEF TypeOK, TasksTyped

\* A refused task is a steer in flight at its target's handler.
LEMMA RefusedIsHeld ==
  ASSUME Stepping, NEW t \in TaskId, IsRefused(t)
  PROVE  /\ task[t].status = "dispatching" /\ task[t].mode = "steer"
         /\ op[task[t].target].pc = "steerRejected" /\ op[task[t].target].task = t
<1>0. TypeOK /\ HandlerHoldsTask /\ SteersOnce
  BY DEF Stepping, Inv, SafeInv, TaskInv, DeliveryInv
<1> QED
  BY <1>0, RowTypes DEF IsRefused, HandlerHoldsTask, SteersOnce, SteerPC

\* A delivery in progress is in the hands of its target's handler.
LEMMA StillDispatchingIsHeld ==
  ASSUME Stepping
  PROVE  DispatchingIsHeld'
<1> SUFFICES ASSUME NEW t \in TaskId', task'[t].status = "dispatching"
             PROVE  op'[task'[t].target].task = t
  BY DEF DispatchingIsHeld
<1>1. TasksStep
  BY DEF Stepping, Summary
<1>2. t \in TaskId
  BY <1>1 DEF TasksStep, TaskComes
<1> QED
  BY <1>1, <1>2 DEF TasksStep, TaskMoves, IsClaimed

\* A handler has claimed the task it starts or steers; a steer is tried once.
LEMMA StillSteersOnce ==
  ASSUME Stepping
  PROVE  SteersOnce'
<1>0. /\ TypeOK /\ RunsStep /\ TasksStep /\ HandsStep /\ SteersOnce /\ HandlerHoldsTask
      /\ 0 \notin TaskId
  BY RowTypes DEF Stepping, Inv, SafeInv, TaskInv, DeliveryInv, Summary
<1> SUFFICES ASSUME NEW a \in Agent, op'[a].pc \in SteerPC \cup {"claimed"}
             PROVE  /\ op'[a].task # 0
                    /\ op'[a].pc \in SteerPC =>
                         /\ task'[op'[a].task].mode = "steer" /\ ~task'[op'[a].task].steerFallback
                         /\ op'[a].run \in RunId'
  BY DEF SteersOnce
<1> DEFINE t == op'[a].task
<1>1. Stays(a) \/ Steers(a) \/ Claims(a)
  BY <1>0 DEF HandsStep, HandMoves, Idle, Opens, Loads, Begins, Starts, Interrupts, Stops, StartPC, SteerPC
<1>2. /\ t # 0 /\ t \in TaskId /\ task[t].target = a
      /\ op'[a].pc \in SteerPC => task[t].mode = "steer" /\ ~task[t].steerFallback /\ op'[a].run \in RunId
  <2>1. CASE Stays(a) \/ Steers(a)
    <3>1. op[a].pc \in SteerPC \cup {"claimed"} /\ op[a].task = t /\ op'[a].run = op[a].run
          /\ (op'[a].pc \in SteerPC => op[a].pc \in SteerPC)
      BY <2>1 DEF Stays, Steers, SteerPC
    <3> QED
      BY <1>0, <3>1, HandlerType DEF SteersOnce, HandlerHoldsTask
  <2>2. CASE Claims(a)
    BY <1>0, <2>2 DEF Claims, Queued, Steerable, SteerPC, ActiveRuns
  <2> QED
    BY <1>1, <2>1, <2>2
<1>3. ~IsRefused(t)
  BY <1>2 DEF IsRefused, Idle, SteerPC
<1> QED
  BY <1>0, <1>2, <1>3, RunsStay DEF TasksStep, TaskMoves

\* Queued instructions to one target leave the queue in acceptance order: a claim takes
\* the first of the queue, and only a steer comes back.
LEMMA StillAcceptanceOrder ==
  ASSUME Stepping
  PROVE  AcceptanceOrder'
<1>0. TypeOK /\ TypeOK' /\ TasksStep /\ AcceptanceOrder
  BY DEF Stepping, Inv, SafeInv, TaskInv, Summary
<1> SUFFICES ASSUME NEW t \in TaskId', NEW u \in TaskId',
                    t < u, task'[t].target = task'[u].target,
                    task'[t].mode = "queue", task'[u].mode = "queue",
                    task'[u].status \notin {"queued", "cancelled"}, task'[t].status = "queued"
             PROVE  FALSE
  BY DEF AcceptanceOrder
<1>1. u \in TaskId
  BY <1>0 DEF TasksStep, TaskComes
<1>2. t \in TaskId
  BY <1>0, <1>1, RowTypes, NextTypes
<1>3. TaskMoves(t) /\ TaskMoves(u)
  BY <1>0, <1>1, <1>2 DEF TasksStep
<1>4. task[t].status = "queued"
  BY <1>2, <1>3, RefusedIsHeld DEF TaskMoves
<1>5. task[u].status \in {"queued", "cancelled"}
  BY <1>0, <1>1, <1>2, <1>3, <1>4 DEF TaskMoves, AcceptanceOrder
<1>6. task[u].status = "queued" /\ task'[u].status = "dispatching"
  BY <1>3, <1>5 DEF TaskMoves
<1>7. IsFirst(u, Queued(task[u].target))
  BY <1>3, <1>6 DEF TaskMoves, IsClaimed
<1>8. t \in Queued(task[u].target)
  BY <1>2, <1>3, <1>4 DEF Queued, TaskMoves
<1>9. u <= t
  BY <1>7, <1>8 DEF IsFirst
<1> QED
  BY <1>0, <1>1, <1>2, <1>9, RowTypes

\* A steer that a turn has refused is not redirected: while it is in flight at the step
\* that answers a refusal nothing has delivered it.
LEMMA RefusedStillStarts ==
  ASSUME Stepping
  PROVE  RefusedSteerStartsItsOwnTurn'
<1>0. /\ TypeOK /\ TasksStep /\ HistoryStep /\ RefusedSteerStartsItsOwnTurn
      /\ SteersOnce /\ HandlerHoldsTask /\ DeliveredIsNotPending /\ 0 \notin TaskId
  BY RowTypes DEF Stepping, Inv, SafeInv, TaskInv, DeliveryInv, Summary
<1> SUFFICES ASSUME NEW i \in inputs', i.task # 0, task'[i.task].steerFallback
             PROVE  i.how = "start"
  BY DEF RefusedSteerStartsItsOwnTurn
<1>1. CASE i \in inputs
  <2>1. i.task \in TaskId /\ InFlight(i.task, SentPC \cup {"steered", "steerLost"})
    BY <1>0, <1>1 DEF DeliveredIsNotPending
  <2>2. ~IsRefused(i.task)
    BY <2>1, RefusedIsHeld DEF InFlight, SentPC
  <2>3. task[i.task].steerFallback
    BY <1>0, <2>1, <2>2 DEF TasksStep, TaskMoves
  <2> QED
    BY <1>0, <1>1, <2>3 DEF RefusedSteerStartsItsOwnTurn
<1>2. CASE i \notin inputs
  <2>1. InputComes(i)
    BY <1>0, <1>2 DEF HistoryStep
  <2>2. ASSUME NEW a \in Agent, op[a].pc = "steering", i.task = op[a].task PROVE FALSE
    <3>1. i.task \in TaskId /\ task[i.task].target = a /\ ~task[i.task].steerFallback
      BY <1>0, <2>2, HandlerType DEF HandlerHoldsTask, SteersOnce, SteerPC
    <3>2. ~IsRefused(i.task)
      BY <2>2, <3>1 DEF IsRefused
    <3> QED
      BY <1>0, <3>1, <3>2 DEF TasksStep, TaskMoves
  <2> QED
    BY <2>1, <2>2 DEF InputComes
<1> QED
  BY <1>1, <1>2

\* What may call back was requested by a run of its sender.
LEMMA CallerStillKnown ==
  ASSUME Stepping
  PROVE  CallerIsKnown'
<1>0. RunsStep /\ TasksStep /\ CallerIsKnown
  BY DEF Stepping, SafeInv, TaskInv, Summary
<1> SUFFICES ASSUME NEW t \in TaskId', task'[t].completionMode = "notify"
             PROVE  task'[t].senderRun \in RunId' /\ run'[task'[t].senderRun].agent = task'[t].sender
  BY DEF CallerIsKnown
<1>1. task'[t].senderRun \in RunId /\ run[task'[t].senderRun].agent = task'[t].sender
  <2>1. CASE t \in TaskId
    BY <1>0, <2>1 DEF TasksStep, TaskMoves, CallerIsKnown
  <2>2. CASE t \notin TaskId
    BY <1>0, <2>2 DEF TasksStep, TaskComes, ActiveRuns
  <2> QED
    BY <2>1, <2>2
<1> QED
  BY <1>0, <1>1, RunsStay

\* A receipt calls back the sender of a task that asked for it, and nobody else; the
\* links between a task and its receipt go both ways.
LEMMA ReceiptStillLinked ==
  ASSUME Stepping
  PROVE  ReceiptIsLinked' /\ OneNotificationPerTask'
<1>0. TypeOK /\ TypeOK' /\ TasksStep /\ ReceiptIsLinked /\ OneNotificationPerTask
  BY DEF Stepping, Inv, SafeInv, TaskInv, Summary
<1>1. \A t \in TaskId : /\ task[t].notificationFor \in TaskId \cup {0}
                        /\ task[t].completionTask \in TaskId \cup {0}
  BY <1>0, LinksLead
<1>2. ASSUME NEW t \in TaskId'
      PROVE  /\ task'[t].notificationFor # 0 =>
                  /\ task'[t].completionMode = "poll"
                  /\ task'[task'[t].notificationFor].completionMode = "notify"
                  /\ task'[t].target = task'[task'[t].notificationFor].sender
             /\ task'[t].completionTask # 0 => task'[task'[t].completionTask].notificationFor = t
  <2>1. CASE t \in TaskId
    <3> DEFINE f == task[t].notificationFor
               c == task[t].completionTask
    <3>0. TaskMoves(t) /\ f \in TaskId \cup {0} /\ c \in TaskId \cup {0}
      BY <1>0, <1>1, <2>1 DEF TasksStep
    <3>1. f # 0 => TaskMoves(f)
      BY <1>0, <3>0 DEF TasksStep
    <3>2. c # 0 => TaskMoves(c)
      BY <1>0, <3>0 DEF TasksStep
    <3> QED
      BY <1>0, <2>1, <3>0, <3>1, <3>2, SMTT(30) DEF TaskMoves, ReceiptIsLinked
  <2>2. CASE t \notin TaskId
    BY <1>0, <2>2 DEF TasksStep, TaskComes, TaskMoves
  <2> QED
    BY <2>1, <2>2, Zenon
<1>3. ASSUME NEW n \in TaskId', task'[n].notificationFor # 0
      PROVE  /\ task'[n].notificationFor < n
             /\ task'[task'[n].notificationFor].completionTask = n
             /\ task'[n].completionTask = 0
  <2>1. CASE n \in TaskId
    <3> DEFINE f == task[n].notificationFor
    <3>0. TaskMoves(n) /\ f \in TaskId /\ task'[n].notificationFor = f
      BY <1>0, <1>1, <1>3, <2>1 DEF TasksStep, TaskMoves
    <3>1. f < n /\ task[f].completionTask = n /\ task[n].completionTask = 0 /\ n # 0
      BY <1>0, <2>1, <3>0, RowTypes DEF OneNotificationPerTask
    <3>2. task[n].completionMode = "poll"
      BY <1>0, <2>1, <3>0, RowTypes DEF ReceiptIsLinked
    <3>3. TaskMoves(f)
      BY <1>0, <3>0 DEF TasksStep
    <3> QED
      BY <3>0, <3>1, <3>2, <3>3 DEF TaskMoves
  <2>2. CASE n \notin TaskId
    BY <1>0, <1>3, <2>2 DEF TasksStep, TaskComes
  <2> QED
    BY <2>1, <2>2
<1> QED
  BY <1>2, <1>3 DEF ReceiptIsLinked, OneNotificationPerTask

\* Once Stop run has been acknowledged nothing calls the run's agent back.
LEMMA StopRunStillSilences ==
  ASSUME Stepping
  PROVE  StopRunSilences'
<1>0. /\ TypeOK /\ TypeOK' /\ TasksStep /\ HistoryStep /\ HandlerHoldsOwnRun /\ HandlerHoldsTask
      /\ StopRunSilences /\ SilencedIsOver /\ DispatchingIsHeld /\ CallerIsKnown /\ ReceiptIsLinked
      /\ ReceiptIsLinked' /\ 0 \notin RunId
  BY ReceiptStillLinked, RowTypes
     DEF Stepping, Inv, RelayInv, DeliveryInv, SafeInv, RunInv, TaskInv, Summary
<1> SUFFICES ASSUME NEW t \in TaskId', task'[t].senderRun \in silenced',
                    task'[t].notificationFor = 0, task'[t].completionMode = "notify"
             PROVE  /\ task'[t].completionTask # 0
                    /\ task'[task'[t].completionTask].status \notin {"queued", "dispatching"}
  BY DEF StopRunSilences
<1>1. t \in TaskId
  <2> SUFFICES ASSUME t \notin TaskId PROVE FALSE
    OBVIOUS
  <2>1. task'[t].senderRun \in RunId /\ run[task'[t].senderRun].status \in Live
    BY <1>0 DEF TasksStep, TaskComes, ActiveRuns
  <2>2. run[task'[t].senderRun].status \in RunTerminal
    BY <1>0 DEF HistoryStep, IsSilenced, SilencedIsOver
  <2> QED
    BY <2>1, <2>2 DEF Live, RunTerminal
<1>2. TaskMoves(t) /\ task[t].notificationFor = 0 /\ task[t].completionMode = "notify"
      /\ task[t].senderRun = task'[t].senderRun /\ task[t].completionTask \in TaskId \cup {0}
  BY <1>0, <1>1, LinksLead DEF TasksStep, TaskMoves
<1>3. CASE task[t].senderRun \in silenced
  <2> DEFINE c == task[t].completionTask
  <2>1. c \in TaskId /\ task[c].status \notin {"queued", "dispatching"}
    BY <1>0, <1>1, <1>2, <1>3, Zenon DEF StopRunSilences
  <2>2. task'[t].completionTask = c /\ TaskMoves(c) /\ c # 0
    BY <1>0, <1>2, <2>1, RowTypes DEF TaskMoves, TasksStep
  <2>3. ~IsRefused(c)
    BY <2>1, RefusedIsHeld
  <2> QED
    BY <2>1, <2>2, <2>3 DEF TaskMoves
<1>4. CASE task[t].senderRun \notin silenced
  <2>1. PICK a \in Agent : IsSilenced(a)
    BY <1>0, <1>2, <1>4 DEF HistoryStep
  <2>2. task[t].senderRun = op[a].run
    BY <1>2, <1>4, <2>1 DEF IsSilenced
  <2>3. task[t].sender = a
    BY <1>0, <1>1, <1>2, <2>2 DEF CallerIsKnown, HandlerHoldsOwnRun
  <2> DEFINE c == task'[t].completionTask
  <2>4. c # 0 /\ c \in TaskId'
    BY <1>0, <1>1, <1>2, <2>1, <2>3, NextTypes DEF IsSilenced, TypeOK, TasksTyped
  <2>5. CASE c \notin TaskId
    BY <2>1, <2>4, <2>5 DEF IsSilenced
  <2>6. CASE c \in TaskId
    <3>1. c = task[t].completionTask
      BY <1>2, <2>6 DEF TaskMoves
    <3>2. task[c].notificationFor = t /\ task[c].target = a /\ t # 0
      BY <1>0, <1>1, <2>3, <2>4, <2>6, <3>1, RowTypes DEF ReceiptIsLinked
    <3>3. task'[c].status # "queued"
      BY <2>1, <2>6, <3>2 DEF IsSilenced
    <3>4. task[c].status # "dispatching" /\ ~IsClaimed(c)
      BY <1>0, <2>1, <2>4, <2>6, <3>2 DEF IsSilenced, DispatchingIsHeld, HandlerHoldsTask, IsClaimed, StartPC
    <3> QED
      BY <1>0, <2>4, <2>6, <3>3, <3>4 DEF TasksStep, TaskMoves
  <2> QED
    BY <2>5, <2>6
<1> QED
  BY <1>3, <1>4

\* The formulas about tasks survive.
LEMMA TaskInvSurvives ==
  ASSUME Stepping
  PROVE  TaskInv'
BY StillDispatchingIsHeld, StillSteersOnce, StillAcceptanceOrder, RefusedStillStarts, CallerStillKnown,
   ReceiptStillLinked, StopRunStillSilences DEF TaskInv

-----------------------------------------------------------------------------
(* The formulas about notifications survive.                               *)

\* The conversation that asked for a notification is written once.
LEMMA RequestedStays ==
  ASSUME Stepping, NEW t \in TaskId, task'[t].notificationFor # 0
  PROVE  task[t].notificationFor # 0 /\ Requested(t)' = Requested(t)
<1>0. TypeOK /\ TasksStep /\ RunsStep /\ ReceiptIsLinked /\ CallerIsKnown
  BY DEF Stepping, Inv, SafeInv, TaskInv, Summary
<1> DEFINE f == task[t].notificationFor
<1>1. f # 0 /\ task'[t].notificationFor = f /\ f \in TaskId
  BY <1>0, LinksLead DEF TasksStep, TaskMoves
<1>2. task[f].senderRun \in RunId /\ task'[f].senderRun = task[f].senderRun
  BY <1>0, <1>1 DEF TasksStep, TaskMoves, ReceiptIsLinked, CallerIsKnown
<1>3. run'[task[f].senderRun].conversation = run[task[f].senderRun].conversation
  BY <1>0, <1>2, RunsStay
<1> QED
  BY <1>1, <1>2, <1>3 DEF Requested

\* A handler that holds the lock keeps New chat out.
LEMMA ConversationHeld ==
  ASSUME Stepping, NEW a \in Agent, op[a].pc # "idle"
  PROVE  conv'[a] = conv[a]
BY DEF Stepping, Summary, HistoryStep, Idle

\* No stale notification is left in the queue that a dispatcher selects from.
LEMMA SelectStillFresh ==
  ASSUME Stepping, NEW a \in Agent, op'[a].pc = "select",
         NEW t \in Queued(a)', task'[t].notificationFor # 0
  PROVE  Requested(t)' = conv'[a]
<1>0. /\ TypeOK /\ TasksStep /\ HandMoves(a) /\ DispatcherIsFresh
  BY DEF Stepping, Inv, SafeInv, FreshInv, Summary, HandsStep
<1>1. t \in TaskId' /\ task'[t].target = a /\ task'[t].status = "queued"
  BY DEF Queued
<1>2. CASE Stays(a)
  <2>1. op[a].pc = "select" /\ conv'[a] = conv[a]
    BY <1>2, ConversationHeld DEF Stays
  <2>2. t \in TaskId
    BY <1>0, <1>1, <2>1 DEF TasksStep, TaskComes
  <2>3. TaskMoves(t)
    BY <1>0, <2>2 DEF TasksStep
  <2>4. t \in Queued(a)
    BY <1>1, <2>1, <2>2, <2>3 DEF TaskMoves, IsRefused, Queued
  <2> QED
    BY <1>0, <2>1, <2>2, <2>4, RequestedStays, RowTypes DEF DispatcherIsFresh, IsNotification
<1>3. CASE Loads(a)
  <2>1. t \in TaskId /\ conv'[a] = conv[a]
    BY <1>1, <1>3 DEF Loads
  <2>2. task[t].target = a
    BY <1>0, <1>1, <2>1 DEF TasksStep, TaskMoves
  <2>3. Requested(t) = conv[a]
    BY <1>1, <1>3, <2>1, <2>2, RequestedStays DEF Loads
  <2> QED
    BY <2>1, <2>3, RequestedStays
<1> QED
  BY <1>0, <1>2, <1>3 DEF HandMoves, Idle, Opens, Claims, Steers, Begins, Starts, Interrupts, Stops,
                          StartPC, SteerPC

\* What a dispatcher has claimed or steers goes to the conversation that asked for it.
LEMMA DispatcherStillFresh ==
  ASSUME Stepping
  PROVE  DispatcherIsFresh'
<1>0. /\ TypeOK /\ TypeOK' /\ RunsStep /\ TasksStep /\ HandsStep /\ DispatcherIsFresh
      /\ SteersOnce /\ HandlerHoldsTask /\ ActiveChatIsCurrent /\ 0 \notin TaskId
  BY RowTypes DEF Stepping, Inv, DeliveryInv, SafeInv, RunInv, TaskInv, FreshInv, Summary
<1>1. ASSUME NEW a \in Agent, op'[a].pc = "select", NEW t \in Queued(a)', IsNotification(t)'
      PROVE  Requested(t)' = conv'[a]
  BY <1>1, SelectStillFresh DEF IsNotification
<1>2. ASSUME NEW a \in Agent, NEW t, t = op'[a].task, op'[a].pc \in {"claimed", "steering"},
             t # 0, task'[t].notificationFor # 0
      PROVE  /\ op'[a].pc = "claimed" => Requested(t)' = conv'[a]
             /\ op'[a].pc = "steering" => Requested(t)' = run'[op'[a].run].conversation
  <2>1. Stays(a) \/ Claims(a)
    BY <1>0, <1>2 DEF HandsStep, HandMoves, Idle, Opens, Loads, Steers, Begins, Starts, Interrupts, Stops,
                      StartPC, SteerPC
  <2>2. conv'[a] = conv[a]
    BY <1>2, <2>1, ConversationHeld DEF Stays, Claims
  <2>3. t \in TaskId
    BY <1>0, <1>2, <2>1, HandlerType DEF Stays, Claims, Queued
  <2>4. task[t].notificationFor # 0 /\ Requested(t)' = Requested(t)
    BY <1>2, <2>3, RequestedStays
  <2>5. CASE Stays(a)
    <3>1. op'[a].pc = op[a].pc /\ op[a].task = t /\ op'[a].run = op[a].run
      BY <1>2, <2>5 DEF Stays
    <3>2. op[a].pc = "steering" => run'[op[a].run].conversation = run[op[a].run].conversation
      BY <1>0, RunsStay DEF SteersOnce, SteerPC
    <3> QED
      BY <1>0, <1>2, <2>2, <2>4, <3>1, <3>2 DEF DispatcherIsFresh, IsNotification
  <2>6. CASE Claims(a)
    <3>1. op[a].pc = "select" /\ t \in Queued(a)
      BY <1>2, <2>6 DEF Claims
    <3>2. Requested(t) = conv[a]
      BY <1>0, <1>2, <2>4, <3>1 DEF DispatcherIsFresh, IsNotification
    <3>3. op'[a].pc = "steering" => run'[op'[a].run].conversation = conv[a]
      BY <1>0, <2>6 DEF Claims, ActiveRuns, ActiveChatIsCurrent
    <3> QED
      BY <2>2, <2>4, <3>2, <3>3
  <2> QED
    BY <2>1, <2>5, <2>6
<1>3. ASSUME NEW a \in Agent
      PROVE  /\ op'[a].pc = "claimed" /\ IsNotification(op[a].task)' => Requested(op[a].task)' = conv'[a]
             /\ op'[a].pc = "steering" /\ IsNotification(op[a].task)' =>
                  Requested(op[a].task)' = run'[op'[a].run].conversation
  <2>1. PICK t : t = op'[a].task
    OBVIOUS
  <2>2. /\ IsNotification(op[a].task)' <=> t # 0 /\ task'[t].notificationFor # 0
        /\ Requested(op[a].task)' = Requested(t)'
    BY <2>1 DEF IsNotification, Requested
  <2> QED
    BY <1>2, <2>1, <2>2
<1> QED
  BY <1>1, <1>3 DEF DispatcherIsFresh

\* A run of a notification's own is in the conversation that asked for it.
LEMMA OwnRunStillFresh ==
  ASSUME Stepping
  PROVE  OwnRunIsFresh'
<1>0. /\ TypeOK /\ TypeOK' /\ RunsStep /\ DispatcherIsFresh /\ OwnRunIsFresh /\ HandlerHoldsTask
  BY DEF Stepping, Inv, DeliveryInv, SafeInv, FreshInv, Summary
<1>1. ASSUME NEW r \in RunId', NEW t, t = run'[r].task, t # 0, task'[t].notificationFor # 0
      PROVE  run'[r].conversation = Requested(t)'
  <2>1. CASE r \in RunId
    <3>1. run[r].task = t /\ run'[r].conversation = run[r].conversation
      BY <1>0, <1>1, <2>1, RunsStay
    <3>2. t \in TaskId
      BY <1>0, <1>1, <2>1, <3>1, RowTypes
    <3>3. task[t].notificationFor # 0 /\ Requested(t)' = Requested(t)
      BY <1>1, <3>2, RequestedStays
    <3> QED
      BY <1>0, <1>1, <2>1, <3>1, <3>3 DEF OwnRunIsFresh, IsNotification
  <2>2. CASE r \notin RunId
    <3>1. PICK a \in Agent : RunComes(r, a)
      BY <1>0, <1>1, <2>2 DEF RunsStep
    <3>2. op[a].pc = "claimed" /\ run'[r].conversation = conv[a] /\ op[a].task = t
      BY <1>1, <3>1 DEF RunComes, Idle
    <3>3. t \in TaskId
      BY <1>0, <1>1, <3>2, HandlerType
    <3>4. task[t].notificationFor # 0 /\ Requested(t)' = Requested(t)
      BY <1>1, <3>3, RequestedStays
    <3> QED
      BY <1>0, <1>1, <3>2, <3>4 DEF DispatcherIsFresh, IsNotification
  <2> QED
    BY <2>1, <2>2
<1>2. ASSUME NEW r \in RunId', IsNotification(run[r].task)'
      PROVE  run'[r].conversation = Requested(run[r].task)'
  <2>1. PICK t : t = run'[r].task
    OBVIOUS
  <2>2. t # 0 /\ task'[t].notificationFor # 0 /\ Requested(run[r].task)' = Requested(t)'
    BY <1>2, <2>1 DEF IsNotification, Requested
  <2> QED
    BY <1>1, <2>1, <2>2
<1> QED
  BY <1>2 DEF OwnRunIsFresh

\* A completion notification enters only the conversation that asked for it.
LEMMA NotificationStillEnters ==
  ASSUME Stepping
  PROVE  NotificationEntersItsConversation'
<1>0. /\ TypeOK /\ RunsStep /\ HistoryStep /\ DispatcherIsFresh /\ OwnRunIsFresh
      /\ NotificationEntersItsConversation /\ InputNamesItsRun /\ SteersOnce
      /\ DeliveredIsNotPending
  BY DEF Stepping, Inv, DeliveryInv, SafeInv, TaskInv, FreshInv, OutcomeInv, Summary
<1> SUFFICES ASSUME NEW i \in inputs', i.task # 0, task'[i.task].notificationFor # 0
             PROVE  run'[i.run].conversation = Requested(i.task)'
  BY Zenon DEF NotificationEntersItsConversation, Requested
<1>1. CASE i \in inputs
  <2>1. i.task \in TaskId /\ i.run \in RunId
    BY <1>0, <1>1 DEF DeliveredIsNotPending, InputNamesItsRun
  <2>2. task[i.task].notificationFor # 0 /\ Requested(i.task)' = Requested(i.task)
    BY <2>1, RequestedStays
  <2> QED
    BY <1>0, <1>1, <2>1, <2>2, RunsStay DEF NotificationEntersItsConversation, Requested
<1>2. CASE i \notin inputs
  <2>1. InputComes(i)
    BY <1>0, <1>2 DEF HistoryStep
  <2>2. ASSUME i.run \in RunId, i.task = run[i.run].task
        PROVE  run'[i.run].conversation = Requested(i.task)'
    <3>1. i.task \in TaskId
      BY <1>0, <2>2, RowTypes
    <3> QED
      BY <1>0, <2>2, <3>1, RequestedStays, RunsStay DEF OwnRunIsFresh, IsNotification
  <2>3. ASSUME NEW a \in Agent, op[a].pc = "steering", i.task = op[a].task, i.run = op[a].run
        PROVE  run'[i.run].conversation = Requested(i.task)'
    <3>1. i.task \in TaskId /\ i.run \in RunId
      BY <1>0, <2>3, HandlerType DEF SteersOnce, SteerPC
    <3> QED
      BY <1>0, <2>3, <3>1, RequestedStays, RunsStay DEF DispatcherIsFresh, IsNotification
  <2> QED
    BY <2>1, <2>2, <2>3 DEF InputComes
<1> QED
  BY <1>1, <1>2

\* The formulas about notifications survive.
LEMMA FreshInvSurvives ==
  ASSUME Stepping
  PROVE  FreshInv'
BY DispatcherStillFresh, OwnRunStillFresh, NotificationStillEnters DEF FreshInv

-----------------------------------------------------------------------------
(* The formulas about outcomes survive.                                    *)

\* What has entered a turn is what a reported outcome rests on.
LEMMA OutcomeInvSurvives ==
  ASSUME Stepping
  PROVE  OutcomeInv'
<1>0. /\ TypeOK /\ TypeOK' /\ RunsStep /\ TasksStep /\ HandsStep /\ HistoryStep
      /\ InputNamesItsRun /\ TurnWasStarted /\ HandlerHasDelivered /\ RunningIsDelivered
      /\ SteersOnce /\ inputs \subseteq inputs'
  BY DEF Stepping, Inv, SafeInv, TaskInv, OutcomeInv, Summary, HistoryStep
<1>1. InputNamesItsRun'
  <2> SUFFICES ASSUME NEW i \in inputs'
               PROVE  i.run \in RunId' /\ (i.how = "start" => i.task = run'[i.run].task)
    BY DEF InputNamesItsRun
  <2>1. i.run \in RunId /\ (i.how = "start" => i.task = run[i.run].task)
    <3>1. CASE i \in inputs
      BY <1>0, <3>1 DEF InputNamesItsRun
    <3>2. CASE i \notin inputs
      BY <1>0, <3>2 DEF HistoryStep, InputComes, SteersOnce, SteerPC
    <3> QED
      BY <3>1, <3>2
  <2> QED
    BY <1>0, <2>1, RunsStay
<1>2. \A r : TurnStarted(r) => NextStarted(r)
  BY <1>0 DEF TurnStarted, NextStarted
<1>3. TurnWasStarted'
  <2> SUFFICES ASSUME NEW r \in RunId',
                      run'[r].outbox \in {"live", "completed"} \/ run'[r].status = "completed"
               PROVE  NextStarted(r)
    BY DEF TurnWasStarted, NextStarted, TurnStarted
  <2>1. CASE RunId' = RunId /\ \A q \in RunId : RunMoves(q)
    BY <1>0, <1>2, <2>1 DEF RunMoves, TurnWasStarted
  <2>2. CASE r \in RunId /\ run'[r] = run[r]
    BY <1>0, <1>2, <2>2 DEF TurnWasStarted
  <2>3. CASE \E a \in Agent : RunComes(r, a)
    BY <2>3 DEF RunComes
  <2> QED
    BY <1>0, <2>1, <2>2, <2>3 DEF RunsStep
<1>4. HandlerHasDelivered'
  <2> SUFFICES ASSUME NEW a \in Agent
               PROVE  /\ op'[a].pc \in {"accepted", "started"} => NextStarted(op'[a].run)
                      /\ op'[a].pc = "steered" =>
                           \E i \in inputs' : i.task = op'[a].task /\ i.run = op'[a].run
    BY DEF HandlerHasDelivered, NextStarted, TurnStarted
  <2>1. CASE op'[a].pc \in {"accepted", "started"}
    <3>1. Stays(a) \/ Starts(a)
      BY <1>0, <2>1 DEF HandsStep, HandMoves, Idle, Opens, Loads, Claims, Steers, Begins, Interrupts, Stops, SteerPC
    <3> QED
      BY <1>0, <1>2, <2>1, <3>1 DEF Stays, Starts, HandlerHasDelivered
  <2>2. CASE op'[a].pc = "steered"
    <3>1. Stays(a) \/ Steers(a)
      BY <1>0, <2>2 DEF HandsStep, HandMoves, Idle, Opens, Loads, Claims, Starts, Begins, Interrupts, Stops, StartPC
    <3> QED
      BY <1>0, <2>2, <3>1 DEF Stays, Steers, HandlerHasDelivered
  <2> QED
    BY <2>1, <2>2
<1>5. RunningIsDelivered'
  <2> SUFFICES ASSUME NEW t \in TaskId', task'[t].status \in {"running", "completed"}
               PROVE  \E i \in inputs' : i.task = t /\ i.run = task'[t].run
    BY DEF RunningIsDelivered
  <2>1. TaskMoves(t) /\ t \in TaskId
    BY <1>0 DEF TasksStep, TaskComes
  <2> QED
    BY <1>0, <2>1 DEF TaskMoves, RunningIsDelivered
<1> QED
  BY <1>1, <1>3, <1>4, <1>5 DEF OutcomeInv

\* Every formula of SafeInv survives a step within the summary.
LEMMA SafeInvSurvives ==
  ASSUME Stepping
  PROVE  SafeInv'
BY RunInvSurvives, TaskInvSurvives, FreshInvSurvives, OutcomeInvSurvives DEF SafeInv

-----------------------------------------------------------------------------
(* Every action is within the summary.  First the parts it leaves alone.   *)

\* What an action starts from, and where it is known to lead.
Ready == Inv /\ Inv' /\ SafeInv

\* The rows a step starts from.
LEMMA ReadyRows ==
  ASSUME Ready
  PROVE  /\ TypeOK /\ TypeOK'
         /\ \A t \in TaskId : task[t] \in Task /\ task[t].target \in Agent
         /\ \A r \in RunId : run[r] \in Run /\ run[r].agent \in Agent
         /\ 0 \notin TaskId /\ 0 \notin RunId
         /\ task \in [TaskId -> Task] /\ run \in [RunId -> Run]
         /\ \A a \in Agent : op[a] \in Operation /\ op[a].task \in TaskId \cup {0} /\ op[a].run \in RunId \cup {0}
BY RowTypes, HandlerType DEF Ready, Inv

\* Runs that are not written.
LEMMA RunsKept ==
  ASSUME UNCHANGED run
  PROVE  RunsStep
<1>1. RunId' = RunId
  BY DEF RunId
<1>2. \A r \in RunId : RunMoves(r)
  BY DEF RunMoves, Live, RunTerminal
<1> QED
  BY <1>1, <1>2 DEF RunsStep

\* A handler that holds a task goes on with it.
KeepsTask(a) == op[a].task # 0 => op'[a].task = op[a].task

\* A task that is not written is within the summary while its handler holds it.
LEMMA TaskUntouched ==
  ASSUME Ready, NEW t \in TaskId, task'[t] = task[t],
         KeepsTask(task[t].target) \/ op[task[t].target].task # t
  PROVE  TaskMoves(t)
<1>1. task[t].status = "dispatching" => op'[task[t].target].task = t
  BY ReadyRows DEF Ready, SafeInv, TaskInv, DispatchingIsHeld, KeepsTask
<1> QED
  BY <1>1, ReadyRows DEF TaskMoves, Pending, Terminal, RunTerminal, Task

\* Tasks that are not written.
LEMMA TasksKept ==
  ASSUME Ready, UNCHANGED task, \A a \in Agent : KeepsTask(a)
  PROVE  TasksStep
<1>1. TaskId' = TaskId
  BY DEF TaskId
<1>2. \A t \in TaskId : TaskMoves(t)
  BY TaskUntouched, ReadyRows
<1> QED
  BY <1>1, <1>2 DEF TasksStep

\* Handlers that do not move.
LEMMA HandsKept ==
  ASSUME UNCHANGED op
  PROVE  HandsStep /\ \A a \in Agent : Stays(a) /\ KeepsTask(a)
BY DEF HandsStep, HandMoves, Stays, KeepsTask

\* One handler moves.
LEMMA OneHand ==
  ASSUME Ready, NEW a \in Agent, NEW h, op' = [op EXCEPT ![a] = h]
  PROVE  /\ op'[a] = h /\ \A b \in Agent : b # a => op'[b] = op[b] /\ Stays(b) /\ KeepsTask(b)
         /\ HandMoves(a) => HandsStep
         /\ KeepsTask(a) => \A b \in Agent : KeepsTask(b)
<1>1. \A b \in Agent : op'[b] = IF b = a THEN h ELSE op[b]
  BY ReadyRows, OneHandlerMoves
<1> QED
  BY <1>1 DEF HandsStep, HandMoves, Stays, KeepsTask

\* It goes on to another pc.
LEMMA OneSteps ==
  ASSUME Ready, NEW a \in Agent, NEW pc, Step(a, pc)
  PROVE  /\ op'[a].pc = pc /\ op'[a].task = op[a].task /\ op'[a].run = op[a].run
         /\ op'[a].gone = op[a].gone
         /\ \A b \in Agent : b # a => op'[b] = op[b] /\ Stays(b) /\ KeepsTask(b)
         /\ HandMoves(a) => HandsStep
         /\ \A b \in Agent : KeepsTask(b)
<1> DEFINE h == [op[a] EXCEPT !.pc = pc]
<1>1. op' = [op EXCEPT ![a] = h]
  BY DEF Step
<1>2. h.pc = pc /\ h.task = op[a].task /\ h.run = op[a].run /\ h.gone = op[a].gone
  BY ReadyRows DEF Operation
<1> HIDE DEF h
<1>3. KeepsTask(a)
  BY <1>1, <1>2, OneHand DEF KeepsTask
<1> QED
  BY <1>1, <1>2, <1>3, OneHand

\* It returns.
LEMMA OneReturns ==
  ASSUME Ready, NEW a \in Agent, Return(a)
  PROVE  /\ op'[a] = Idle /\ HandsStep
         /\ \A b \in Agent : b # a => op'[b] = op[b] /\ Stays(b) /\ KeepsTask(b)
         /\ op[a].task = 0 => \A b \in Agent : KeepsTask(b)
<1>1. op' = [op EXCEPT ![a] = Idle]
  BY DEF Return
<1> QED
  BY <1>1, OneHand DEF HandMoves, KeepsTask

\* Without a task in hand a return drops none.
LEMMA NoTaskInHand ==
  ASSUME Ready, NEW a \in Agent, op[a].pc \notin DeliveryPC
  PROVE  op[a].task = 0
BY NoTask DEF Ready, Inv

\* Conversations, archive and history that are not written.
LEMMA HistoryKept ==
  ASSUME UNCHANGED <<inputs, silenced, archived, conv>>
  PROVE  HistoryStep
BY DEF HistoryStep

\* What a run may become, as a value of its row.
RowMoves(r, row) ==
  /\ row.agent = run[r].agent /\ row.conversation = run[r].conversation
  /\ row.source = run[r].source /\ row.task = run[r].task
  /\ run[r].status \in RunTerminal => row.status \in RunTerminal
  /\ row.status = "completed" => "completed" \in {run[r].status, run[r].outbox}
  /\ row.outbox \in {"live", "completed"} => run[r].outbox \in {"live", "completed"} \/ NextStarted(r)
  /\ \/ row.status = run[r].status /\ row.relay = run[r].relay
     \/ run[r].relay # "off"
     \/ \E a \in Agent : op[a].run = r /\ ~Stays(a)
     \/ \A a \in Agent : op'[a] = Idle

\* One run is written.
LEMMA OneRun ==
  ASSUME Ready, NEW r, NEW row, run' = [run EXCEPT ![r] = row], r \in RunId => RowMoves(r, row)
  PROVE  RunsStep
<1>1. DOMAIN run' = RunId /\ \A q \in RunId : run'[q] = IF q = r THEN row ELSE run[q]
  BY ReadyRows
<1>2. RunId' = RunId
  BY <1>1 DEF RunId
<1>3. ASSUME NEW q \in RunId PROVE RunMoves(q)
  <2>1. CASE q = r
    BY <1>1, <2>1 DEF RunMoves, RowMoves
  <2>2. CASE q # r
    BY <1>1, <2>2 DEF RunMoves, Live, RunTerminal
  <2> QED
    BY <2>1, <2>2
<1> QED
  BY <1>2, <1>3 DEF RunsStep

\* The whole table is rewritten.
LEMMA AllRuns ==
  ASSUME Ready, DOMAIN run' = RunId, \A r \in RunId : RowMoves(r, run'[r])
  PROVE  RunsStep
<1>1. RunId' = RunId
  BY DEF RunId
<1>2. \A r \in RunId : RunMoves(r)
  BY DEF RunMoves, RowMoves
<1> QED
  BY <1>1, <1>2 DEF RunsStep

\* Queued tasks are cancelled.
LEMMA SomeCancelled ==
  ASSUME Ready, NEW S, S \subseteq {t \in TaskId : task[t].status = "queued"}, task' = Cancelled(S),
         \A a \in Agent : KeepsTask(a)
  PROVE  TasksStep
<1>1. TaskId' = TaskId
  BY DEF TaskId, Cancelled
<1>2. ASSUME NEW t \in TaskId PROVE TaskMoves(t)
  <2>0. task[t] \in Task
    BY ReadyRows
  <2>1. CASE t \in S
    <3>1. task'[t] = [task[t] EXCEPT !.status = "cancelled"] /\ task[t].status = "queued"
      BY <2>1 DEF Cancelled
    <3> QED
      BY <2>0, <3>1 DEF TaskMoves, Task, Terminal, RunTerminal
  <2>2. CASE t \notin S
    BY <2>2, TaskUntouched, ReadyRows DEF Cancelled
  <2> QED
    BY <2>1, <2>2
<1> QED
  BY <1>1, <1>2 DEF TasksStep

\* The row that SetCollaborationTaskState writes while the delivery is open.
LEMMA OpenRow ==
  ASSUME Ready, NEW t \in TaskId, task[t].status = "dispatching", NEW status, NEW r,
         task' = SetTaskState(t, status, r)
  PROVE  /\ TaskId' = TaskId
         /\ \A u \in TaskId : u # t => task'[u] = task[u]
         /\ task'[t].sender = task[t].sender /\ task'[t].senderRun = task[t].senderRun
         /\ task'[t].target = task[t].target /\ task'[t].mode = task[t].mode
         /\ task'[t].completionMode = task[t].completionMode
         /\ task'[t].notificationFor = task[t].notificationFor
         /\ task'[t].completionTask = task[t].completionTask
         /\ task'[t].status = status /\ task'[t].run = r
         /\ status # "queued" => task'[t].steerFallback = task[t].steerFallback
<1> DEFINE fallback == task[t].steerFallback \/ (status = "queued" /\ task[t].mode = "steer")
           confirmed == IF status = "running" THEN TRUE
                        ELSE IF status = "queued" THEN FALSE ELSE task[t].deliveryConfirmed
           row == [task[t] EXCEPT !.status = status, !.run = r,
                     !.steerFallback = fallback, !.deliveryConfirmed = confirmed]
<1>1. task \in [TaskId -> Task] /\ task[t] \in Task
  BY ReadyRows
<1>2. task' = [task EXCEPT ![t] = row]
  BY DEF SetTaskState
<1>3. status # "queued" => fallback = task[t].steerFallback
  <2>1. task[t].steerFallback \in BOOLEAN
    BY <1>1 DEF Task
  <2> QED
    BY <2>1, Zenon
<1> HIDE DEF fallback, confirmed
<1>4. /\ row.sender = task[t].sender /\ row.senderRun = task[t].senderRun
      /\ row.target = task[t].target /\ row.mode = task[t].mode
      /\ row.completionMode = task[t].completionMode /\ row.notificationFor = task[t].notificationFor
      /\ row.completionTask = task[t].completionTask /\ row.status = status /\ row.run = r
      /\ row.steerFallback = fallback
  BY <1>1 DEF Task
<1> HIDE DEF row
<1>5. DOMAIN task' = TaskId /\ \A u \in TaskId : task'[u] = IF u = t THEN row ELSE task[u]
  BY <1>1, <1>2
<1> QED
  BY <1>3, <1>4, <1>5 DEF TaskId

\* The handler of a writes the state of the task it delivers.
LEMMA OneSettles ==
  ASSUME Ready, NEW a \in Agent, NEW t \in TaskId, op[a].task = t,
         \A b \in Agent : b # a => KeepsTask(b),
         NEW status \in {"queued", "dispatching", "running", "failed", "unknown"}, NEW r,
         task' = SetTaskState(t, status, r),
         status = "queued" => IsRefused(t),
         status = "dispatching" => op'[a].task = t,
         status = "running" => \E i \in inputs' : i.task = t /\ i.run = r
  PROVE  TasksStep
<1>1. task[t].status = "dispatching" /\ task[t].target = a
  BY ReadyRows DEF Ready, Inv, DeliveryInv, HandlerHoldsTask
<1>2. TaskMoves(t)
  BY <1>1, OpenRow DEF TaskMoves, Terminal, RunTerminal
<1>3. ASSUME NEW u \in TaskId, u # t PROVE TaskMoves(u)
  <2>1. task'[u] = task[u]
    BY <1>1, <1>3, OpenRow
  <2>2. KeepsTask(task[u].target) \/ op[task[u].target].task # u
    BY <1>3, ReadyRows
  <2> QED
    BY <2>1, <2>2, TaskUntouched
<1>4. TaskId' = TaskId
  BY <1>1, OpenRow
<1> QED
  BY <1>2, <1>3, <1>4 DEF TasksStep

\* The dispatcher of a writes its claim.
LEMMA OneClaimed ==
  ASSUME Ready, NEW a \in Agent, NEW t \in TaskId, task[t].status = "queued", task[t].target = a,
         NEW r, task' = [task EXCEPT ![t] = [task[t] EXCEPT !.status = "dispatching", !.run = r]],
         IsClaimed(t), \A b \in Agent : KeepsTask(b)
  PROVE  TasksStep
<1> DEFINE row == [task[t] EXCEPT !.status = "dispatching", !.run = r]
<1>1. /\ row.sender = task[t].sender /\ row.senderRun = task[t].senderRun
      /\ row.target = task[t].target /\ row.mode = task[t].mode
      /\ row.completionMode = task[t].completionMode /\ row.notificationFor = task[t].notificationFor
      /\ row.completionTask = task[t].completionTask /\ row.steerFallback = task[t].steerFallback
      /\ row.status = "dispatching"
  BY ReadyRows DEF Task
<1>2. task' = [task EXCEPT ![t] = row]
  OBVIOUS
<1> HIDE DEF row
<1>3. DOMAIN task' = TaskId /\ \A u \in TaskId : task'[u] = IF u = t THEN row ELSE task[u]
  BY <1>2, ReadyRows
<1>4. TaskMoves(t)
  BY <1>1, <1>3 DEF TaskMoves, Terminal, RunTerminal
<1>5. \A u \in TaskId : u # t => TaskMoves(u)
  BY <1>3, TaskUntouched, ReadyRows
<1>6. TaskId' = TaskId
  BY <1>3 DEF TaskId
<1> QED
  BY <1>4, <1>5, <1>6 DEF TasksStep

\* The rows of a table that is extended by one.
LEMMA ExtendedRows ==
  ASSUME Ready, NEW rows, NEW new, task' = Append(rows, new),
         DOMAIN rows = TaskId, rows = [t \in TaskId |-> rows[t]]
  PROVE  /\ Len(task) + 1 \in Nat /\ \A t \in TaskId : t < Len(task) + 1
         /\ TaskId' = TaskId \cup {Len(task) + 1}
         /\ \A t \in TaskId : task'[t] = rows[t]
         /\ task'[Len(task) + 1] = new
<1> DEFINE S == {rows[t] : t \in TaskId} \cup {new}
<1>0. Len(task) \in Nat /\ TaskId = 1..Len(task)
  BY RowTypes DEF Ready, Inv
<1>1. rows \in Seq(S) /\ Len(rows) = Len(task)
  <2>1. rows \in [1..Len(task) -> S]
    BY <1>0
  <2> QED
    BY <1>0, <2>1, FunctionIsSequence
<1> HIDE DEF S
<1>2. new \in S
  BY DEF S
<1>3. /\ Len(task') = Len(task) + 1 /\ task' \in Seq(S)
      /\ \A t \in 1..Len(task) : task'[t] = rows[t]
      /\ task'[Len(task) + 1] = new
  BY <1>1, <1>2, AppendProperties
<1>4. DOMAIN task' = 1..(Len(task) + 1)
  BY <1>0, <1>3, LenProperties
<1> QED
  BY <1>0, <1>3, <1>4 DEF TaskId

\* A receipt is inserted and linked to its task.
LEMMA OneReceipt ==
  ASSUME Ready, NEW a \in Agent, NEW t \in PendingCompletions(a), NEW status \in {"queued", "cancelled"},
         task' = WithCompletion(t, status), \A b \in Agent : KeepsTask(b),
         status = "queued" => op[a].pc = "outbox" /\ op'[a].pc = "outbox"
  PROVE  TasksStep
<1> DEFINE n == Len(task) + 1
           row == [task[t] EXCEPT !.completionTask = n]
           rows == [task EXCEPT ![t] = row]
           receipt == CompletionReceipt(t, status)
<1>0. /\ t \in TaskId /\ task[t].sender = a /\ task[t].completionMode = "notify"
      /\ task[t].completionTask = 0 /\ task[t] \in Task /\ task \in [TaskId -> Task]
  BY ReadyRows DEF PendingCompletions, Uncompleted
<1>1. task' = Append(rows, receipt)
  BY DEF WithCompletion
<1> HIDE DEF n
<1>2. /\ row.sender = task[t].sender /\ row.senderRun = task[t].senderRun
      /\ row.target = task[t].target /\ row.mode = task[t].mode
      /\ row.completionMode = task[t].completionMode /\ row.notificationFor = task[t].notificationFor
      /\ row.steerFallback = task[t].steerFallback /\ row.status = task[t].status
      /\ row.run = task[t].run /\ row.completionTask = n
  BY <1>0 DEF Task
<1> HIDE DEF row
<1>3. receipt.status = status /\ receipt.completionTask = 0 /\ ~receipt.steerFallback
      /\ receipt.notificationFor = t /\ receipt.completionMode = "poll" /\ receipt.mode = "steer"
      /\ receipt.target = a
  BY <1>0 DEF CompletionReceipt
<1> HIDE DEF receipt
<1>4. /\ DOMAIN rows = TaskId /\ rows = [u \in TaskId |-> rows[u]]
      /\ rows[t] = row /\ \A u \in TaskId : u # t => rows[u] = task[u]
  BY <1>0
<1> HIDE DEF rows
<1>5. /\ n \in Nat /\ (\A u \in TaskId : u < n) /\ TaskId' = TaskId \cup {n}
      /\ (\A u \in TaskId : task'[u] = rows[u]) /\ task'[n] = receipt
  BY <1>1, <1>4, ExtendedRows DEF n
<1>6. n \notin TaskId
  <2>1. \A u \in TaskId : u # n
    BY <1>5, RowTypes DEF Ready, Inv
  <2> QED
    BY <2>1
<1>7. task[t].status = "dispatching" => op'[task[t].target].task = t
  BY <1>0, ReadyRows DEF Ready, SafeInv, TaskInv, DispatchingIsHeld, KeepsTask
<1>8. TaskMoves(t)
  BY <1>0, <1>2, <1>3, <1>4, <1>5, <1>6, <1>7 DEF TaskMoves, Pending, Terminal, RunTerminal, Task
<1>9. \A u \in TaskId : u # t => TaskMoves(u)
  BY <1>4, <1>5, TaskUntouched, ReadyRows
<1>10. TaskComes(n)
  BY <1>0, <1>2, <1>3, <1>4, <1>5 DEF TaskComes
<1> QED
  BY <1>5, <1>8, <1>9, <1>10 DEF TasksStep

\* A task accepted from a sender is appended.
LEMMA OneAccepted ==
  ASSUME Ready, NEW new, task' = Append(task, new), \A b \in Agent : KeepsTask(b),
         new.status = "queued", new.completionTask = 0, new.notificationFor = 0, ~new.steerFallback,
         new.completionMode = "notify" => new.senderRun \in ActiveRuns(new.sender)
  PROVE  TasksStep
<1> DEFINE n == Len(task) + 1
<1>1. DOMAIN task = TaskId /\ task = [t \in TaskId |-> task[t]]
  BY ReadyRows
<1>2. /\ n \in Nat /\ (\A t \in TaskId : t < n) /\ TaskId' = TaskId \cup {n}
      /\ (\A t \in TaskId : task'[t] = task[t]) /\ task'[n] = new
  BY <1>1, ExtendedRows
<1> HIDE DEF n
<1>3. \A t \in TaskId : TaskMoves(t)
  BY <1>2, TaskUntouched, ReadyRows
<1>4. TaskComes(n)
  BY <1>2 DEF TaskComes
<1> QED
  BY <1>2, <1>3, <1>4 DEF TasksStep

-----------------------------------------------------------------------------
(* Every action is within the summary, group by group.                     *)

\* The submission of a task.
LEMMA SubmissionWithin ==
  ASSUME Ready, NEW a \in Agent, Submission(a)
  PROVE  Summary
<1>1. UNCHANGED <<run, conv, archived, op, inputs, silenced>>
  BY DEF Submission, CollaborationSend, EnqueueCollaborationTask, SendReturns
<1>2. RunsStep /\ HandsStep /\ HistoryStep /\ \A b \in Agent : KeepsTask(b)
  BY <1>1, RunsKept, HandsKept, HistoryKept
<1>3. CASE CollaborationSend(a) \/ SendReturns(a)
  <2>1. UNCHANGED task
    BY <1>3 DEF CollaborationSend, SendReturns
  <2> QED
    BY <1>2, <2>1, TasksKept DEF Summary
<1>4. CASE EnqueueCollaborationTask(a)
  <2>1. PICK target, key, mode, completionMode :
          /\ completionMode = "notify" => MayNotify(a, seen[a])
          /\ task' = Append(task,
               [sender |-> a, senderRun |-> seen[a], target |-> target, key |-> key,
                mode |-> mode, completionMode |-> completionMode,
                completionTask |-> 0, notificationFor |-> 0,
                steerFallback |-> FALSE, deliveryConfirmed |-> FALSE,
                status |-> "queued", run |-> 0])
    BY <1>4 DEF EnqueueCollaborationTask
  <2> DEFINE new == [sender |-> a, senderRun |-> seen[a], target |-> target, key |-> key,
                     mode |-> mode, completionMode |-> completionMode,
                     completionTask |-> 0, notificationFor |-> 0,
                     steerFallback |-> FALSE, deliveryConfirmed |-> FALSE,
                     status |-> "queued", run |-> 0]
  <2>2. /\ new.status = "queued" /\ new.completionTask = 0 /\ new.notificationFor = 0
        /\ new.steerFallback = FALSE /\ new.sender = a /\ new.senderRun = seen[a]
        /\ new.completionMode = completionMode
    OBVIOUS
  <2>3. task' = Append(task, new)
    BY <2>1
  <2> HIDE DEF new
  <2>4. TasksStep
    BY <1>2, <2>1, <2>2, <2>3, OneAccepted DEF MayNotify
  <2> QED
    BY <1>2, <2>4 DEF Summary
<1> QED
  BY <1>3, <1>4 DEF Submission

\* The dispatcher up to its choice.
LEMMA DispatchWithin ==
  ASSUME Ready, NEW a \in Agent,
         DispatchCollaboration(a) \/ EnqueueCompletion(a) \/ LoadPending(a) \/ SelectNone(a)
  PROVE  Summary
<1>1. UNCHANGED <<run, conv, archived, inputs, silenced>>
  BY DEF DispatchCollaboration, EnqueueCompletion, LoadPending, SelectNone
<1>2. RunsStep /\ HistoryStep
  BY <1>1, RunsKept, HistoryKept
<1>3. op[a].task = 0
  <2>1. op[a].pc \in {"idle", "outbox", "select"}
    BY DEF DispatchCollaboration, EnqueueCompletion, LoadPending, SelectNone, Idle
  <2> QED
    BY <2>1, NoTaskInHand DEF DeliveryPC, StartPC
<1>4. CASE DispatchCollaboration(a)
  <2> DEFINE h == [op[a] EXCEPT !.pc = "outbox", !.todo = PendingCompletions(a)]
  <2>1. op' = [op EXCEPT ![a] = h]
    BY <1>4 DEF DispatchCollaboration
  <2>2. h.pc = "outbox" /\ h.task = 0
    BY <1>3, ReadyRows DEF Operation
  <2> HIDE DEF h
  <2>3. HandMoves(a) /\ KeepsTask(a)
    BY <1>3, <1>4, <2>1, <2>2, OneHand DEF HandMoves, Opens, DispatchCollaboration, KeepsTask
  <2>4. HandsStep /\ \A b \in Agent : KeepsTask(b)
    BY <2>1, <2>3, OneHand
  <2> QED
    BY <1>2, <1>4, <2>4, TasksKept DEF Summary, DispatchCollaboration
<1>5. CASE EnqueueCompletion(a)
  <2>1. PICK t \in op[a].todo :
          /\ op' = [op EXCEPT ![a] = [op[a] EXCEPT !.todo = op[a].todo \ {t}]]
          /\ task' = IF t \notin PendingCompletions(a) THEN task
                     ELSE IF a \in archived THEN WithCompletion(t, "cancelled")
                     ELSE IF QueueFull(a) THEN task
                     ELSE WithCompletion(t, "queued")
    BY <1>5 DEF EnqueueCompletion
  <2> DEFINE h == [op[a] EXCEPT !.todo = op[a].todo \ {t}]
  <2>2. h.pc = op[a].pc /\ h.task = op[a].task /\ h.run = op[a].run /\ h.gone = op[a].gone
    BY ReadyRows DEF Operation
  <2>3. op' = [op EXCEPT ![a] = h]
    BY <2>1
  <2> HIDE DEF h
  <2>4. Stays(a) /\ KeepsTask(a) /\ op'[a].pc = op[a].pc
    BY <2>2, <2>3, OneHand DEF Stays, KeepsTask
  <2>5. HandsStep /\ \A b \in Agent : KeepsTask(b)
    BY <2>3, <2>4, OneHand DEF HandMoves
  <2>6. TasksStep
    <3>1. CASE task' = task
      BY <2>5, <3>1, TasksKept
    <3>2. CASE task' # task
      <4>1. t \in PendingCompletions(a) /\ (task' = WithCompletion(t, "queued") \/ task' = WithCompletion(t, "cancelled"))
        BY <2>1, <3>2
      <4> QED
        BY <1>5, <2>4, <2>5, <4>1, OneReceipt DEF EnqueueCompletion
    <3> QED
      BY <3>1, <3>2
  <2> QED
    BY <1>2, <2>5, <2>6 DEF Summary
<1>6. CASE LoadPending(a)
  <2>1. \E S : /\ S \in {Queued(a), StaleNotifications(a)} /\ task' = Cancelled(S)
               /\ \/ Return(a)
                  \/ Step(a, "select") /\ S = StaleNotifications(a) /\ a \notin archived
    <3>1. CASE a \in archived
      <4>1. task' = Cancelled(Queued(a)) /\ Return(a)
        BY <1>6, <3>1 DEF LoadPending, CancelQueued, Cancelled
      <4> QED
        BY <4>1
    <3>2. CASE a \notin archived
      <4>1. task' = Cancelled(StaleNotifications(a)) /\ (Return(a) \/ Step(a, "select"))
        BY <1>6, <3>2 DEF LoadPending, Cancelled
      <4> QED
        BY <3>2, <4>1
    <3> QED
      BY <3>1, <3>2
  <2>10. PICK S : /\ S \in {Queued(a), StaleNotifications(a)} /\ task' = Cancelled(S)
                  /\ \/ Return(a)
                     \/ Step(a, "select") /\ S = StaleNotifications(a) /\ a \notin archived
    BY <2>1
  <2>2. S \subseteq {t \in TaskId : task[t].status = "queued"}
    BY <2>10 DEF StaleNotifications, Queued
  <2>3. TaskId' = TaskId
    BY <2>10 DEF TaskId, Cancelled
  <2>4. CASE Return(a)
    BY <1>2, <1>3, <2>10, <2>2, <2>4, OneReturns, SomeCancelled DEF Summary
  <2>5. CASE Step(a, "select") /\ S = StaleNotifications(a) /\ a \notin archived
    <3>1. ASSUME NEW t \in TaskId, task[t].target = a, task'[t].status = "queued", task[t].notificationFor # 0
          PROVE  Requested(t) = conv[a]
      <4>1. CASE t \in S
        <5>1. task'[t].status = "cancelled"
          BY <2>10, <4>1, ReadyRows DEF Cancelled, Task
        <5> QED
          BY <3>1, <5>1
      <4>2. CASE t \notin S
        <5>1. t \in Queued(a)
          BY <2>10, <3>1, <4>2 DEF Cancelled, Queued
        <5> QED
          BY <2>5, <3>1, <4>2, <5>1 DEF StaleNotifications, Requested
      <4> QED
        BY <4>1, <4>2
    <3>2. Loads(a)
      BY <1>1, <1>6, <2>3, <2>5, <3>1, OneSteps DEF Loads, LoadPending
    <3>3. HandsStep /\ \A b \in Agent : KeepsTask(b)
      BY <2>5, <3>2, OneSteps DEF HandMoves
    <3> QED
      BY <1>2, <2>10, <2>2, <3>3, SomeCancelled DEF Summary
  <2> QED
    BY <2>10, <2>4, <2>5
<1>7. CASE SelectNone(a)
  BY <1>2, <1>3, <1>7, OneReturns, TasksKept DEF SelectNone, Summary
<1> QED
  BY <1>4, <1>5, <1>6, <1>7

\* The choice of the dispatcher.
LEMMA ClaimWithin ==
  ASSUME Ready, NEW a \in Agent, SelectSteer(a) \/ SelectStart(a)
  PROVE  Summary
<1>1. UNCHANGED <<run, conv, archived, inputs, silenced>> /\ op[a].pc = "select"
  BY DEF SelectSteer, SelectStart
<1>2. RunsStep /\ HistoryStep
  BY <1>1, RunsKept, HistoryKept
<1>3. op[a].task = 0
  BY <1>1, NoTaskInHand, Zenon DEF DeliveryPC, StartPC
<1>4. PICK t, r, s, pc :
        /\ t \in TaskId
        /\ task' = [task EXCEPT ![t] = [task[t] EXCEPT !.status = "dispatching", !.run = r]]
        /\ op' = [op EXCEPT ![a] = [op[a] EXCEPT !.pc = pc, !.task = t, !.run = s]]
        /\ t \in Queued(a)
        /\ \/ pc = "steering" /\ s = ActiveRun(a) /\ ActiveRun(a) # 0
              /\ AcceptsSteer(ActiveRun(a)) /\ t \in Steerable(a)
           \/ pc = "claimed" /\ s = op[a].run /\ ActiveRun(a) = 0 /\ IsFirst(t, Queued(a))
  <2>1. CASE SelectSteer(a)
    <3>1. PICK t \in Steerable(a) :
            /\ task' = [task EXCEPT ![t].status = "dispatching", ![t].run = ActiveRun(a)]
            /\ op' = [op EXCEPT ![a].pc = "steering", ![a].task = t, ![a].run = ActiveRun(a)]
      BY <2>1 DEF SelectSteer
    <3>2. task' = [task EXCEPT ![t] = [task[t] EXCEPT !.status = "dispatching", !.run = ActiveRun(a)]]
      BY <3>1
    <3>3. op' = [op EXCEPT ![a] = [op[a] EXCEPT !.pc = "steering", !.task = t, !.run = ActiveRun(a)]]
      BY <3>1
    <3>4. t \in Queued(a) /\ t \in TaskId
      BY DEF Steerable, Queued
    <3> QED
      BY <2>1, <3>2, <3>3, <3>4 DEF SelectSteer
  <2>2. CASE SelectStart(a)
    <3>1. PICK t \in Queued(a) :
            /\ IsFirst(t, Queued(a))
            /\ task' = [task EXCEPT ![t].status = "dispatching", ![t].run = 0]
            /\ op' = [op EXCEPT ![a].pc = "claimed", ![a].task = t]
      BY <2>2 DEF SelectStart
    <3>2. task' = [task EXCEPT ![t] = [task[t] EXCEPT !.status = "dispatching", !.run = 0]]
      BY <3>1
    <3>3. op' = [op EXCEPT ![a] = [op[a] EXCEPT !.pc = "claimed", !.task = t, !.run = op[a].run]]
      <4>1. op' = [op EXCEPT ![a] = [op[a] EXCEPT !.pc = "claimed", !.task = t]]
        BY <3>1
      <4>2. [op[a] EXCEPT !.pc = "claimed", !.task = t, !.run = op[a].run]
              = [op[a] EXCEPT !.pc = "claimed", !.task = t]
        BY ReadyRows DEF Operation
      <4> QED
        BY <4>1, <4>2
    <3>4. t \in TaskId
      BY DEF Queued
    <3> QED
      BY <2>2, <3>1, <3>2, <3>3, <3>4 DEF SelectStart
  <2> QED
    BY <2>1, <2>2
<1> DEFINE h == [op[a] EXCEPT !.pc = pc, !.task = t, !.run = s]
<1>5. h.pc = pc /\ h.task = t /\ h.run = s
  BY ReadyRows DEF Operation
<1>6. op' = [op EXCEPT ![a] = h]
  BY <1>4
<1> HIDE DEF h
<1>7. op'[a].pc = pc /\ op'[a].task = t /\ op'[a].run = s
  BY <1>5, <1>6, OneHand
<1>8. \A b \in Agent : KeepsTask(b)
  BY <1>3, <1>6, OneHand DEF KeepsTask
<1>9. task[t].status = "queued" /\ task[t].target = a
  BY <1>4 DEF Queued
<1>10. IsClaimed(t)
  BY <1>1, <1>4, <1>7, <1>9 DEF IsClaimed, Steerable
<1>11. TasksStep
  BY <1>4, <1>8, <1>9, <1>10, OneClaimed
<1>12. ActiveRun(a) = 0 => ActiveRuns(a) = {}
  BY ReadyRows DEF ActiveRun, ActiveRuns
<1>13. Claims(a)
  BY <1>1, <1>4, <1>7, <1>12 DEF Claims, AcceptsSteer, ActiveRun
<1>14. HandsStep
  BY <1>6, <1>13, OneHand DEF HandMoves
<1> QED
  BY <1>2, <1>11, <1>14 DEF Summary

\* The delivery of a steer.
LEMMA SteerWithin ==
  ASSUME Ready, NEW a \in Agent,
         SteerTurn(a) \/ SteerAccepted(a) \/ SteerRejected(a) \/ SteerLost(a)
  PROVE  Summary
<1>1. UNCHANGED <<run, conv, archived, silenced>> /\ op[a].pc \in SteerPC
  BY DEF SteerTurn, SteerAccepted, SteerRejected, SteerLost, SteerPC
<1>2. RunsStep
  BY <1>1, RunsKept
<1>3. op[a].task \in TaskId
  BY <1>1, ReadyRows DEF Ready, SafeInv, TaskInv, SteersOnce
<1>4. task[op[a].task].target = a
  BY <1>3, ReadyRows DEF Ready, Inv, DeliveryInv, HandlerHoldsTask
<1>5. CASE SteerTurn(a)
  <2> DEFINE input == [task |-> op[a].task, run |-> op[a].run, how |-> "steer"]
  <2>1. PICK pc \in SteerPC \ {"steering"} :
          /\ Step(a, pc)
          /\ \/ inputs' = inputs /\ pc # "steered"
             \/ inputs' = inputs \cup {input}
    BY <1>5 DEF SteerTurn, SteerPC
  <2>2. input.task = op[a].task /\ input.run = op[a].run /\ input.how = "steer"
    OBVIOUS
  <2> HIDE DEF input
  <2>3. op[a].pc = "steering" /\ UNCHANGED task
    BY <1>5 DEF SteerTurn
  <2>4. Steers(a)
    BY <2>1, <2>2, <2>3, OneSteps DEF Steers
  <2>5. HandsStep /\ \A b \in Agent : KeepsTask(b)
    BY <2>1, <2>4, OneSteps DEF HandMoves
  <2>6. InputComes(input)
    BY <2>2, <2>3 DEF InputComes
  <2>7. HistoryStep
    BY <1>1, <2>1, <2>6 DEF HistoryStep
  <2> QED
    BY <1>2, <2>3, <2>5, <2>7, TasksKept DEF Summary
<1>6. ASSUME NEW status \in {"queued", "running", "unknown"}, NEW r, Return(a), UNCHANGED inputs,
             task' = SetTaskState(op[a].task, status, r),
             status = "queued" => op[a].pc = "steerRejected",
             status = "running" => op[a].pc = "steered" /\ r = op[a].run
      PROVE  Summary
  <2>1. op'[a] = Idle /\ HandsStep /\ \A b \in Agent : b # a => KeepsTask(b)
    BY <1>6, OneReturns
  <2>2. status = "queued" => IsRefused(op[a].task)
    BY <1>4, <1>6, <2>1 DEF IsRefused
  <2>3. status = "running" => \E i \in inputs' : i.task = op[a].task /\ i.run = r
    BY <1>6 DEF Ready, SafeInv, OutcomeInv, HandlerHasDelivered
  <2>4. TasksStep
    BY <1>3, <1>6, <2>1, <2>2, <2>3, OneSettles
  <2> QED
    BY <1>1, <1>2, <1>6, <2>1, <2>4, HistoryKept DEF Summary
<1> QED
  BY <1>5, <1>6 DEF SteerAccepted, SteerRejected, SteerLost

\* What the handler that holds run r may write into its row.
HandlerWrites(r, row) ==
  /\ row.agent = run[r].agent /\ row.conversation = run[r].conversation
  /\ row.source = run[r].source /\ row.task = run[r].task
  /\ run[r].status \in RunTerminal => row.status \in RunTerminal
  /\ row.status # "completed" \/ row.status = run[r].status
  /\ row.outbox = run[r].outbox

\* The run of a handler that goes on to another step or returns.
LEMMA HeldRun ==
  ASSUME Ready, NEW a \in Agent, ~Stays(a), NEW row,
         run' = run \/ run' = [run EXCEPT ![op[a].run] = row],
         op[a].run \in RunId => HandlerWrites(op[a].run, row)
  PROVE  RunsStep
<1> DEFINE r == op[a].run
<1>1. CASE run' = run
  BY <1>1, RunsKept
<1>2. CASE run' = [run EXCEPT ![r] = row]
  <2>1. r \in RunId => RowMoves(r, row)
    BY DEF HandlerWrites, RowMoves
  <2> HIDE DEF r
  <2> QED
    BY <1>2, <2>1, OneRun
<1> QED
  BY <1>1, <1>2

\* The fields that handlers write.
LEMMA HeldFields ==
  ASSUME Ready, NEW r \in RunId
  PROVE  /\ \A relay : /\ HandlerWrites(r, [run[r] EXCEPT !.relay = relay])
                       /\ [run[r] EXCEPT !.relay = relay].status = run[r].status
                       /\ [run[r] EXCEPT !.relay = relay].relay = relay
         /\ \A status \in {"failed", "interrupted"} :
              /\ HandlerWrites(r, [run[r] EXCEPT !.status = status])
              /\ [run[r] EXCEPT !.status = status].relay = run[r].relay
              /\ [run[r] EXCEPT !.status = status].status = status
<1>1. run[r] \in Run
  BY ReadyRows
<1>2. run[r].status \in Live \cup RunTerminal
  BY <1>1 DEF Run
<1>3. {"failed", "interrupted"} \subseteq RunTerminal /\ "completed" \notin {"failed", "interrupted"}
  BY DEF RunTerminal
<1>4. ASSUME NEW relay PROVE /\ HandlerWrites(r, [run[r] EXCEPT !.relay = relay])
                             /\ [run[r] EXCEPT !.relay = relay].status = run[r].status
                             /\ [run[r] EXCEPT !.relay = relay].relay = relay
  BY <1>1 DEF HandlerWrites, Run
<1>5. ASSUME NEW status \in {"failed", "interrupted"}
      PROVE  /\ HandlerWrites(r, [run[r] EXCEPT !.status = status])
             /\ [run[r] EXCEPT !.status = status].relay = run[r].relay
             /\ [run[r] EXCEPT !.status = status].status = status
  BY <1>1, <1>3 DEF HandlerWrites, Run
<1> QED
  BY <1>4, <1>5

\* The handler of a starts a turn: what it holds.
LEMMA StartHolds ==
  ASSUME Ready, NEW a \in Agent, op[a].pc \in StartPC
  PROVE  /\ op[a].run \in RunId /\ run[op[a].run].task = op[a].task
         /\ run[op[a].run].relay = "off"
         /\ op[a].pc # "failing" => run[op[a].run].status \in Live
BY DEF Ready, Inv, DeliveryInv, HandlerHoldsRun, SafeInv, RunInv, StartHoldsRun

\* The state that a handler writes at the end of the start, if it has a task.
LEMMA StartSettles ==
  ASSUME Ready, NEW a \in Agent, \A b \in Agent : b # a => KeepsTask(b),
         NEW status \in {"dispatching", "running", "failed", "unknown"}, NEW r,
         task' = SetTaskState(op[a].task, status, r),
         status = "dispatching" => op'[a].task = op[a].task,
         status = "running" => \E i \in inputs' : i.task = op[a].task /\ i.run = r
  PROVE  TasksStep
<1>1. op[a].task \in TaskId \cup {0}
  BY ReadyRows
<1>2. CASE op[a].task \in TaskId
  BY <1>2, OneSettles
<1>3. CASE op[a].task = 0
  <2>1. task' = task
    BY <1>3, NoRow, ReadyRows
  <2>2. \A b \in Agent : KeepsTask(b)
    BY <1>3 DEF KeepsTask
  <2> QED
    BY <2>1, <2>2, TasksKept
<1> QED
  BY <1>1, <1>2, <1>3

\* A run is added.
LEMMA AppendedRun ==
  ASSUME Ready, NEW new, run' = Append(run, new)
  PROVE  /\ RunId' = RunId \cup {Len(run) + 1} /\ Len(run) + 1 \notin RunId
         /\ \A q \in RunId : run'[q] = run[q]
         /\ run'[Len(run) + 1] = new
<1> DEFINE S == Run \cup {new}
<1>1. RunId = 1..Len(run) /\ Len(run) \in Nat /\ run \in Seq(Run)
  BY RowTypes DEF Ready, Inv, TypeOK, RunsTyped
<1>2. run \in Seq(S) /\ new \in S
  <2>1. run \in [1..Len(run) -> S]
    BY <1>1, ReadyRows
  <2> HIDE DEF S
  <2>2. run \in Seq(S)
    BY <1>1, <2>1, FunctionIsSequence
  <2> QED
    BY <2>2 DEF S
<1> HIDE DEF S
<1>3. /\ run' \in Seq(S) /\ Len(run') = Len(run) + 1
      /\ \A q \in 1..Len(run) : run'[q] = run[q]
      /\ run'[Len(run) + 1] = new
  BY <1>2, AppendProperties
<1>4. RunId' = 1..(Len(run) + 1)
  BY <1>3, LenProperties DEF RunId
<1> QED
  BY <1>1, <1>3, <1>4

\* A run is created for what the handler of a starts.
LEMMA BeginWithin ==
  ASSUME Ready, NEW a \in Agent, CreateRun(a) \/ Message(a) \/ RunDueSchedule(a)
  PROVE  Summary
<1>1. UNCHANGED <<task, conv, archived, inputs, silenced>>
  BY DEF CreateRun, Message, RunDueSchedule, BeginUserRun
<1>2. HistoryStep
  BY <1>1, HistoryKept
<1>3. ASSUME NEW c, NEW source, NEW pc \in {"created", "bound"},
             run' = Append(run, NewRun(a, c, source, op[a].task)),
             op' = [op EXCEPT ![a] = [op[a] EXCEPT !.pc = pc, !.run = Len(run) + 1]],
             source = "schedule" \/ c = conv[a],
             \/ op[a].pc = "claimed" /\ source = "collaboration"
             \/ op[a] = Idle /\ ActiveRun(a) = 0 /\ a \notin archived
      PROVE  Summary
  <2> DEFINE n == Len(run) + 1
             new == NewRun(a, c, source, op[a].task)
             h == [op[a] EXCEPT !.pc = pc, !.run = n]
  <2>1. /\ new.agent = a /\ new.task = op[a].task /\ new.conversation = c /\ new.source = source
        /\ new.status = "queued" /\ new.outbox = "none" /\ new.relay = "off"
    BY DEF NewRun
  <2>2. h.pc = pc /\ h.task = op[a].task /\ h.run = n
    BY ReadyRows DEF Operation
  <2>3. run' = Append(run, new) /\ op' = [op EXCEPT ![a] = h]
    BY <1>3
  <2> HIDE DEF new, h
  <2>4. /\ RunId' = RunId \cup {n} /\ n \notin RunId
        /\ \A q \in RunId : run'[q] = run[q]
        /\ run'[n] = new
    BY <2>3, AppendedRun
  <2> HIDE DEF n
  <2>5. /\ op'[a].pc = pc /\ op'[a].task = op[a].task /\ op'[a].run = n
        /\ \A b \in Agent : b # a => op'[b] = op[b]
        /\ \A b \in Agent : KeepsTask(b)
    BY <2>2, <2>3, OneHand DEF KeepsTask
  <2>6. ActiveRun(a) = 0 => ActiveRuns(a) = {}
    BY ReadyRows DEF ActiveRun, ActiveRuns
  <2>7. RunComes(n, a)
    BY <1>1, <1>3, <2>1, <2>4, <2>5, <2>6 DEF RunComes
  <2>8. RunsStep
    BY <2>4, <2>7 DEF RunsStep
  <2>9. Begins(a)
    BY <1>3, <2>4, <2>5 DEF Begins
  <2>10. HandsStep
    BY <2>3, <2>9, OneHand DEF HandMoves
  <2> QED
    BY <1>1, <1>2, <2>5, <2>8, <2>10, TasksKept DEF Summary
<1>4. CASE CreateRun(a)
  <2>1. /\ run' = Append(run, NewRun(a, conv[a], "collaboration", op[a].task))
        /\ op' = [op EXCEPT ![a] = [op[a] EXCEPT !.pc = "created", !.run = Len(run) + 1]]
        /\ op[a].pc = "claimed"
    BY <1>4 DEF CreateRun
  <2> QED
    BY <1>3, <2>1
<1>5. CASE Message(a) \/ RunDueSchedule(a)
  <2>1. op[a] = Idle /\ op[a].task = 0 /\ ActiveRun(a) = 0 /\ a \notin archived
    BY <1>5 DEF Message, RunDueSchedule, BeginUserRun, Idle
  <2>2. PICK source, c : /\ run' = Append(run, NewRun(a, c, source, op[a].task))
                         /\ op' = [op EXCEPT ![a] = [op[a] EXCEPT !.pc = "bound", !.run = Len(run) + 1]]
                         /\ source = "schedule" \/ c = conv[a]
    BY <1>5, <2>1 DEF Message, RunDueSchedule, BeginUserRun
  <2> QED
    BY <1>3, <2>1, <2>2
<1> QED
  BY <1>4, <1>5

\* The handler of a moves to another pc of the start, with its run active unless
\* the start has failed.
LEMMA StartStep ==
  ASSUME Ready, NEW a \in Agent, op[a].pc \in StartPC, NEW pc \in StartPC, Step(a, pc), pc # op[a].pc,
         run'[op[a].run].relay = "off",
         pc # "failing" => run'[op[a].run].status \in Live,
         pc = "failing" => op[a].gone \/ run'[op[a].run].status \in RunTerminal,
         pc \in {"accepted", "started"} => op[a].pc \in {"accepted", "started"} \/ NextStarted(op[a].run)
  PROVE  HandsStep /\ ~Stays(a) /\ \A b \in Agent : KeepsTask(b)
<1>1. Starts(a) /\ ~Stays(a)
  BY OneSteps DEF Starts, Stays
<1> QED
  BY <1>1, OneSteps DEF HandMoves

\* The start of a turn while it goes on.
LEMMA StartWithin ==
  ASSUME Ready, NEW a \in Agent,
         BindRun(a) \/ CallStartTurn(a) \/ StartTurnReplies(a)
  PROVE  Summary
<1>1. UNCHANGED <<conv, archived, inputs, silenced>> /\ op[a].pc \in {"created", "bound", "calling"}
  BY DEF BindRun, CallStartTurn, StartTurnReplies
<1>2. HistoryStep
  BY <1>1, HistoryKept
<1> DEFINE r == op[a].run
<1>3. /\ op[a].pc \in StartPC /\ op[a].pc # "failing"
      /\ r \in RunId /\ run[r].relay = "off" /\ run[r].status \in Live /\ run[r] \in Run
  BY <1>1, StartHolds, ReadyRows DEF StartPC
<1>4. CASE BindRun(a)
  <2>1. run' = run /\ Step(a, "bound") /\ op[a].pc = "created"
    BY <1>4 DEF BindRun
  <2>2. HandsStep /\ (\A b \in Agent : KeepsTask(b)) /\ op'[a].task = op[a].task
    BY <1>3, <2>1, StartStep, OneSteps DEF StartPC
  <2>3. TasksStep
    BY <1>4, <2>2, StartSettles DEF BindRun
  <2> QED
    BY <1>2, <2>1, <2>2, <2>3, RunsKept DEF Summary
<1>5. CASE CallStartTurn(a)
  <2> DEFINE row == [run[r] EXCEPT !.outbox = "starting"]
  <2>1. PICK pc \in {"rejected", "calling", "lost"} :
          Step(a, pc) /\ (run' = run \/ run' = [run EXCEPT ![r] = row])
    BY <1>5 DEF CallStartTurn
  <2>2. /\ row.agent = run[r].agent /\ row.conversation = run[r].conversation
        /\ row.source = run[r].source /\ row.task = run[r].task
        /\ row.status = run[r].status /\ row.relay = run[r].relay /\ row.outbox = "starting"
    BY <1>3 DEF Run
  <2> HIDE DEF row
  <2>3. run'[r].relay = "off" /\ run'[r].status \in Live
    BY <1>3, <2>1, <2>2, ReadyRows
  <2>4. RowMoves(r, row)
    BY <1>3, <2>2 DEF RowMoves, Live, RunTerminal
  <2>5. RunsStep
    BY <2>1, <2>4, OneRun, RunsKept
  <2>6. HandsStep /\ \A b \in Agent : KeepsTask(b)
    BY <1>3, <1>5, <2>1, <2>3, StartStep DEF StartPC, CallStartTurn
  <2> QED
    BY <1>2, <1>5, <2>5, <2>6, TasksKept DEF Summary, CallStartTurn
<1>6. CASE StartTurnReplies(a)
  <2>1. PICK pc \in {"accepted", "lost"} : Step(a, pc) /\ (pc = "accepted" => TurnStarted(r))
    BY <1>6 DEF StartTurnReplies
  <2>2. UNCHANGED <<run, task>> /\ op[a].pc = "calling"
    BY <1>6 DEF StartTurnReplies
  <2>3. pc = "accepted" => NextStarted(r)
    BY <1>1, <2>1 DEF TurnStarted, NextStarted
  <2>4. HandsStep /\ \A b \in Agent : KeepsTask(b)
    BY <1>3, <2>1, <2>2, <2>3, StartStep DEF StartPC
  <2> QED
    BY <1>2, <2>2, <2>4, RunsKept, TasksKept DEF Summary
<1> QED
  BY <1>4, <1>5, <1>6

\* The start of a turn once its outcome is known.
LEMMA StartedWithin ==
  ASSUME Ready, NEW a \in Agent, SetRunStarted(a) \/ StartRejected(a)
  PROVE  Summary
<1>1. UNCHANGED <<task, conv, archived, inputs, silenced>> /\ op[a].pc \in {"accepted", "rejected"}
  BY DEF SetRunStarted, StartRejected
<1>2. HistoryStep
  BY <1>1, HistoryKept
<1> DEFINE r == op[a].run
<1>3. /\ op[a].pc \in StartPC /\ op[a].pc # "failing"
      /\ r \in RunId /\ run[r].relay = "off" /\ run[r].status \in Live /\ run[r] \in Run
      /\ run \in [RunId -> Run]
  BY <1>1, StartHolds, ReadyRows DEF StartPC
<1>4. ASSUME NEW row, HandlerWrites(r, row), run' = run \/ run' = [run EXCEPT ![r] = row],
             op[a].task = 0, Return(a)
      PROVE  Summary
  <2>1. op'[a] = Idle /\ HandsStep /\ (\A b \in Agent : KeepsTask(b)) /\ ~Stays(a)
    BY <1>1, <1>4, OneReturns DEF Stays, Idle
  <2>2. RunsStep
    BY <1>4, <2>1, HeldRun
  <2> QED
    BY <1>1, <1>2, <2>1, <2>2, TasksKept DEF Summary
<1>5. ASSUME NEW row, HandlerWrites(r, row), row.relay = "off", NEW pc \in {"started", "failing"},
             run' = run \/ run' = [run EXCEPT ![r] = row], Step(a, pc),
             pc = "started" => op[a].pc = "accepted" /\ row.status \in Live,
             pc = "failing" => op[a].gone \/ run'[r].status \in RunTerminal
      PROVE  Summary
  <2>1. run'[r].relay = "off" /\ (pc # "failing" => run'[r].status \in Live)
    BY <1>3, <1>5
  <2>2. HandsStep /\ ~Stays(a) /\ \A b \in Agent : KeepsTask(b)
    BY <1>1, <1>3, <1>5, <2>1, StartStep DEF StartPC
  <2>3. RunsStep
    BY <1>5, <2>2, HeldRun
  <2> QED
    BY <1>1, <1>2, <2>2, <2>3, TasksKept DEF Summary
<1>6. CASE SetRunStarted(a)
  <2> DEFINE started == IF op[a].gone THEN run[r] ELSE [run[r] EXCEPT !.status = "running", !.turn = TRUE]
             row == [started EXCEPT !.relay = StartRelay(run[r].relay)]
  <2>1. started \in Run /\ HandlerWrites(r, started) /\ started.relay = run[r].relay /\ started.status \in Live
    BY <1>3 DEF HandlerWrites, Run, Live, RunTerminal
  <2>2. \/ op[a].task # 0 /\ run' = [run EXCEPT ![r] = started] /\ Step(a, "started")
        \/ op[a].task = 0 /\ run' = [run EXCEPT ![r] = row] /\ Return(a)
    <3>1. CASE op[a].task # 0
      BY <1>6, <3>1 DEF SetRunStarted
    <3>2. CASE op[a].task = 0
      <4>1. run' = [run EXCEPT ![r] = [started EXCEPT !.relay = StartRelay(started.relay)]] /\ Return(a)
        BY <1>6, <3>2 DEF SetRunStarted
      <4> HIDE DEF started
      <4> QED
        BY <2>1, <3>2, <4>1
    <3> QED
      BY <3>1, <3>2
  <2> HIDE DEF started
  <2>3. HandlerWrites(r, row)
    BY <2>1 DEF HandlerWrites, Run
  <2> HIDE DEF row
  <2> QED
    BY <1>3, <1>4, <1>5, <1>6, <2>1, <2>2, <2>3 DEF SetRunStarted
<1>7. CASE StartRejected(a)
  <2> DEFINE row == [run[r] EXCEPT !.status = "failed"]
  <2>1. HandlerWrites(r, row) /\ row.relay = "off"
    BY <1>3, HeldFields
  <2>2. /\ run' = run \/ run' = [run EXCEPT ![r] = row]
        /\ op[a].gone \/ run'[r].status \in RunTerminal
    BY <1>3, <1>7 DEF StartRejected, FinishRun, Run, RunTerminal
  <2>3. \/ op[a].task # 0 /\ Step(a, "failing")
        \/ op[a].task = 0 /\ Return(a)
    BY <1>7, Zenon DEF StartRejected
  <2> HIDE DEF row
  <2> QED
    BY <1>4, <1>5, <2>1, <2>2, <2>3
<1> QED
  BY <1>6, <1>7

\* The end of a start.
LEMMA StartEndsWithin ==
  ASSUME Ready, NEW a \in Agent,
         \/ StartCollaborationFails(a) \/ CollaborationStarted(a) \/ CollaborationFailed(a)
         \/ StartLost(a) \/ RunDueScheduleFails(a)
  PROVE  Summary
<1>1. /\ UNCHANGED <<conv, archived, inputs, silenced>> /\ Return(a)
      /\ op[a].pc \in {"claimed", "started", "failing", "lost", "bound"}
  BY DEF StartCollaborationFails, CollaborationStarted, CollaborationFailed, StartLost, RunDueScheduleFails
<1>2. HistoryStep
  BY <1>1, HistoryKept
<1>3. op'[a] = Idle /\ HandsStep /\ (\A b \in Agent : b # a => KeepsTask(b)) /\ ~Stays(a)
  BY <1>1, OneReturns DEF Stays, Idle
<1> DEFINE r == op[a].run
<1>4. ASSUME NEW row, r \in RunId => HandlerWrites(r, row), run' = run \/ run' = [run EXCEPT ![r] = row],
             \/ UNCHANGED task /\ op[a].task = 0
             \/ \E status \in {"running", "failed", "unknown"} : \E s :
                  /\ task' = SetTaskState(op[a].task, status, s)
                  /\ status = "running" => \E i \in inputs' : i.task = op[a].task /\ i.run = s
      PROVE  Summary
  <2>1. RunsStep
    BY <1>3, <1>4, HeldRun
  <2>2. TasksStep
    <3>1. CASE UNCHANGED task /\ op[a].task = 0
      BY <1>3, <3>1, TasksKept DEF KeepsTask
    <3>2. CASE ~(UNCHANGED task /\ op[a].task = 0)
      <4>0. PICK status \in {"running", "failed", "unknown"} : \E s :
                  /\ task' = SetTaskState(op[a].task, status, s)
                  /\ status = "running" => \E i \in inputs' : i.task = op[a].task /\ i.run = s
        BY <1>4, <3>2
      <4>1. PICK s :
                  /\ task' = SetTaskState(op[a].task, status, s)
                  /\ status = "running" => \E i \in inputs' : i.task = op[a].task /\ i.run = s
        BY <4>0
      <4> QED
        BY <1>3, <4>1, StartSettles
    <3> QED
      BY <3>1, <3>2
  <2> QED
    BY <1>2, <1>3, <2>1, <2>2 DEF Summary
<1> DEFINE failed == [run[r] EXCEPT !.status = "failed"]
           relayed == [run[r] EXCEPT !.relay = StartRelay(run[r].relay)]
<1>5. r \in RunId => HandlerWrites(r, failed) /\ HandlerWrites(r, relayed)
  BY HeldFields
<1>6. CASE StartCollaborationFails(a) \/ CollaborationFailed(a)
  <2>1. run' = run /\ \E s : task' = SetTaskState(op[a].task, "failed", s)
    BY <1>6 DEF StartCollaborationFails, CollaborationFailed
  <2> HIDE DEF failed, relayed
  <2> QED
    BY <1>4, <1>5, <2>1
<1>7. CASE CollaborationStarted(a)
  <2>1. run' = [run EXCEPT ![r] = relayed] /\ task' = SetTaskState(op[a].task, "running", r)
    BY <1>7 DEF CollaborationStarted
  <2>2. op[a].pc \in StartPC /\ TurnStarted(r)
    BY <1>7 DEF CollaborationStarted, StartPC, Ready, SafeInv, OutcomeInv, HandlerHasDelivered
  <2>3. \E i \in inputs' : i.task = op[a].task /\ i.run = r
    BY <1>1, <2>2, StartHolds DEF TurnStarted, Ready, SafeInv, OutcomeInv, InputNamesItsRun
  <2> HIDE DEF failed, relayed
  <2> QED
    BY <1>4, <1>5, <2>1, <2>3
<1>8. CASE StartLost(a)
  <2>1. CASE op[a].task # 0
    <3>1. run' = [run EXCEPT ![r] = relayed] /\ task' = SetTaskState(op[a].task, "unknown", r)
      BY <1>8, <2>1 DEF StartLost
    <3> HIDE DEF failed, relayed
    <3> QED
      BY <1>4, <1>5, <3>1
  <2>2. CASE op[a].task = 0
    <3>1. (run' = run \/ run' = [run EXCEPT ![r] = failed]) /\ UNCHANGED task
      BY <1>8, <2>2 DEF StartLost, FinishRun
    <3> HIDE DEF failed, relayed
    <3> QED
      BY <1>4, <1>5, <2>2, <3>1
  <2> QED
    BY <2>1, <2>2
<1>9. CASE RunDueScheduleFails(a)
  <2>1. run' = [run EXCEPT ![r] = failed] /\ UNCHANGED task /\ run[r].source = "schedule"
    BY <1>9 DEF RunDueScheduleFails, FinishRun
  <2>2. r \in RunId /\ run[r].task = op[a].task
    BY <1>9, StartHolds DEF RunDueScheduleFails, StartPC
  <2>3. op[a].task = 0
    BY <2>1, <2>2 DEF Ready, Inv, DeliveryInv, OneOwnRun
  <2> HIDE DEF failed, relayed
  <2> QED
    BY <1>4, <1>5, <2>1, <2>3
<1> QED
  BY <1>6, <1>7, <1>8, <1>9

\* The rows of a suppression: the i-th of the n tasks that could still call back is
\* linked to the i-th new receipt.
SuppressedAs(a, n, order) ==
  /\ order \in [1..n -> Uncompleted(a)]
  /\ \A t \in Uncompleted(a) : \E i \in 1..n : order[i] = t
  /\ TaskId' = 1..(Len(task) + n)
  /\ \A i \in 1..n :
       /\ task'[Len(task) + i] = CompletionReceipt(order[i], "cancelled")
       /\ task'[order[i]] = [task[order[i]] EXCEPT !.completionTask = Len(task) + i]
  /\ \A t \in TaskId \ Uncompleted(a) :
       task'[t] = IF t \in Queued(a) /\ task[t].notificationFor # 0
                  THEN [task[t] EXCEPT !.status = "cancelled"] ELSE task[t]

\* A suppression has such rows.
LEMMA SuppressedRows ==
  ASSUME Ready, NEW a \in Agent, SuppressCollaborationCompletions(a)
  PROVE  \E n \in Nat : \E order : SuppressedAs(a, n, order)
<1> DEFINE U == Uncompleted(a)
           n == Cardinality(U)
<1>1. PICK order \in Listings(U) : task' = Suppressed(a, order)
  BY DEF SuppressCollaborationCompletions
<1> DEFINE At(t) == CHOOSE i \in DOMAIN order : order[i] = t
           first == [t \in TaskId |->
                       IF \E i \in DOMAIN order : order[i] = t
                       THEN [task[t] EXCEPT !.completionTask = Len(task) + At(t)]
                       ELSE IF t \in Queued(a) /\ task[t].notificationFor # 0
                       THEN [task[t] EXCEPT !.status = "cancelled"]
                       ELSE task[t]]
           second == [i \in DOMAIN order |-> CompletionReceipt(order[i], "cancelled")]
<1>2. Len(task) \in Nat /\ TaskId = 1..Len(task) /\ TasksTyped /\ RunsTyped
  BY RowTypes DEF Ready, Inv, TypeOK
<1>3. U \subseteq TaskId
  BY DEF Uncompleted
<1>4. n \in Nat /\ order \in [1..n -> U] /\ DOMAIN order = 1..n
  BY <1>2, <1>3, ListingType
<1>5. /\ \A t \in U : \E i \in 1..n : order[i] = t
      /\ \A i, j \in 1..n : i < j => order[i] < order[j]
  BY <1>4 DEF Listings
<1> HIDE DEF U, n
<1>6. \A i \in 1..n : order[i] \in TaskId /\ At(order[i]) = i
  <2> HIDE DEF first, second, At
  <2>1. \A i \in 1..n : order[i] \in U
    BY <1>4
  <2>2. \A i \in 1..n : order[i] \in TaskId /\ order[i] \in Int
    <3>1. U \subseteq Int
      BY <1>2, <1>3
    <3> QED
      BY <1>3, <2>1, <3>1, Zenon
  <2>3. \A i, j \in 1..n : order[j] = order[i] => j = i
    <3> SUFFICES ASSUME NEW i \in 1..n, NEW j \in 1..n, order[j] = order[i], i # j PROVE FALSE
      OBVIOUS
    <3>1. i < j \/ j < i
      BY <1>4
    <3>2. order[i] < order[j] \/ order[j] < order[i]
      BY <1>5, <3>1
    <3> QED
      BY <2>2, <3>2
  <2> QED
    BY <1>4, <2>2, <2>3 DEF At
<1>7. \A i \in 1..n : first[order[i]] = [task[order[i]] EXCEPT !.completionTask = Len(task) + i]
  BY <1>4, <1>6
<1>8. \A t \in TaskId \ U : first[t] = IF t \in Queued(a) /\ task[t].notificationFor # 0
                                       THEN [task[t] EXCEPT !.status = "cancelled"] ELSE task[t]
  BY <1>4
<1>9. \A i \in 1..n : second[i] = CompletionReceipt(order[i], "cancelled")
  BY <1>4
<1>10. task' = first \o second
  BY <1>1 DEF Suppressed
<1> DEFINE S == {first[t] : t \in TaskId} \cup {second[i] : i \in 1..n}
<1>11. first \in [1..Len(task) -> S] /\ second \in [1..n -> S]
  BY <1>2, <1>4
<1> HIDE DEF first, second, S
<1>12. /\ first \in Seq(S) /\ Len(first) = Len(task)
       /\ second \in Seq(S) /\ Len(second) = n
  BY <1>2, <1>4, <1>11, FunctionIsSequence
<1>13. /\ first \o second \in Seq(S) /\ Len(first \o second) = Len(task) + n
       /\ \A t \in 1..(Len(task) + n) : (first \o second)[t] =
            IF t <= Len(task) THEN first[t] ELSE second[t - Len(task)]
  <2>1. /\ first \o second \in Seq(S)
        /\ Len(first \o second) = Len(first) + Len(second)
        /\ \A t \in 1..(Len(first) + Len(second)) : (first \o second)[t] =
             IF t <= Len(first) THEN first[t] ELSE second[t - Len(first)]
    BY <1>12, ConcatProperties, Zenon
  <2> QED
    BY <1>12, <2>1
<1>14. TaskId' = 1..(Len(task) + n)
  BY <1>10, <1>13, LenProperties DEF TaskId
<1>15. \A t \in TaskId : task'[t] = first[t]
  BY <1>2, <1>4, <1>10, <1>13
<1>16. \A i \in 1..n : task'[Len(task) + i] = second[i]
  <2> TAKE i \in 1..n
  <2>1. /\ Len(task) + i \in 1..(Len(task) + n) /\ ~(Len(task) + i <= Len(task))
        /\ Len(task) + i - Len(task) = i
    BY <1>2, <1>4
  <2> QED
    BY <1>10, <1>13, <2>1
<1>17. \A i \in 1..n : task'[Len(task) + i] = CompletionReceipt(order[i], "cancelled")
  BY <1>9, <1>16
<1>18. \A i \in 1..n : task'[order[i]] = [task[order[i]] EXCEPT !.completionTask = Len(task) + i]
  BY <1>6, <1>7, <1>15
<1>19. \A t \in TaskId \ U : task'[t] = IF t \in Queued(a) /\ task[t].notificationFor # 0
                                       THEN [task[t] EXCEPT !.status = "cancelled"] ELSE task[t]
  BY <1>8, <1>15
<1>20. SuppressedAs(a, n, order)
  BY <1>4, <1>5, <1>14, <1>17, <1>18, <1>19 DEF U, SuppressedAs
<1> QED
  BY <1>4, <1>20, Zenon

\* Stop run and stop leave nothing that could call a back.
LEMMA AllSuppressed ==
  ASSUME Ready, NEW a \in Agent, SuppressCollaborationCompletions(a), \A b \in Agent : KeepsTask(b)
  PROVE  /\ TasksStep
         /\ \A t \in TaskId :
              /\ task[t].sender = a /\ task[t].completionMode = "notify" => task'[t].completionTask # 0
              /\ task[t].target = a /\ task[t].notificationFor # 0 => task'[t].status # "queued"
         /\ \A m \in TaskId' \ TaskId : task'[m].status = "cancelled"
<1>a. PICK n \in Nat : \E order : SuppressedAs(a, n, order)
  BY SuppressedRows
<1>0. PICK order : SuppressedAs(a, n, order)
  BY <1>a
<1>1. /\ order \in [1..n -> Uncompleted(a)]
      /\ \A t \in Uncompleted(a) : \E i \in 1..n : order[i] = t
      /\ TaskId' = 1..(Len(task) + n)
      /\ \A i \in 1..n :
           /\ task'[Len(task) + i] = CompletionReceipt(order[i], "cancelled")
           /\ task'[order[i]] = [task[order[i]] EXCEPT !.completionTask = Len(task) + i]
      /\ \A t \in TaskId \ Uncompleted(a) :
           task'[t] = IF t \in Queued(a) /\ task[t].notificationFor # 0
                      THEN [task[t] EXCEPT !.status = "cancelled"] ELSE task[t]
  BY <1>0 DEF SuppressedAs
<1>2. Len(task) \in Nat /\ TaskId = 1..Len(task)
  BY RowTypes DEF Ready, Inv
<1>3. TaskId \subseteq TaskId'
  BY <1>1, <1>2
<1>4. ASSUME NEW i \in 1..n
      PROVE  /\ order[i] \in TaskId /\ Len(task) + i \in TaskId' \ TaskId /\ Len(task) + i \in Nat
             /\ \A t \in TaskId : t < Len(task) + i
             /\ task[order[i]].sender = a /\ task[order[i]].completionMode = "notify"
             /\ task[order[i]].completionTask = 0
  BY <1>1, <1>2 DEF Uncompleted
<1>5. ASSUME NEW i \in 1..n
      PROVE  /\ task'[Len(task) + i].status = "cancelled" /\ task'[Len(task) + i].completionTask = 0
             /\ ~task'[Len(task) + i].steerFallback /\ task'[Len(task) + i].notificationFor = order[i]
             /\ task'[Len(task) + i].completionMode = "poll" /\ task'[Len(task) + i].mode = "steer"
             /\ task'[Len(task) + i].target = a
  <2>1. PICK t : t = order[i]
    OBVIOUS
  <2>2. task'[Len(task) + i] = CompletionReceipt(t, "cancelled") /\ task[t].sender = a
    BY <1>1, <1>4, <2>1
  <2> QED
    BY <2>1, <2>2 DEF CompletionReceipt
<1>6. ASSUME NEW i \in 1..n, NEW t, t = order[i]
      PROVE  TaskMoves(t) /\ task'[t].completionTask = Len(task) + i /\ task'[t].status = task[t].status
  <2> DEFINE row == [task[t] EXCEPT !.completionTask = Len(task) + i]
  <2>1. t \in TaskId /\ task[t] \in Task /\ task[t].completionTask = 0 /\ task[t].completionMode = "notify"
    BY <1>4, <1>6, ReadyRows
  <2>2. /\ row.sender = task[t].sender /\ row.senderRun = task[t].senderRun
        /\ row.target = task[t].target /\ row.mode = task[t].mode
        /\ row.completionMode = task[t].completionMode /\ row.notificationFor = task[t].notificationFor
        /\ row.steerFallback = task[t].steerFallback /\ row.status = task[t].status
        /\ row.run = task[t].run /\ row.completionTask = Len(task) + i
    BY <2>1 DEF Task
  <2>3. task'[t] = row
    BY <1>1, <1>6
  <2> HIDE DEF row
  <2>4. task[t].status = "dispatching" => op'[task[t].target].task = t
    BY <2>1, ReadyRows DEF Ready, SafeInv, TaskInv, DispatchingIsHeld, KeepsTask
  <2>5. task'[t].completionTask \in TaskId' \ TaskId /\ task'[task'[t].completionTask].notificationFor = t
    BY <1>4, <1>5, <1>6, <2>2, <2>3
  <2>6. TaskMoves(t)
    BY <2>1, <2>2, <2>3, <2>4, <2>5 DEF TaskMoves, Pending, Terminal, RunTerminal, Task
  <2> QED
    BY <2>2, <2>3, <2>6
<1>7. ASSUME NEW t \in TaskId \ Uncompleted(a)
      PROVE  /\ TaskMoves(t) /\ task'[t].completionTask = task[t].completionTask
             /\ task[t].target = a /\ task[t].notificationFor # 0 => task'[t].status # "queued"
  <2>1. task[t] \in Task
    BY ReadyRows
  <2>2. CASE t \in Queued(a) /\ task[t].notificationFor # 0
    <3>1. task'[t] = [task[t] EXCEPT !.status = "cancelled"] /\ task[t].status = "queued"
      BY <1>1, <2>2 DEF Queued
    <3> QED
      BY <2>1, <3>1 DEF TaskMoves, Task, Terminal, RunTerminal
  <2>3. CASE ~(t \in Queued(a) /\ task[t].notificationFor # 0)
    <3>1. task'[t] = task[t]
      BY <1>1, <2>3
    <3>2. TaskMoves(t)
      BY <3>1, TaskUntouched, ReadyRows
    <3> QED
      BY <2>3, <3>1, <3>2 DEF Queued
  <2> QED
    BY <2>2, <2>3
<1>8. ASSUME NEW t \in TaskId
      PROVE  /\ TaskMoves(t)
             /\ task[t].sender = a /\ task[t].completionMode = "notify" => task'[t].completionTask # 0
             /\ task[t].target = a /\ task[t].notificationFor # 0 => task'[t].status # "queued"
  <2>1. CASE t \in Uncompleted(a)
    <3>1. PICK i \in 1..n : order[i] = t
      BY <1>1, <2>1
    <3>2. TaskMoves(t) /\ task'[t].completionTask = Len(task) + i
      BY <1>6, <3>1
    <3>3. Len(task) + i # 0
      BY <1>2
    <3>4. task[t].completionMode = "notify"
      BY <2>1 DEF Uncompleted
    <3>5. task[t].notificationFor # 0 => task[t].completionMode = "poll"
      BY DEF Ready, SafeInv, TaskInv, ReceiptIsLinked
    <3> QED
      BY <3>2, <3>3, <3>4, <3>5
  <2>2. CASE t \notin Uncompleted(a)
    BY <1>7, <2>2 DEF Uncompleted
  <2> QED
    BY <2>1, <2>2
<1>9. ASSUME NEW m \in TaskId' \ TaskId PROVE TaskComes(m) /\ task'[m].status = "cancelled"
  <2>1. PICK i \in 1..n : m = Len(task) + i
    <3>1. m \in Nat /\ m > Len(task) /\ m <= Len(task) + n
      BY <1>1, <1>2, <1>9
    <3>2. m - Len(task) \in 1..n /\ m = Len(task) + (m - Len(task))
      BY <1>2, <3>1
    <3> QED
      BY <3>2
  <2>2. task'[order[i]].completionTask = m
    BY <1>6, <2>1
  <2> QED
    BY <1>4, <1>5, <2>1, <2>2 DEF TaskComes
<1> QED
  BY <1>3, <1>8, <1>9 DEF TasksStep

\* Requests that take the lock, New chat, and a client that goes away.
LEMMA RequestWithin ==
  ASSUME Ready, NEW a \in Agent,
         \/ MessageSteer(a) \/ Interrupt(a) \/ (\E archive \in BOOLEAN : StopAgent(a, archive))
         \/ ResetAgentConversation(a) \/ ClientGone(a)
  PROVE  Summary
<1>1. UNCHANGED <<task, run, archived, inputs, silenced>>
  BY DEF MessageSteer, Interrupt, StopAgent, ResetAgentConversation, ClientGone
<1>2. RunsStep
  BY <1>1, RunsKept
<1>3. ASSUME NEW h, op' = [op EXCEPT ![a] = h], op[a] = Idle, UNCHANGED conv,
             h.task = op[a].task, h.pc \in {"messageSteer", "interrupting", "suppress"},
             a \notin archived \/ ActiveRuns(a) # {},
             h.pc = "interrupting" => h.run \in RunId
      PROVE  Summary
  <2>1. op[a].task = 0
    BY <1>3 DEF Idle
  <2>2. Opens(a) /\ KeepsTask(a)
    BY <1>3, <2>1, OneHand DEF Opens, KeepsTask
  <2>3. HandsStep /\ \A b \in Agent : KeepsTask(b)
    BY <1>3, <2>2, OneHand DEF HandMoves
  <2> QED
    BY <1>1, <1>2, <1>3, <2>3, TasksKept, HistoryKept DEF Summary
<1>4. CASE MessageSteer(a) \/ Interrupt(a)
  <2>1. PICK pc \in {"messageSteer", "interrupting"} :
          op' = [op EXCEPT ![a] = [op[a] EXCEPT !.pc = pc, !.run = ActiveRun(a)]]
    BY <1>4 DEF MessageSteer, Interrupt
  <2> DEFINE h == [op[a] EXCEPT !.pc = pc, !.run = ActiveRun(a)]
  <2>2. h.task = op[a].task /\ h.pc = pc /\ h.run = ActiveRun(a)
    BY ReadyRows DEF Operation
  <2>3. op' = [op EXCEPT ![a] = h]
    BY <2>1
  <2> HIDE DEF h
  <2>4. op[a] = Idle /\ UNCHANGED conv /\ ActiveRun(a) # 0
    BY <1>4 DEF MessageSteer, Interrupt
  <2>5. ActiveRuns(a) # {} /\ ActiveRun(a) \in RunId
    BY <2>4 DEF ActiveRun, ActiveRuns
  <2> QED
    BY <1>3, <2>2, <2>3, <2>4, <2>5
<1>5. CASE \E archive \in BOOLEAN : StopAgent(a, archive)
  <2>1. PICK archive : /\ op' = [op EXCEPT ![a] = [op[a] EXCEPT !.pc = "suppress", !.archive = archive]]
                       /\ op[a] = Idle /\ UNCHANGED conv /\ a \notin archived
    BY <1>5 DEF StopAgent
  <2> DEFINE h == [op[a] EXCEPT !.pc = "suppress", !.archive = archive]
  <2>2. h.task = op[a].task /\ h.pc = "suppress"
    BY ReadyRows DEF Operation
  <2>3. op' = [op EXCEPT ![a] = h]
    BY <2>1
  <2> HIDE DEF h
  <2> QED
    BY <1>3, <2>1, <2>2, <2>3
<1>6. CASE ResetAgentConversation(a)
  <2>1. /\ op' = op /\ op[a] = Idle /\ ActiveRun(a) = 0
        /\ conv' = [conv EXCEPT ![a] = conv[a] + 1]
    BY <1>6 DEF ResetAgentConversation
  <2>2. ActiveRuns(a) = {}
    BY <2>1, ReadyRows DEF ActiveRun, ActiveRuns
  <2>3. HistoryStep
    BY <1>1, <2>1, <2>2, ReadyRows DEF HistoryStep, TypeOK
  <2> QED
    BY <1>1, <1>2, <2>1, <2>3, HandsKept, TasksKept DEF Summary
<1>7. CASE ClientGone(a)
  <2> DEFINE h == [op[a] EXCEPT !.gone = TRUE]
  <2>1. h.task = op[a].task /\ h.pc = op[a].pc /\ h.run = op[a].run /\ h.gone = TRUE
    BY ReadyRows DEF Operation
  <2>2. op' = [op EXCEPT ![a] = h] /\ UNCHANGED conv
    BY <1>7 DEF ClientGone
  <2> HIDE DEF h
  <2>3. Stays(a) /\ KeepsTask(a)
    BY <2>1, <2>2, OneHand DEF Stays, KeepsTask
  <2>4. HandsStep /\ \A b \in Agent : KeepsTask(b)
    BY <2>2, <2>3, OneHand DEF HandMoves
  <2> QED
    BY <1>1, <1>2, <2>2, <2>4, TasksKept, HistoryKept DEF Summary
<1> QED
  BY <1>4, <1>5, <1>6, <1>7

\* The worker is told to interrupt a turn.
LEMMA OneInterrupted ==
  ASSUME Ready, NEW r, run' = run \/ run' = [run EXCEPT ![r] = [run[r] EXCEPT !.outbox = "interrupted"]]
  PROVE  RunsStep
<1> DEFINE row == [run[r] EXCEPT !.outbox = "interrupted"]
<1>1. r \in RunId => RowMoves(r, row)
  <2> SUFFICES ASSUME r \in RunId PROVE RowMoves(r, row)
    OBVIOUS
  <2>1. run[r] \in Run
    BY ReadyRows
  <2>2. /\ row.agent = run[r].agent /\ row.conversation = run[r].conversation
        /\ row.source = run[r].source /\ row.task = run[r].task
        /\ row.status = run[r].status /\ row.relay = run[r].relay /\ row.outbox = "interrupted"
    BY <2>1 DEF Run
  <2> HIDE DEF row
  <2> QED
    BY <2>2 DEF RowMoves, Live, RunTerminal
<1> HIDE DEF row
<1> QED
  BY <1>1, OneRun, RunsKept DEF row

\* The workers of a are gone.
LEMMA SomeRecovered ==
  ASSUME Ready, NEW a \in Agent, run' = run \/ run' = Recovered(a)
  PROVE  RunsStep
<1>1. CASE run' = run
  BY <1>1, RunsKept
<1>2. CASE run' = Recovered(a)
  <2>1. ASSUME NEW r \in RunId PROVE RowMoves(r, run'[r])
    <3>1. run'[r] = run[r] \/ run'[r] = [run[r] EXCEPT !.outbox = "unknown"]
      BY <1>2 DEF Recovered
    <3>2. run[r] \in Run
      BY ReadyRows
    <3> QED
      BY <3>1, <3>2 DEF RowMoves, Run
  <2>2. DOMAIN run' = RunId
    BY <1>2 DEF Recovered
  <2> QED
    BY <2>1, <2>2, AllRuns
<1> QED
  BY <1>1, <1>2

\* Stop run and stop finish the run they hold.
LEMMA StoppedRun ==
  ASSUME Ready, NEW a \in Agent, ~Stays(a), FinishStoppedRun(a)
  PROVE  RunsStep /\ (op[a].run \in RunId => op[a].gone \/ run'[op[a].run].status \in RunTerminal)
<1> DEFINE r == op[a].run
           status == IF op[a].gone THEN run[r].status ELSE "interrupted"
<1>1. PICK relay : run' = [run EXCEPT ![r] = [run[r] EXCEPT !.relay = relay, !.status = status]]
  BY DEF FinishStoppedRun
<1> DEFINE row == [run[r] EXCEPT !.relay = relay, !.status = status]
<1>2. status \in {"failed", "interrupted", run[r].status} /\ (op[a].gone \/ status \in RunTerminal)
  BY DEF RunTerminal
<1> HIDE DEF status
<1>3. r \in RunId => HandlerWrites(r, row) /\ row.status = status
  <2>1. r \in RunId => run[r] \in Run
    BY ReadyRows
  <2> QED
    BY <1>2, <2>1 DEF HandlerWrites, Run, RunTerminal
<1> HIDE DEF row
<1>4. run' = [run EXCEPT ![r] = row]
  BY <1>1 DEF row
<1>5. RunsStep
  BY <1>3, <1>4, HeldRun
<1>6. r \in RunId => run'[r] = row
  BY <1>4, ReadyRows
<1> QED
  BY <1>2, <1>3, <1>5, <1>6

\* Stop run, and a message to an active run.
LEMMA InterruptWithin ==
  ASSUME Ready, NEW a \in Agent,
         MessageSteerReplies(a) \/ CallInterrupt(a) \/ FinishInterrupted(a) \/ Silence(a)
  PROVE  Summary
<1>1. /\ UNCHANGED <<conv, archived, inputs>>
      /\ op[a].pc \in {"messageSteer", "interrupting", "interrupted", "silence"}
  BY DEF MessageSteerReplies, CallInterrupt, FinishInterrupted, Silence
<1>2. op[a].task = 0
  BY <1>1, NoTaskInHand DEF DeliveryPC, StartPC
<1>3. Return(a) => op'[a] = Idle /\ HandsStep /\ (\A b \in Agent : KeepsTask(b)) /\ ~Stays(a)
  BY <1>1, <1>2, OneReturns DEF Stays, Idle
<1> DEFINE r == op[a].run
<1>4. CASE MessageSteerReplies(a)
  <2> DEFINE row == [run[r] EXCEPT !.relay = StartRelay(run[r].relay)]
  <2>1. r \in RunId => HandlerWrites(r, row)
    BY HeldFields
  <2>2. run' = run \/ run' = [run EXCEPT ![r] = row]
    BY <1>4 DEF MessageSteerReplies
  <2> HIDE DEF row
  <2>3. Return(a) /\ UNCHANGED <<task, silenced>>
    BY <1>4 DEF MessageSteerReplies
  <2>4. RunsStep
    BY <1>3, <2>1, <2>2, <2>3, HeldRun
  <2> QED
    BY <1>1, <1>3, <2>3, <2>4, TasksKept, HistoryKept DEF Summary
<1>5. CASE CallInterrupt(a)
  <2>1. /\ run' = run \/ run' = [run EXCEPT ![r] = [run[r] EXCEPT !.outbox = "interrupted"]]
        /\ Return(a) \/ Step(a, "interrupted")
        /\ UNCHANGED <<task, silenced>> /\ op[a].pc = "interrupting"
    BY <1>5 DEF CallInterrupt, InterruptedRun
  <2>2. Step(a, "interrupted") => HandsStep /\ \A b \in Agent : KeepsTask(b)
    BY <2>1, OneSteps DEF Interrupts, HandMoves
  <2> QED
    BY <1>1, <1>3, <2>1, <2>2, OneInterrupted, TasksKept, HistoryKept DEF Summary
<1>6. CASE FinishInterrupted(a)
  <2>1. /\ FinishStoppedRun(a) /\ Step(a, "silence")
        /\ UNCHANGED <<task, silenced>> /\ op[a].pc = "interrupted"
    BY <1>6 DEF FinishInterrupted
  <2>2. /\ op'[a].pc = "silence" /\ op'[a].task = op[a].task /\ op'[a].run = r
        /\ op'[a].gone = op[a].gone /\ ~Stays(a) /\ \A b \in Agent : KeepsTask(b)
    BY <2>1, OneSteps DEF Stays
  <2>3. r \in RunId
    BY <2>1 DEF Ready, SafeInv, RunInv, SilencedIsOver
  <2>4. RunsStep /\ (op[a].gone \/ run'[r].status \in RunTerminal)
    BY <2>1, <2>2, <2>3, StoppedRun
  <2>5. HandsStep
    BY <2>1, <2>2, <2>4, OneSteps DEF Interrupts, HandMoves
  <2> QED
    BY <1>1, <2>1, <2>2, <2>4, <2>5, TasksKept, HistoryKept DEF Summary
<1>7. CASE Silence(a)
  <2>1. UNCHANGED run /\ Return(a) /\ op[a].pc = "silence"
    BY <1>7 DEF Silence
  <2>2. CASE op[a].gone
    <3>1. UNCHANGED <<task, silenced>>
      BY <1>7, <2>2 DEF Silence
    <3> QED
      BY <1>1, <1>3, <2>1, <3>1, RunsKept, TasksKept, HistoryKept DEF Summary
  <2>3. CASE ~op[a].gone
    <3>1. SuppressCollaborationCompletions(a) /\ silenced' = silenced \cup {r}
      BY <1>7, <2>3 DEF Silence
    <3>2. TasksStep /\ IsSilenced(a)
      BY <1>1, <1>3, <2>1, <2>3, <3>1, AllSuppressed DEF IsSilenced
    <3>3. HistoryStep
      BY <1>1, <3>2 DEF HistoryStep
    <3> QED
      BY <1>3, <2>1, <3>2, <3>3, RunsKept DEF Summary
  <2> QED
    BY <2>2, <2>3
<1> QED
  BY <1>4, <1>5, <1>6, <1>7

\* stop and archive.
LEMMA StopWithin ==
  ASSUME Ready, NEW a \in Agent,
         \/ StopSuppress(a) \/ StopCancelQueued(a) \/ StopInterrupt(a)
         \/ StopRuntime(a) \/ StopFinish(a) \/ ArchiveAgent(a)
  PROVE  Summary
<1>1. /\ UNCHANGED <<conv, inputs, silenced>>
      /\ op[a].pc \in {"suppress", "suppressAgain", "cancelQueued", "cancelAgain", "stopInterrupt",
                       "stopRuntime", "stopFinish", "archive"}
  BY DEF StopSuppress, StopCancelQueued, StopInterrupt, StopRuntime, StopFinish, ArchiveAgent
<1>2. op[a].task = 0
  BY <1>1, NoTaskInHand DEF DeliveryPC, StartPC
<1>3. Return(a) => op'[a] = Idle /\ HandsStep /\ (\A b \in Agent : KeepsTask(b)) /\ ~Stays(a)
  BY <1>1, <1>2, OneReturns DEF Stays, Idle
<1>4. CASE StopSuppress(a)
  <2>1. UNCHANGED <<run, archived>>
    BY <1>4 DEF StopSuppress
  <2>2. CASE Return(a) /\ UNCHANGED task
    BY <1>1, <1>3, <2>1, <2>2, RunsKept, TasksKept, HistoryKept DEF Summary
  <2>3. CASE \E pc : /\ SuppressCollaborationCompletions(a) /\ Step(a, pc)
                     /\ \/ op[a].pc = "suppress" /\ pc = "cancelQueued"
                        \/ op[a].pc = "suppressAgain" /\ pc = "cancelAgain"
    <3>1. Stops(a) /\ \A b \in Agent : KeepsTask(b)
      BY <2>3, OneSteps DEF Stops
    <3>2. HandsStep
      BY <2>3, <3>1, OneSteps DEF HandMoves
    <3>3. TasksStep
      BY <2>3, <3>1, AllSuppressed
    <3> QED
      BY <1>1, <2>1, <3>2, <3>3, RunsKept, HistoryKept DEF Summary
  <2>4. \/ Return(a) /\ UNCHANGED task
        \/ /\ SuppressCollaborationCompletions(a)
           /\ \/ op[a].pc = "suppress" /\ Step(a, "cancelQueued")
              \/ op[a].pc = "suppressAgain" /\ Step(a, "cancelAgain")
    BY <1>4, Zenon DEF StopSuppress
  <2> QED
    BY <2>2, <2>3, <2>4
<1>5. CASE StopCancelQueued(a)
  <2>1. UNCHANGED <<run, archived>>
    BY <1>5 DEF StopCancelQueued
  <2>2. /\ task' = task \/ task' = Cancelled(Queued(a))
        /\ \/ Return(a)
           \/ op[a].pc = "cancelQueued" /\ Step(a, "stopInterrupt")
           \/ op[a].pc = "cancelAgain" /\ Step(a, "archive")
    BY <1>5 DEF StopCancelQueued, CancelQueued, Cancelled
  <2>3. HandsStep /\ \A b \in Agent : KeepsTask(b)
    BY <1>3, <2>2, OneSteps DEF Stops, HandMoves
  <2>4. Queued(a) \subseteq {t \in TaskId : task[t].status = "queued"}
    BY DEF Queued
  <2>5. TasksStep
    BY <2>2, <2>3, <2>4, TasksKept, SomeCancelled
  <2> QED
    BY <1>1, <2>1, <2>3, <2>5, RunsKept, HistoryKept DEF Summary
<1>6. CASE StopInterrupt(a)
  <2> DEFINE r == ActiveRun(a)
             h == [op[a] EXCEPT !.pc = "stopRuntime", !.run = r]
  <2>1. /\ run' = run \/ run' = [run EXCEPT ![r] = [run[r] EXCEPT !.outbox = "interrupted"]]
        /\ op' = [op EXCEPT ![a] = h]
        /\ UNCHANGED <<task, archived>> /\ op[a].pc = "stopInterrupt"
    BY <1>6 DEF StopInterrupt, InterruptedRun
  <2>2. h.pc = "stopRuntime" /\ h.run = ActiveRun(a) /\ h.task = op[a].task /\ h.gone = op[a].gone
    BY ReadyRows DEF Operation
  <2> HIDE DEF h
  <2>3. Stops(a) /\ KeepsTask(a)
    BY <2>1, <2>2, OneHand DEF Stops, KeepsTask
  <2>4. HandsStep /\ \A b \in Agent : KeepsTask(b)
    BY <2>1, <2>3, OneHand DEF HandMoves
  <2> HIDE DEF r
  <2> QED
    BY <1>1, <2>1, <2>4, OneInterrupted, TasksKept, HistoryKept DEF Summary
<1>7. CASE StopRuntime(a)
  <2>1. /\ run' = run \/ run' = Recovered(a)
        /\ Return(a) \/ Step(a, "stopFinish")
        /\ UNCHANGED <<task, archived>> /\ op[a].pc = "stopRuntime"
    BY <1>7 DEF StopRuntime
  <2>2. HandsStep /\ \A b \in Agent : KeepsTask(b)
    BY <1>3, <2>1, OneSteps DEF Stops, HandMoves
  <2> QED
    BY <1>1, <2>1, <2>2, SomeRecovered, TasksKept, HistoryKept DEF Summary
<1>8. CASE StopFinish(a)
  <2>1. /\ IF op[a].run = 0 THEN UNCHANGED run ELSE FinishStoppedRun(a)
        /\ Step(a, "suppressAgain")
        /\ UNCHANGED <<task, archived>> /\ op[a].pc = "stopFinish"
    BY <1>8 DEF StopFinish
  <2>2. /\ op'[a].pc = "suppressAgain" /\ op'[a].task = op[a].task
        /\ op'[a].gone = op[a].gone /\ ~Stays(a) /\ \A b \in Agent : KeepsTask(b)
    BY <2>1, OneSteps DEF Stays
  <2>3. op[a].run \in RunId \cup {0}
    BY ReadyRows
  <2>4. RunsStep /\ (op[a].gone \/ op[a].run = 0 \/ run'[op[a].run].status \in RunTerminal)
    BY <2>1, <2>2, <2>3, StoppedRun, RunsKept
  <2>5. HandsStep
    BY <2>1, <2>2, <2>4, OneSteps DEF Stops, HandMoves
  <2> QED
    BY <1>1, <2>1, <2>2, <2>4, <2>5, TasksKept, HistoryKept DEF Summary
<1>9. CASE ArchiveAgent(a)
  <2>1. /\ archived' = IF op[a].gone THEN archived ELSE archived \cup {a}
        /\ UNCHANGED <<task, run>> /\ Return(a) /\ op[a].pc = "archive"
    BY <1>9 DEF ArchiveAgent
  <2>2. HistoryStep
    BY <1>1, <1>3, <2>1 DEF HistoryStep
  <2> QED
    BY <1>3, <2>1, <2>2, RunsKept, TasksKept DEF Summary
<1> QED
  BY <1>4, <1>5, <1>6, <1>7, <1>8, <1>9

\* A task that follows its run, or whose delivery a restart gives up.
LEMMA FollowsRun ==
  ASSUME Ready, UNCHANGED inputs, NEW t \in TaskId, NEW status, NEW confirmed,
         task'[t] = [task[t] EXCEPT !.status = status, !.deliveryConfirmed = confirmed],
         \/ Reconcilable(t) /\ status = run[task[t].run].status
         \/ status = task[t].status /\ op' = op
         \/ status = task[t].status /\ status # "dispatching"
         \/ task[t].status = "dispatching" /\ status = "unknown"
  PROVE  TaskMoves(t)
<1> DEFINE row == [task[t] EXCEPT !.status = status, !.deliveryConfirmed = confirmed]
<1>1. task[t] \in Task
  BY ReadyRows
<1>2. /\ row.sender = task[t].sender /\ row.senderRun = task[t].senderRun
      /\ row.target = task[t].target /\ row.mode = task[t].mode
      /\ row.completionMode = task[t].completionMode /\ row.notificationFor = task[t].notificationFor
      /\ row.completionTask = task[t].completionTask /\ row.steerFallback = task[t].steerFallback
      /\ row.run = task[t].run /\ row.status = status
  BY <1>1 DEF Task
<1>3. task'[t] = row
  OBVIOUS
<1> HIDE DEF row
<1>4. task[t].status = "dispatching" /\ op' = op => op'[task[t].target].task = t
  BY DEF Ready, SafeInv, TaskInv, DispatchingIsHeld
<1>5. CASE Reconcilable(t) /\ status = run[task[t].run].status
  <2>1. status \in RunTerminal /\ task[t].run # 0 /\ task[t].status \in {"running", "unknown"}
    BY <1>5 DEF Reconcilable
  <2>2. task[t].status = "unknown" => task[t].run \in RunId /\ run[task[t].run].task = t
    BY <1>1, <1>5, <2>1, RowTypes DEF Reconcilable, Ready, Inv, TypeOK, TasksTyped
  <2>3. task[t].status = "unknown" /\ status = "completed" => \E i \in inputs' : i.task = t /\ i.run = task[t].run
    <3> SUFFICES ASSUME task[t].status = "unknown", status = "completed"
                 PROVE  \E i \in inputs' : i.task = t /\ i.run = task[t].run
      OBVIOUS
    <3>1. PICK i \in inputs : i.run = task[t].run /\ i.how = "start"
      BY <1>5, <2>2 DEF Ready, SafeInv, OutcomeInv, TurnWasStarted, TurnStarted
    <3>2. i.task = t
      BY <2>2, <3>1 DEF Ready, SafeInv, OutcomeInv, InputNamesItsRun
    <3> QED
      BY <3>1, <3>2
  <2> QED
    BY <1>2, <1>3, <1>5, <2>1, <2>2, <2>3 DEF TaskMoves, Terminal, RunTerminal
<1>6. CASE status = task[t].status /\ (op' = op \/ status # "dispatching")
  BY <1>1, <1>2, <1>3, <1>4, <1>6 DEF TaskMoves, Task, Pending, Terminal, RunTerminal
<1>7. CASE task[t].status = "dispatching" /\ status = "unknown"
  BY <1>2, <1>3, <1>7, Zenon DEF TaskMoves, Terminal, RunTerminal
<1> QED
  BY <1>5, <1>6, <1>7

\* Reconciliation rewrites only the status and the confirmation of a task.
LEMMA ReconciledRow ==
  ASSUME Ready, NEW t \in TaskId
  PROVE  \E status, confirmed :
           /\ Reconciled[t] = [task[t] EXCEPT !.status = status, !.deliveryConfirmed = confirmed]
           /\ \/ Reconcilable(t) /\ status = run[task[t].run].status /\ status # "dispatching"
              \/ status = task[t].status
<1>1. task[t] \in Task
  BY ReadyRows
<1>2. CASE Reconcilable(t)
  <2>1. PICK status, confirmed :
          /\ status = run[task[t].run].status
          /\ Reconciled[t] = [task[t] EXCEPT !.status = status, !.deliveryConfirmed = confirmed]
    BY <1>2 DEF Reconciled
  <2>2. status # "dispatching"
    BY <1>2, <2>1 DEF Reconcilable, RunTerminal
  <2> QED
    BY <1>2, <2>1, <2>2
<1>3. CASE ~Reconcilable(t)
  <2>1. Reconciled[t] = task[t]
    BY <1>3 DEF Reconciled
  <2>2. task[t] = [task[t] EXCEPT !.status = task[t].status, !.deliveryConfirmed = task[t].deliveryConfirmed]
    BY <1>1 DEF Task
  <2> QED
    BY <2>1, <2>2
<1> QED
  BY <1>2, <1>3

\* A cancellation, the worker, the relay and reconciliation take no lock.
LEMMA BackgroundWithin ==
  ASSUME Ready,
         \/ \E t \in TaskId : CollaborationCancel(t)
         \/ \E r \in RunId : Worker(r) \/ Relay(r)
         \/ ReconcileCollaborationTasks
         \/ Settled \/ UNCHANGED vars
  PROVE  Summary
<1>1. UNCHANGED <<conv, archived, op, silenced>>
  BY DEF CollaborationCancel, Worker, WorkerStarts, WorkerStartFails, WorkerFinishes, Relay,
         RelayReads, RelayFinishes, ReconcileCollaborationTasks, Settled, vars
<1>2. HandsStep /\ \A b \in Agent : KeepsTask(b)
  BY <1>1, HandsKept
<1>3. UNCHANGED inputs => HistoryStep
  BY <1>1, HistoryKept
<1>4. ASSUME NEW t \in TaskId, CollaborationCancel(t) PROVE Summary
  <2>1. task' = Cancelled({t}) /\ task[t].status = "queued" /\ UNCHANGED <<run, inputs>>
    BY <1>4, ReadyRows DEF CollaborationCancel, Cancelled
  <2>2. TasksStep
    BY <1>2, <2>1, SomeCancelled
  <2> QED
    BY <1>2, <1>3, <2>1, <2>2, RunsKept DEF Summary
<1>5. ASSUME NEW r \in RunId, Worker(r) PROVE Summary
  <2>0. run[r] \in Run
    BY ReadyRows
  <2>1. PICK outbox :
          /\ run' = [run EXCEPT ![r] = [run[r] EXCEPT !.outbox = outbox]]
          /\ \/ /\ outbox = "live" /\ run[r].outbox = "starting"
                /\ inputs' = inputs \cup {[task |-> run[r].task, run |-> r, how |-> "start"]}
             \/ /\ UNCHANGED inputs /\ outbox # "live"
                /\ outbox = "completed" => run[r].outbox = "live"
    <3>1. CASE WorkerStarts(r)
      BY <3>1 DEF WorkerStarts
    <3>2. CASE WorkerStartFails(r) \/ WorkerFinishes(r)
      BY <3>2, ConstantsAssumption DEF WorkerStartFails, WorkerFinishes
    <3> QED
      BY <1>5, <3>1, <3>2 DEF Worker
  <2>2. UNCHANGED task
    BY <1>5 DEF Worker, WorkerStarts, WorkerStartFails, WorkerFinishes
  <2> DEFINE row == [run[r] EXCEPT !.outbox = outbox]
             input == [task |-> run[r].task, run |-> r, how |-> "start"]
  <2>3. /\ row.agent = run[r].agent /\ row.conversation = run[r].conversation
        /\ row.source = run[r].source /\ row.task = run[r].task
        /\ row.status = run[r].status /\ row.relay = run[r].relay /\ row.outbox = outbox
    BY <2>0 DEF Run
  <2>4. input.task = run[r].task /\ input.run = r /\ input.how = "start"
    OBVIOUS
  <2>5. outbox = "live" => NextStarted(r)
    BY <2>1, <2>4 DEF NextStarted
  <2> HIDE DEF row
  <2>6. RowMoves(r, row)
    BY <2>1, <2>3, <2>5 DEF RowMoves, Live, RunTerminal
  <2>7. RunsStep
    BY <2>1, <2>6, OneRun DEF row
  <2>8. HistoryStep
    <3>1. CASE inputs' = inputs \cup {input} /\ run[r].outbox = "starting"
      <4>1. InputComes(input)
        BY <2>4, <3>1 DEF InputComes
      <4> QED
        BY <1>1, <3>1, <4>1 DEF HistoryStep
    <3>2. CASE UNCHANGED inputs
      BY <1>3, <3>2
    <3> QED
      BY <2>1, <3>1, <3>2
  <2> QED
    BY <1>2, <2>2, <2>7, <2>8, TasksKept DEF Summary
<1>6. ASSUME NEW r \in RunId, Relay(r) PROVE Summary
  <2>0. run[r] \in Run
    BY ReadyRows
  <2>1. UNCHANGED <<task, inputs>>
    BY <1>6 DEF Relay, RelayReads, RelayFinishes
  <2>2. PICK row : run' = [run EXCEPT ![r] = row] /\ RowMoves(r, row)
    <3>1. CASE RelayReads(r)
      <4> DEFINE row == [run[r] EXCEPT !.relay = "finishing"]
      <4>1. RowMoves(r, row)
        BY <2>0, <3>1 DEF RelayReads, RowMoves, Run
      <4>2. run' = [run EXCEPT ![r] = row]
        BY <3>1 DEF RelayReads
      <4> QED
        BY <4>1, <4>2
    <3>2. CASE RelayFinishes(r)
      <4> DEFINE status == IF run[r].outbox = "none" THEN "unknown" ELSE run[r].outbox
                 row == [run[r] EXCEPT !.status = status, !.relay = "off"]
      <4>1. /\ run[r].relay = "finishing" /\ status \in RunTerminal
            /\ status = "completed" => run[r].outbox = "completed"
        BY <2>0, <3>2 DEF RelayFinishes, Ready, Inv, RelayInv, RelayHoldsOutcome, Run, RunTerminal
      <4>2. run' = [run EXCEPT ![r] = row]
        <5>1. [run EXCEPT ![r].status = status][r] = [run[r] EXCEPT !.status = status]
          BY ReadyRows
        <5> HIDE DEF status
        <5>2. run' = [[run EXCEPT ![r].status = status] EXCEPT ![r].relay = "off"]
          BY <3>2 DEF RelayFinishes, FinishRun, status
        <5> QED
          BY <5>1, <5>2
      <4> HIDE DEF status
      <4>3. RowMoves(r, row)
        BY <2>0, <4>1 DEF RowMoves, Run
      <4> QED
        BY <4>2, <4>3
    <3> QED
      BY <1>6, <3>1, <3>2 DEF Relay
  <2>3. RunsStep
    BY <2>2, OneRun
  <2> QED
    BY <1>2, <1>3, <2>1, <2>3, TasksKept DEF Summary
<1>7. CASE ReconcileCollaborationTasks
  <2>1. task' = Reconciled /\ UNCHANGED <<run, inputs>>
    BY <1>7 DEF ReconcileCollaborationTasks
  <2>2. TaskId' = TaskId
    BY <2>1 DEF TaskId, Reconciled
  <2>3. \A t \in TaskId : TaskMoves(t)
    <3> TAKE t \in TaskId
    <3>1. PICK status, confirmed :
            /\ Reconciled[t] = [task[t] EXCEPT !.status = status, !.deliveryConfirmed = confirmed]
            /\ \/ Reconcilable(t) /\ status = run[task[t].run].status /\ status # "dispatching"
               \/ status = task[t].status
      BY ReconciledRow
    <3> QED
      BY <1>1, <2>1, <3>1, FollowsRun
  <2> QED
    BY <1>2, <1>3, <2>1, <2>2, <2>3, RunsKept DEF Summary, TasksStep
<1>8. CASE Settled \/ UNCHANGED vars
  <2>1. UNCHANGED <<task, run, inputs>>
    BY <1>8 DEF Settled, vars
  <2> QED
    BY <1>2, <1>3, <2>1, RunsKept, TasksKept DEF Summary
<1> QED
  BY <1>4, <1>5, <1>6, <1>7, <1>8

\* A restart of the server.
LEMMA RestartWithin ==
  ASSUME Ready, Restart
  PROVE  Summary
<1>1. UNCHANGED <<conv, archived, inputs, silenced>> /\ \A a \in Agent : op'[a] = Idle
  BY DEF Restart
<1>2. HandsStep /\ HistoryStep
  BY <1>1, HistoryKept DEF HandsStep, HandMoves
<1>3. RunsStep
  <2>1. DOMAIN run' = RunId
    BY DEF Restart
  <2>2. \A r \in RunId : RowMoves(r, run'[r])
    <3> TAKE r \in RunId
    <3>1. run'[r] = [run[r] EXCEPT !.relay = ResumedRelay(r)] /\ run[r] \in Run
      BY ReadyRows DEF Restart
    <3> QED
      BY <1>1, <3>1 DEF RowMoves, Run
  <2> QED
    BY <2>1, <2>2, AllRuns
<1>4. TaskId' = TaskId
  BY DEF Restart, TaskId
<1>5. \A t \in TaskId : TaskMoves(t)
  <2> TAKE t \in TaskId
  <2>0. task[t] \in Task
    BY ReadyRows
  <2>1. PICK status, confirmed :
          /\ Reconciled[t] = [task[t] EXCEPT !.status = status, !.deliveryConfirmed = confirmed]
          /\ \/ Reconcilable(t) /\ status = run[task[t].run].status /\ status # "dispatching"
             \/ status = task[t].status
    BY ReconciledRow
  <2>2. Reconciled[t].status = status
    BY <2>0, <2>1 DEF Task
  <2>3. PICK recovered : recovered = RecoveredStatus(status)
    OBVIOUS
  <2>4. task'[t] = [Reconciled[t] EXCEPT !.status = recovered]
    BY <2>2, <2>3 DEF Restart
  <2>5. task'[t] = [task[t] EXCEPT !.status = recovered, !.deliveryConfirmed = confirmed]
    BY <2>0, <2>1, <2>4 DEF Task
  <2> QED
    BY <1>1, <2>1, <2>3, <2>5, FollowsRun, ZenonT(60) DEF RecoveredStatus
<1> QED
  BY <1>2, <1>3, <1>4, <1>5 DEF Summary, TasksStep

\* Every step is within the summary.
LEMMA StepWithin ==
  ASSUME Inv, SafeInv, [Next]_vars
  PROVE  Summary
<1>0. Ready
  BY StepKeepsInv DEF Ready
<1>1. ASSUME NEW a \in Agent, Handler(a) PROVE Summary
  BY <1>0, <1>1, DispatchWithin, ClaimWithin, SteerWithin, BeginWithin, StartWithin, StartedWithin,
     StartEndsWithin, InterruptWithin, StopWithin DEF Handler
<1>2. ASSUME NEW a \in Agent, Submission(a) \/ Request(a) \/ ClientGone(a) \/ DispatchCollaboration(a)
      PROVE  Summary
  BY <1>0, <1>2, SubmissionWithin, BeginWithin, RequestWithin, DispatchWithin DEF Request
<1> QED
  BY <1>0, <1>1, <1>2, BackgroundWithin, RestartWithin DEF Next

-----------------------------------------------------------------------------
(* SafeInv is an invariant.                                                *)

\* Nothing has happened in the initial state.
LEMMA InitSafe == Init => SafeInv
<1> SUFFICES ASSUME Init PROVE SafeInv
  OBVIOUS
<1>1. /\ RunId = {} /\ TaskId = {} /\ inputs = {} /\ silenced = {} /\ archived = {}
      /\ \A a \in Agent : op[a] = Idle
  BY DEF Init, RunId, TaskId
<1>2. Idle.pc = "idle" /\ Idle.task = 0
  BY DEF Idle
<1>3. \A a \in Agent : ActiveRuns(a) = {}
  BY <1>1 DEF ActiveRuns
<1>4. RunInv
  BY <1>1, <1>2, <1>3 DEF RunInv, StartHoldsRun, OneActiveRun, StopHoldsRun, ArchivedIsIdle, SilencedIsOver,
                          ActiveChatIsCurrent, StartPC
<1>5. TaskInv
  BY <1>1, <1>2 DEF TaskInv, DispatchingIsHeld, SteersOnce, AcceptanceOrder, RefusedSteerStartsItsOwnTurn,
                    CallerIsKnown, ReceiptIsLinked, OneNotificationPerTask, StopRunSilences, SteerPC
<1>6. FreshInv
  BY <1>1, <1>2 DEF FreshInv, DispatcherIsFresh, OwnRunIsFresh, NotificationEntersItsConversation
<1>7. OutcomeInv
  BY <1>1, <1>2 DEF OutcomeInv, InputNamesItsRun, TurnWasStarted, HandlerHasDelivered, RunningIsDelivered
<1> QED
  BY <1>4, <1>5, <1>6, <1>7 DEF SafeInv

\* What handlers, runs and tasks owe each other holds in every reachable state, for
\* any number of agents, keys, tasks, runs, faults, restarts and departed clients.
THEOREM Safety == Spec => [](Inv /\ SafeInv)
<1>1. Init => Inv /\ SafeInv
  BY InitInv, InitSafe
<1>2. (Inv /\ SafeInv) /\ [Next]_vars => (Inv /\ SafeInv)'
  <2> SUFFICES ASSUME Inv, SafeInv, [Next]_vars PROVE Inv' /\ SafeInv'
    OBVIOUS
  <2>1. Inv' /\ Summary
    BY StepKeepsInv, StepWithin
  <2> QED
    BY <2>1, SafeInvSurvives DEF Stepping
<1> QED
  BY <1>1, <1>2, PTL DEF Spec

\* Queued instructions to one agent leave its queue in the order in which they were
\* accepted, whoever sent them and however often the dispatcher returned or restarted.
THEOREM InstructionsInOrder == Spec => []AcceptanceOrder
<1>1. SafeInv => AcceptanceOrder
  BY DEF SafeInv, TaskInv
<1> QED
  BY <1>1, Safety, PTL

\* A steer that a turn has refused is never redirected into a later turn.
THEOREM RefusedSteerStarts == Spec => []RefusedSteerStartsItsOwnTurn
<1>1. SafeInv => RefusedSteerStartsItsOwnTurn
  BY DEF SafeInv, TaskInv
<1> QED
  BY <1>1, Safety, PTL

\* A completion notification enters only the conversation that asked for it, though
\* New chat, scheduled runs and restarts come between its enqueueing and its delivery.
THEOREM NotificationsStayHome == Spec => []NotificationEntersItsConversation
<1>1. SafeInv => NotificationEntersItsConversation
  BY DEF SafeInv, FreshInv
<1> QED
  BY <1>1, Safety, PTL

\* A task and its notification are linked both ways, by whatever transaction and
\* handler the two links were written, and a task gets one notification at most.
THEOREM NotifiedOnce == Spec => []OneNotificationPerTask
<1>1. SafeInv => OneNotificationPerTask
  BY DEF SafeInv, TaskInv
<1> QED
  BY <1>1, Safety, PTL

\* Once Stop run is acknowledged nothing calls the run's agent back, not even a
\* delegation whose acceptance was under way.
THEOREM StopSilences == Spec => []StopRunSilences
<1>1. SafeInv => StopRunSilences
  BY DEF SafeInv, TaskInv
<1> QED
  BY <1>1, Safety, PTL

\* A task reported completed did reach the turn that it names, although steers are
\* confirmed, lost and reconciled by different actors.
THEOREM CompletedWasDelivered == Spec => []CompletedMeansDelivered
<1>1. SafeInv => CompletedMeansDelivered
  BY DEF SafeInv, OutcomeInv, RunningIsDelivered, CompletedMeansDelivered
<1> QED
  BY <1>1, Safety, PTL

\* An archived agent has no active run and no delivery in progress, although runs end
\* and tasks are accepted while its archiving goes on.
THEOREM ArchivedIsQuiet == Spec => []ArchivedAgentRunsNothing
<1>1. Inv /\ SafeInv => ArchivedAgentRunsNothing
  <2> SUFFICES ASSUME Inv, SafeInv, NEW a \in archived
               PROVE  /\ ActiveRuns(a) = {}
                      /\ \A t \in TaskId : task[t].target = a => task[t].status # "dispatching"
    BY DEF ArchivedAgentRunsNothing
  <2>1. a \in Agent /\ 0 \notin TaskId
    BY RowTypes DEF Inv, TypeOK
  <2>2. op[a].pc \in {"idle", "outbox"} /\ ActiveRuns(a) = {}
    BY DEF SafeInv, RunInv, ArchivedIsIdle
  <2>3. op[a].task = 0
    BY <2>1, <2>2 DEF Inv, DeliveryInv, HandlerHoldsTask, StartPC
  <2> QED
    BY <2>1, <2>2, <2>3 DEF SafeInv, TaskInv, DispatchingIsHeld
<1> QED
  BY <1>1, Safety, PTL

\* A run that has ended never becomes active again, and what a task came to stays,
\* although several actors write both without looking at what is there.
THEOREM FinalOutcomes == Spec => OutcomesAreFinal
<1>1. Inv /\ SafeInv /\ [Next]_vars => [FinishedRunStaysFinished /\ TaskOutcomeStays]_vars
  <2> SUFFICES ASSUME Inv, SafeInv, [Next]_vars PROVE FinishedRunStaysFinished /\ TaskOutcomeStays
    OBVIOUS
  <2>1. Summary
    BY StepWithin
  <2>2. ASSUME NEW r \in RunId, run[r].status \in RunTerminal PROVE run'[r].status \in RunTerminal
    BY <2>1, <2>2 DEF Summary, RunsStep, RunMoves
  <2>3. FinishedRunStaysFinished
    BY <2>2 DEF FinishedRunStaysFinished
  <2>4. TaskOutcomeStays
    BY <2>1 DEF Summary, TasksStep, TaskMoves, TaskOutcomeStays
  <2> QED
    BY <2>3, <2>4
<1> QED
  BY <1>1, Safety, PTL DEF Spec, OutcomesAreFinal

-----------------------------------------------------------------------------
(* Active runs are watched while clients wait for their answers.           *)

\* Only the handler of a moves, if any does.
OnlyMoves(a) == \A b \in Agent \ {a} : op'[b] = op[b]

\* The client of a's handler stays, or is served.
KeepsClient(a) == op'[a] = Idle \/ op'[a].gone = op[a].gone

\* A handler moves alone, and its client stays with it.
LEMMA HandMovesAlone ==
  ASSUME Ready, NEW a \in Agent, Handler(a) \/ Request(a) \/ DispatchCollaboration(a)
  PROVE  OnlyMoves(a) /\ KeepsClient(a)
<1>0. op \in [Agent -> Operation] /\ op[a] \in Operation
  BY ReadyRows DEF TypeOK, HandlersTyped
<1> USE <1>0 DEF OnlyMoves, KeepsClient, Operation
<1>1. ASSUME NEW pc, Step(a, pc) PROVE OnlyMoves(a) /\ KeepsClient(a)
  BY <1>1 DEF Step
<1>2. ASSUME Return(a) PROVE OnlyMoves(a) /\ KeepsClient(a)
  BY <1>2 DEF Return
<1>3. CASE EnqueueCompletion(a) \/ LoadPending(a) \/ SelectSteer(a) \/ SelectStart(a) \/ SelectNone(a)
  <2>1. CASE EnqueueCompletion(a)
    <3>1. PICK t \in op[a].todo : op' = [op EXCEPT ![a].todo = @ \ {t}]
      BY <2>1 DEF EnqueueCompletion
    <3> QED
      BY <3>1
  <2>2. CASE LoadPending(a) \/ SelectNone(a)
    <3>1. Return(a) \/ Step(a, "select")
      BY <2>2 DEF LoadPending, SelectNone
    <3> QED
      BY <1>1, <1>2, <3>1
  <2>3. CASE SelectSteer(a)
    <3>1. PICK t : op' = [op EXCEPT ![a].pc = "steering", ![a].task = t, ![a].run = ActiveRun(a)]
      BY <2>3 DEF SelectSteer
    <3> QED
      BY <3>1
  <2>4. CASE SelectStart(a)
    <3>1. PICK t : op' = [op EXCEPT ![a].pc = "claimed", ![a].task = t]
      BY <2>4 DEF SelectStart
    <3> QED
      BY <3>1
  <2> QED
    BY <1>3, <2>1, <2>2, <2>3, <2>4
<1>4. CASE SteerTurn(a) \/ SteerAccepted(a) \/ SteerRejected(a) \/ SteerLost(a)
  BY <1>1, <1>2, <1>4 DEF SteerTurn, SteerAccepted, SteerRejected, SteerLost
<1>5. CASE StartCollaborationFails(a) \/ CreateRun(a) \/ BindRun(a) \/ RunDueScheduleFails(a)
  BY <1>1, <1>2, <1>5 DEF StartCollaborationFails, CreateRun, BindRun, RunDueScheduleFails
<1>6. CASE CallStartTurn(a) \/ StartTurnReplies(a) \/ SetRunStarted(a) \/ CollaborationStarted(a)
  BY <1>1, <1>2, <1>6 DEF CallStartTurn, StartTurnReplies, SetRunStarted, CollaborationStarted
<1>7. CASE StartRejected(a) \/ CollaborationFailed(a) \/ StartLost(a) \/ MessageSteerReplies(a)
  BY <1>1, <1>2, <1>7 DEF StartRejected, CollaborationFailed, StartLost, MessageSteerReplies
<1>8. CASE CallInterrupt(a) \/ FinishInterrupted(a) \/ Silence(a) \/ StopSuppress(a) \/ StopCancelQueued(a)
  BY <1>1, <1>2, <1>8 DEF CallInterrupt, FinishInterrupted, Silence, StopSuppress, StopCancelQueued
<1>9. CASE StopInterrupt(a) \/ StopRuntime(a) \/ StopFinish(a) \/ ArchiveAgent(a)
  BY <1>1, <1>2, <1>9 DEF StopInterrupt, StopRuntime, StopFinish, ArchiveAgent
<1>10. CASE Request(a) \/ DispatchCollaboration(a)
  BY <1>10 DEF Request, DispatchCollaboration, Message, RunDueSchedule, BeginUserRun, MessageSteer,
               Interrupt, StopAgent, ResetAgentConversation
<1> QED
  BY <1>3, <1>4, <1>5, <1>6, <1>7, <1>8, <1>9, <1>10 DEF Handler

\* A run that is still active keeps its relay, if it has one.
RelaysStay == \A r \in RunId : run'[r].status \in Live /\ run[r].relay # "off" => run'[r].relay # "off"

\* A handler that starts a turn goes on with it until the run is over or has its relay.
StartsStay ==
  \A a \in Agent : op[a].pc \in StartPC =>
    \/ op'[a].pc \in StartPC /\ op'[a].run = op[a].run
    \/ run'[op[a].run].status \notin Live
    \/ run'[op[a].run].relay # "off"

Watching == RelaysStay /\ StartsStay

\* What is known of the handlers when clients wait.
Waiting == Ready /\ Disconnects = FALSE /\ WatchInv

\* Runs are not written, and no start ends.
LEMMA RunsStayWatched ==
  ASSUME UNCHANGED run, \A a \in Agent : op[a].pc \in StartPC => op'[a] = op[a]
  PROVE  Watching
BY DEF Watching, RelaysStay, StartsStay

\* One run is written, and it keeps its relay; the start that ends is the one of its
\* handler, which leaves the run over or relayed.
LEMMA OneRunWatched ==
  ASSUME Ready, NEW a \in Agent, OnlyMoves(a), NEW r \in RunId, NEW row,
         run' = run \/ run' = [run EXCEPT ![r] = row],
         row.status \in Live /\ run[r].relay # "off" => row.relay # "off",
         op[a].pc \in StartPC =>
           \/ op'[a].pc \in StartPC /\ op'[a].run = op[a].run
           \/ /\ r = op[a].run /\ run' = [run EXCEPT ![r] = row]
              /\ row.status \notin Live \/ row.relay # "off"
  PROVE  Watching
<1>1. \/ run' = run
      \/ run'[r] = row /\ \A q \in RunId : q # r => run'[q] = run[q]
  BY ReadyRows
<1>2. run' = [run EXCEPT ![r] = row] => run'[r] = row
  BY ReadyRows
<1>3. RelaysStay
  BY <1>1 DEF RelaysStay
<1>4. StartsStay
  BY <1>2 DEF StartsStay, OnlyMoves
<1> QED
  BY <1>3, <1>4 DEF Watching

\* The relay of a run that handlers start.
LEMMA StartedRelay ==
  ASSUME Ready, NEW r \in RunId
  PROVE  StartRelay(run[r].relay) # "off"
BY ReadyRows DEF StartRelay

\* The handler of a writes no run and is at no start.
LEMMA AsideWatched ==
  ASSUME Ready, NEW a \in Agent, OnlyMoves(a), UNCHANGED run, op[a].pc \notin StartPC
  PROVE  Watching
BY RunsStayWatched DEF OnlyMoves

\* The dispatcher until it starts a turn, and the requests.
LEMMA DispatchWatched ==
  ASSUME Ready, NEW a \in Agent,
         \/ EnqueueCompletion(a) \/ LoadPending(a) \/ SelectSteer(a) \/ SelectStart(a) \/ SelectNone(a)
         \/ SteerTurn(a) \/ SteerAccepted(a) \/ SteerRejected(a) \/ SteerLost(a)
         \/ StartCollaborationFails(a) \/ Silence(a) \/ StopSuppress(a) \/ StopCancelQueued(a)
         \/ ArchiveAgent(a) \/ DispatchCollaboration(a) \/ MessageSteer(a) \/ Interrupt(a)
         \/ (\E archive \in BOOLEAN : StopAgent(a, archive)) \/ ResetAgentConversation(a)
  PROVE  Watching
<1>1. OnlyMoves(a)
  BY HandMovesAlone DEF Handler, Request
<1>2. Idle.pc = "idle"
  BY Zenon DEF Idle
<1>3. UNCHANGED run /\ op[a].pc \notin StartPC
  BY <1>2 DEF EnqueueCompletion, LoadPending, SelectSteer, SelectStart, SelectNone, SteerTurn, SteerAccepted,
     SteerRejected, SteerLost, StartCollaborationFails, Silence, StopSuppress, StopCancelQueued, ArchiveAgent,
     DispatchCollaboration, MessageSteer, Interrupt, StopAgent, ResetAgentConversation, StartPC
<1> QED
  BY <1>1, <1>3, AsideWatched

\* A new run leaves the others as they are.
LEMMA BeginWatched ==
  ASSUME Ready, NEW a \in Agent, CreateRun(a) \/ Message(a) \/ RunDueSchedule(a)
  PROVE  Watching
<1>1. OnlyMoves(a)
  BY HandMovesAlone DEF Handler, Request
<1>2. op[a].pc \notin StartPC
  BY DEF CreateRun, Message, RunDueSchedule, BeginUserRun, Idle, StartPC
<1>3. PICK new : run' = Append(run, new)
  BY DEF CreateRun, Message, RunDueSchedule, BeginUserRun
<1>4. \A q \in RunId : run'[q] = run[q]
  BY <1>3, AppendedRun
<1>5. RelaysStay
  BY <1>4 DEF RelaysStay
<1>6. StartsStay
  BY <1>1, <1>2, <1>4, StartHolds DEF StartsStay, OnlyMoves
<1> QED
  BY <1>5, <1>6 DEF Watching

\* The start of a turn.
LEMMA StartWatched ==
  ASSUME Waiting, NEW a \in Agent,
         \/ BindRun(a) \/ RunDueScheduleFails(a) \/ CallStartTurn(a) \/ StartTurnReplies(a)
         \/ SetRunStarted(a) \/ CollaborationStarted(a)
         \/ StartRejected(a) \/ CollaborationFailed(a) \/ StartLost(a)
  PROVE  Watching
<1> DEFINE r == op[a].run
           failed == [run[r] EXCEPT !.status = "failed"]
           sent == [run[r] EXCEPT !.outbox = "starting"]
           relayed == [run[r] EXCEPT !.relay = StartRelay(run[r].relay)]
           started == [run[r] EXCEPT !.status = "running", !.turn = TRUE]
           both == [started EXCEPT !.relay = StartRelay(started.relay)]
<1>1. Ready /\ OnlyMoves(a) /\ ~op[a].gone
  BY HandMovesAlone DEF Handler, Waiting, WatchInv
<1>2. op[a].pc \in StartPC
  BY DEF BindRun, RunDueScheduleFails, CallStartTurn, StartTurnReplies, SetRunStarted, CollaborationStarted,
         StartRejected, CollaborationFailed, StartLost, StartPC
<1>3. r \in RunId /\ run[r] \in Run /\ run[r].relay = "off" /\ "failed" \notin Live
  BY <1>1, <1>2, StartHolds, ReadyRows DEF Live
<1>4. /\ failed.status = "failed" /\ sent.relay = run[r].relay
      /\ relayed.relay # "off" /\ both.relay # "off"
      /\ started.relay = run[r].relay
  <2>1. failed.status = "failed" /\ sent.relay = run[r].relay /\ started.relay = run[r].relay
    BY <1>3 DEF Run
  <2>2. relayed.relay = StartRelay(run[r].relay) /\ both.relay = StartRelay(started.relay)
    BY <1>3 DEF Run
  <2> QED
    BY <1>1, <1>3, <2>1, <2>2, StartedRelay
<1>5. ASSUME NEW row, row.status \notin Live \/ row.relay # "off", run' = [run EXCEPT ![r] = row]
      PROVE  Watching
  BY <1>1, <1>3, <1>5, OneRunWatched
<1>6. ASSUME NEW pc \in StartPC, Step(a, pc), NEW row, row.relay = "off",
             run' = run \/ run' = [run EXCEPT ![r] = row]
      PROVE  Watching
  <2>1. op'[a].pc \in StartPC /\ op'[a].run = op[a].run
    BY <1>1, <1>6, OneSteps
  <2> QED
    BY <1>1, <1>3, <1>6, <2>1, OneRunWatched
<1> HIDE DEF failed, sent, relayed, started, both
<1>7. CASE BindRun(a) \/ StartTurnReplies(a)
  <2>1. run' = run /\ \E pc \in StartPC : Step(a, pc)
    BY <1>7 DEF BindRun, StartTurnReplies, StartPC
  <2> QED
    BY <1>3, <1>6, <2>1
<1>8. CASE CallStartTurn(a)
  <2>1. (run' = run \/ run' = [run EXCEPT ![r] = sent]) /\ \E pc \in StartPC : Step(a, pc)
    BY <1>8 DEF CallStartTurn, StartPC, sent
  <2> QED
    BY <1>3, <1>4, <1>6, <2>1
<1>9. CASE RunDueScheduleFails(a)
  BY <1>3, <1>4, <1>5, <1>9 DEF RunDueScheduleFails, FinishRun, failed
<1>10. CASE CollaborationStarted(a)
  BY <1>4, <1>5, <1>10 DEF CollaborationStarted, relayed
<1>11. CASE StartLost(a)
  BY <1>1, <1>3, <1>4, <1>5, <1>11 DEF StartLost, FinishRun, failed, relayed
<1>12. CASE SetRunStarted(a)
  <2>1. \/ run' = [run EXCEPT ![r] = started] /\ Step(a, "started")
        \/ run' = [run EXCEPT ![r] = both]
    BY <1>1, <1>12 DEF SetRunStarted, started, both
  <2> QED
    BY <1>3, <1>4, <1>5, <1>6, <2>1 DEF StartPC
<1>13. CASE StartRejected(a)
  BY <1>1, <1>3, <1>4, <1>5, <1>13 DEF StartRejected, FinishRun, failed
<1>14. CASE CollaborationFailed(a)
  <2>1. run' = run /\ run[r].status \notin Live
    BY <1>14 DEF CollaborationFailed, Waiting, WatchInv, Live, RunTerminal
  <2>2. RelaysStay
    BY <2>1 DEF RelaysStay
  <2>3. StartsStay
    BY <1>1, <2>1 DEF StartsStay, OnlyMoves
  <2> QED
    BY <2>2, <2>3 DEF Watching
<1> QED
  BY <1>7, <1>8, <1>9, <1>10, <1>11, <1>12, <1>13, <1>14

\* No run changes its status or its relay, and no start ends.
LEMMA SameFieldsWatched ==
  ASSUME \A r \in RunId : run'[r].relay = run[r].relay /\ run'[r].status = run[r].status,
         \A a \in Agent : op[a].pc \in StartPC => op'[a] = op[a]
  PROVE  Watching
BY DEF Watching, RelaysStay, StartsStay

\* Messages to an active run, Stop run, stop and archive.
LEMMA StopWatched ==
  ASSUME Waiting, NEW a \in Agent,
         \/ MessageSteerReplies(a) \/ CallInterrupt(a) \/ FinishInterrupted(a)
         \/ StopInterrupt(a) \/ StopRuntime(a) \/ StopFinish(a)
  PROVE  Watching
<1> DEFINE r == op[a].run
<1>1. Ready /\ OnlyMoves(a) /\ ~op[a].gone
  BY HandMovesAlone DEF Handler, Waiting, WatchInv
<1>2. op[a].pc \notin StartPC
  BY DEF MessageSteerReplies, CallInterrupt, FinishInterrupted, StopInterrupt, StopRuntime, StopFinish, StartPC
<1>3. \A b \in Agent : op[b].pc \in StartPC => op'[b] = op[b]
  BY <1>1, <1>2 DEF OnlyMoves
<1>4. r \in RunId \cup {0} /\ 0 \notin RunId /\ run \in [RunId -> Run] /\ \A q \in RunId : run[q] \in Run
  BY <1>1, ReadyRows
<1>5. CASE MessageSteerReplies(a)
  <2>1. CASE run' = run
    BY <1>3, <2>1, RunsStayWatched
  <2>2. CASE run' # run
    <3> DEFINE row == [run[r] EXCEPT !.relay = StartRelay(run[r].relay)]
    <3>1. run' = [run EXCEPT ![r] = row] /\ r \in RunId
      BY <1>4, <1>5, <2>2 DEF MessageSteerReplies
    <3>2. row.relay # "off"
      BY <1>1, <1>4, <3>1, StartedRelay DEF Run
    <3> HIDE DEF row
    <3> QED
      BY <1>1, <1>2, <3>1, <3>2, OneRunWatched
  <2> QED
    BY <2>1, <2>2
<1>6. CASE CallInterrupt(a) \/ StopInterrupt(a)
  <2>1. PICK q : run' = run \/ run' = [run EXCEPT ![q] = [run[q] EXCEPT !.outbox = "interrupted"]]
    BY <1>6 DEF CallInterrupt, StopInterrupt, InterruptedRun
  <2>2. \A s \in RunId : run'[s].relay = run[s].relay /\ run'[s].status = run[s].status
    BY <1>4, <2>1 DEF Run
  <2> QED
    BY <1>3, <2>2, SameFieldsWatched
<1>7. CASE StopRuntime(a)
  <2>1. run' = run \/ run' = Recovered(a)
    BY <1>7 DEF StopRuntime
  <2>2. ASSUME NEW s \in RunId PROVE run'[s].relay = run[s].relay /\ run'[s].status = run[s].status
    <3>1. run'[s] = run[s] \/ run'[s] = [run[s] EXCEPT !.outbox = "unknown"]
      BY <2>1 DEF Recovered
    <3> QED
      BY <1>4, <3>1 DEF Run
  <2> QED
    BY <1>3, <2>2, SameFieldsWatched
<1>8. CASE FinishInterrupted(a) \/ StopFinish(a)
  <2>1. run' = run \/ FinishStoppedRun(a)
    BY <1>8 DEF FinishInterrupted, StopFinish
  <2>2. CASE run' = run
    BY <1>3, <2>2, RunsStayWatched
  <2>3. CASE FinishStoppedRun(a)
    <3>1. PICK relay : run' = [run EXCEPT ![r] = [run[r] EXCEPT !.relay = relay, !.status = "interrupted"]]
      BY <1>1, <2>3 DEF FinishStoppedRun
    <3>2. ASSUME NEW s \in RunId
          PROVE  run'[s] = run[s] \/ run'[s].status \notin Live
      BY <1>4, <3>1 DEF Run, Live
    <3>3. RelaysStay
      BY <3>2 DEF RelaysStay
    <3>4. StartsStay
      BY <1>3 DEF StartsStay
    <3> QED
      BY <3>3, <3>4 DEF Watching
  <2> QED
    BY <2>1, <2>2, <2>3
<1> QED
  BY <1>5, <1>6, <1>7, <1>8

\* The worker, the relays, and what concerns tasks alone.
LEMMA BackgroundWatched ==
  ASSUME Ready,
         \/ \E a \in Agent : Submission(a)
         \/ \E t \in TaskId : CollaborationCancel(t)
         \/ \E r \in RunId : Worker(r) \/ Relay(r)
         \/ ReconcileCollaborationTasks
         \/ Settled \/ UNCHANGED vars
  PROVE  Watching
<1>1. UNCHANGED op
  BY DEF Submission, CollaborationSend, EnqueueCollaborationTask, SendReturns, CollaborationCancel, Worker,
         WorkerStarts, WorkerStartFails, WorkerFinishes, Relay, RelayReads, RelayFinishes,
         ReconcileCollaborationTasks, Settled, vars
<1>2. \A r \in RunId : run[r] \in Run
  BY ReadyRows
<1>3. ASSUME NEW r \in RunId, Worker(r) PROVE Watching
  <2>1. PICK outbox : run' = [run EXCEPT ![r] = [run[r] EXCEPT !.outbox = outbox]]
    BY <1>3 DEF Worker, WorkerStarts, WorkerStartFails, WorkerFinishes
  <2>2. \A s \in RunId : run'[s].relay = run[s].relay /\ run'[s].status = run[s].status
    BY <1>2, <2>1, ReadyRows DEF Run
  <2> QED
    BY <1>1, <2>2, SameFieldsWatched
<1>4. ASSUME NEW r \in RunId, Relay(r) PROVE Watching
  <2>1. PICK row : run' = [run EXCEPT ![r] = row] /\ (row.relay # "off" \/ row.status \notin Live)
    <3>1. CASE RelayReads(r)
      <4> DEFINE row == [run[r] EXCEPT !.relay = "finishing"]
      <4>1. run' = [run EXCEPT ![r] = row] /\ row.relay # "off"
        BY <1>2, <3>1 DEF RelayReads, Run
      <4> QED
        BY <4>1
    <3>2. CASE RelayFinishes(r)
      <4> DEFINE status == IF run[r].outbox = "none" THEN "unknown" ELSE run[r].outbox
                 row == [run[r] EXCEPT !.status = status, !.relay = "off"]
      <4>1. status \notin Live
        BY <1>2, <3>2 DEF RelayFinishes, Ready, Inv, RelayInv, RelayHoldsOutcome, Run, RunTerminal, Live
      <4>2. run' = [run EXCEPT ![r] = row]
        <5>1. [run EXCEPT ![r].status = status][r] = [run[r] EXCEPT !.status = status]
          BY ReadyRows
        <5> HIDE DEF status
        <5>2. run' = [[run EXCEPT ![r].status = status] EXCEPT ![r].relay = "off"]
          BY <3>2 DEF RelayFinishes, FinishRun, status
        <5> QED
          BY <5>1, <5>2
      <4> HIDE DEF status
      <4>3. row.status = status
        BY <1>2 DEF Run
      <4> QED
        BY <4>1, <4>2, <4>3
    <3> QED
      BY <1>4, <3>1, <3>2 DEF Relay
  <2>2. ASSUME NEW s \in RunId PROVE run'[s] = run[s] \/ run'[s].relay # "off" \/ run'[s].status \notin Live
    BY <2>1, ReadyRows
  <2>3. RelaysStay
    BY <2>2 DEF RelaysStay
  <2>4. StartsStay
    BY <1>1 DEF StartsStay
  <2> QED
    BY <2>3, <2>4 DEF Watching
<1>5. CASE UNCHANGED run
  BY <1>1, <1>5, RunsStayWatched
<1> QED
  BY <1>3, <1>4, <1>5 DEF Submission, CollaborationSend, EnqueueCollaborationTask, SendReturns,
     CollaborationCancel, ReconcileCollaborationTasks, Settled, vars

\* A restart relays every run that is still active.
LEMMA RestartWatched ==
  ASSUME Ready, Restart
  PROVE  Watching
<1>1. ASSUME NEW r \in RunId PROVE run'[r].status \notin Live \/ run'[r].relay # "off"
  <2>1. run'[r] = [run[r] EXCEPT !.relay = ResumedRelay(r)] /\ run[r] \in Run
    BY ReadyRows DEF Restart
  <2> QED
    BY <2>1 DEF Run, ResumedRelay
<1>2. RelaysStay
  BY <1>1 DEF RelaysStay
<1>3. StartsStay
  BY <1>1, StartHolds DEF StartsStay
<1> QED
  BY <1>2, <1>3 DEF Watching

\* While clients wait, every step keeps the runs watched.
LEMMA StepWatched ==
  ASSUME Inv, SafeInv, WatchInv, Disconnects = FALSE, [Next]_vars
  PROVE  Watching
<1>0. Ready /\ Waiting
  BY StepKeepsInv DEF Ready, Waiting
<1>1. ASSUME NEW a \in Agent, Handler(a) PROVE Watching
  BY <1>0, <1>1, DispatchWatched, BeginWatched, StartWatched, StopWatched DEF Handler
<1>2. ASSUME NEW a \in Agent, Request(a) \/ DispatchCollaboration(a) PROVE Watching
  BY <1>0, <1>2, DispatchWatched, BeginWatched DEF Request
<1>3. ASSUME NEW a \in Agent PROVE ~ClientGone(a)
  BY <1>0 DEF Waiting, ClientGone
<1> QED
  BY <1>0, <1>1, <1>2, <1>3, BackgroundWatched, RestartWatched DEF Next

\* While clients wait, none of them leaves.
LEMMA NobodyLeaves ==
  ASSUME Waiting, [Next]_vars
  PROVE  \A a \in Agent : ~op'[a].gone
<1>1. ~Idle.gone /\ Ready /\ \A a \in Agent : ~op[a].gone
  BY DEF Idle, Waiting, WatchInv
<1>2. ASSUME NEW a \in Agent, Handler(a) \/ Request(a) \/ DispatchCollaboration(a)
      PROVE  \A b \in Agent : ~op'[b].gone
  BY <1>1, <1>2, HandMovesAlone DEF OnlyMoves, KeepsClient
<1>3. ASSUME NEW a \in Agent PROVE ~ClientGone(a)
  BY DEF Waiting, ClientGone
<1>4. CASE Restart
  BY <1>1, <1>4 DEF Restart
<1>5. CASE UNCHANGED op
  BY <1>1, <1>5
<1> QED
  BY <1>2, <1>3, <1>4, <1>5 DEF Next, Submission, CollaborationSend, EnqueueCollaborationTask, SendReturns,
     CollaborationCancel, Worker, WorkerStarts, WorkerStartFails, WorkerFinishes, Relay, RelayReads,
     RelayFinishes, ReconcileCollaborationTasks, Settled, vars

\* WatchInv is inductive while clients wait.
LEMMA WatchInvSurvives ==
  ASSUME Inv, SafeInv, WatchInv, Disconnects = FALSE, [Next]_vars
  PROVE  WatchInv'
<1>0. Ready /\ Waiting /\ Watching /\ Summary /\ RunsStep /\ HandsStep
  BY StepKeepsInv, StepWithin, StepWatched DEF Ready, Waiting, Summary
<1>1. \A a \in Agent : ~op[a].gone /\ ~op'[a].gone
  BY <1>0, NobodyLeaves DEF WatchInv
<1>2. ASSUME NEW a \in Agent, op'[a].pc = "failing" PROVE run'[op'[a].run].status \in RunTerminal
  <2>1. CASE op[a].pc = "failing" /\ op'[a].run = op[a].run
    <3>1. op[a].run \in RunId /\ run[op[a].run].status \in RunTerminal
      BY <1>0, <2>1, StartHolds DEF StartPC, WatchInv
    <3> QED
      BY <1>0, <2>1, <3>1, RunsStay
  <2>2. CASE Starts(a)
    BY <1>1, <1>2, <2>2 DEF Starts
  <2> QED
    BY <1>0, <1>2, <2>1, <2>2 DEF HandsStep, HandMoves, Stays, Idle, Opens, Loads, Claims, Steers, SteerPC,
                                  Begins, Interrupts, Stops
<1>3. ASSUME NEW r \in RunId', run'[r].status \in Live
      PROVE  \/ run'[r].relay # "off"
             \/ op'[run'[r].agent].run = r /\ op'[run'[r].agent].pc \in StartPC
  <2>1. PICK a \in Agent : a = run'[r].agent
    BY <1>0, NextTypes, ReadyRows
  <2>2. r \in ActiveRuns(a)'
    BY <1>3, <2>1 DEF ActiveRuns
  <2>3. CASE r \in ActiveRuns(a)
    <3>1. r \in RunId /\ run[r].agent = a /\ run[r].status \in Live
      BY <2>3 DEF ActiveRuns
    <3>2. CASE run[r].relay # "off"
      BY <1>0, <1>3, <3>1, <3>2 DEF Watching, RelaysStay
    <3>3. CASE op[a].run = r /\ op[a].pc \in StartPC
      BY <1>0, <1>3, <2>1, <3>1, <3>3 DEF Watching, StartsStay
    <3> QED
      BY <1>0, <3>1, <3>2, <3>3 DEF Waiting, WatchInv
  <2>4. CASE RunComes(r, a)
    BY <2>1, <2>4 DEF RunComes, StartPC
  <2> QED
    BY <1>0, <2>1, <2>2, <2>3, <2>4, NextActive, ReadyRows
<1> QED
  BY <1>1, <1>2, <1>3 DEF WatchInv

\* Every active run is watched, by its relay or by the handler that is starting it, as
\* long as clients wait for the answers of their requests: a client that leaves while its
\* message is starting a turn makes the server lose track of the run.
THEOREM ActiveRunsWatched ==
  ASSUME Disconnects = FALSE
  PROVE  Spec => []ActiveRunIsWatched
<1>1. Init => WatchInv
  <2> SUFFICES ASSUME Init PROVE WatchInv
    OBVIOUS
  <2>1. RunId = {} /\ \A a \in Agent : op[a] = Idle
    BY DEF Init, RunId
  <2> QED
    BY <2>1 DEF WatchInv, Idle
<1>2. Inv /\ SafeInv /\ WatchInv /\ [Next]_vars => WatchInv'
  BY WatchInvSurvives
<1>3. WatchInv => ActiveRunIsWatched
  BY DEF WatchInv, ActiveRunIsWatched
<1> QED
  BY <1>1, <1>2, <1>3, Safety, PTL DEF Spec
=============================================================================
