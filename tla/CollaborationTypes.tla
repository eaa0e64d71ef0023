------------------------- MODULE CollaborationTypes -------------------------
(***************************************************************************)
(* Every step of Collaboration keeps TypeOK: rows have the values of their *)
(* columns and refer to rows that exist.  First the tables under an UPDATE *)
(* or an INSERT, then the handlers, then one lemma per group of actions.   *)
(***************************************************************************)
EXTENDS CollaborationInv, FiniteSetTheorems, SequenceTheorems, TLAPS

\* A function on 1..n is a sequence of length n.
LEMMA FunctionIsSequence ==
  ASSUME NEW S, NEW n \in Nat, NEW f \in [1..n -> S]
  PROVE  f \in Seq(S) /\ Len(f) = n /\ DOMAIN f = 1..n
<1>1. f \in Seq(S)
  BY SeqDef
<1> QED
  BY <1>1, LenProperties

\* The two tables as functions on their row numbers.
LEMMA Tables ==
  ASSUME TasksTyped, RunsTyped
  PROVE  /\ Len(task) \in Nat /\ TaskId = 1..Len(task) /\ task \in [TaskId -> Task]
         /\ Len(run) \in Nat /\ RunId = 1..Len(run) /\ run \in [RunId -> Run]
BY LenProperties DEF TasksTyped, RunsTyped, TaskId, RunId

\* References of a row to a table of n tasks and one of m runs.
Refers(row, n, m) ==
  /\ row.run \in 0..m /\ row.senderRun \in 0..m
  /\ row.completionTask \in 0..n /\ row.notificationFor \in 0..n

\* An UPDATE of task rows keeps the table typed when every new row is typed
\* and refers to rows that exist.
LEMMA TasksRewritten ==
  ASSUME TasksTyped, RunsTyped, Len(run') \in Nat, Len(run') >= Len(run),
         task' \in [TaskId -> Task],
         \A t \in TaskId : Refers(task'[t], Len(task), Len(run'))
  PROVE  TasksTyped' /\ Len(task') = Len(task) /\ TaskId' = TaskId
<1>1. task' \in Seq(Task) /\ Len(task') = Len(task) /\ DOMAIN task' = TaskId
  BY Tables, FunctionIsSequence
<1> QED
  BY <1>1 DEF TasksTyped, TaskId, Refers

\* An UPDATE of run rows keeps the table typed when no run changes its task.
LEMMA RunsRewritten ==
  ASSUME TasksTyped, RunsTyped, Len(task') \in Nat, Len(task') >= Len(task),
         run' \in [RunId -> Run],
         \A r \in RunId : run'[r].task = run[r].task
  PROVE  RunsTyped' /\ Len(run') = Len(run) /\ RunId' = RunId
<1>1. run' \in Seq(Run) /\ Len(run') = Len(run) /\ DOMAIN run' = RunId
  BY Tables, FunctionIsSequence
<1>2. \A r \in RunId : run[r].task \in 0..Len(task)
  BY DEF RunsTyped
<1>3. \A r \in RunId : run'[r].task \in 0..Len(task')
  BY <1>2, Tables
<1> QED
  BY <1>1, <1>3 DEF RunsTyped, RunId

\* An INSERT of one task, together with an UPDATE of the others, keeps the
\* table typed and adds one row number.
LEMMA TaskAppended ==
  ASSUME TasksTyped, RunsTyped, Len(run') = Len(run),
         NEW rows \in [TaskId -> Task], NEW new \in Task,
         task' = Append(rows, new),
         \A t \in TaskId : Refers(rows[t], Len(task) + 1, Len(run)),
         Refers(new, Len(task) + 1, Len(run))
  PROVE  TasksTyped' /\ Len(task') = Len(task) + 1 /\ TaskId' = TaskId \cup {Len(task) + 1}
<1>1. rows \in Seq(Task) /\ Len(rows) = Len(task)
  BY Tables, FunctionIsSequence
<1>2. /\ task' \in Seq(Task) /\ Len(task') = Len(task) + 1
      /\ \A t \in 1..Len(task) : task'[t] = rows[t]
      /\ task'[Len(task) + 1] = new
  BY <1>1, AppendProperties
<1>3. TaskId' = 1..(Len(task) + 1) /\ TaskId = 1..Len(task) /\ Len(task) \in Nat
  BY <1>2, Tables, LenProperties DEF TaskId
<1>4. \A t \in TaskId' : Refers(task'[t], Len(task) + 1, Len(run))
  BY <1>2, <1>3
<1> QED
  BY <1>2, <1>3, <1>4 DEF TasksTyped, Refers

\* An INSERT of one run keeps the table typed and adds one row number.
LEMMA RunAppended ==
  ASSUME TasksTyped, RunsTyped, Len(task') = Len(task),
         NEW new \in Run, new.task \in 0..Len(task),
         run' = Append(run, new)
  PROVE  RunsTyped' /\ Len(run') = Len(run) + 1 /\ RunId' = RunId \cup {Len(run) + 1}
<1>1. /\ run' \in Seq(Run) /\ Len(run') = Len(run) + 1
      /\ \A t \in 1..Len(run) : run'[t] = run[t]
      /\ run'[Len(run) + 1] = new
  BY AppendProperties DEF RunsTyped
<1>2. RunId' = 1..(Len(run) + 1) /\ RunId = 1..Len(run) /\ Len(run) \in Nat
  BY <1>1, Tables, LenProperties DEF RunId
<1>3. \A r \in RunId' : run'[r].task \in 0..Len(task')
  BY <1>1, <1>2 DEF RunsTyped
<1> QED
  BY <1>1, <1>2, <1>3 DEF RunsTyped

\* Handlers keep their types when one of them moves and the tables do not shrink.
LEMMA HandlerMoves ==
  ASSUME TypeOK, NEW a \in Agent, NEW h \in Operation, op' = [op EXCEPT ![a] = h],
         seen' = seen,
         Len(task') \in Nat, Len(task') >= Len(task), Len(run') \in Nat, Len(run') >= Len(run),
         h.task \in 0..Len(task'), h.run \in 0..Len(run')
  PROVE  HandlersTyped'
<1>1. op' \in [Agent -> Operation]
  BY DEF TypeOK, HandlersTyped
<1>2. \A b \in Agent : op'[b].task \in 0..Len(task') /\ op'[b].run \in 0..Len(run')
  <2> TAKE b \in Agent
  <2>1. op[b].task \in 0..Len(task) /\ op[b].run \in 0..Len(run)
    BY DEF TypeOK, HandlersTyped
  <2>2. op'[b] = IF b = a THEN h ELSE op[b]
    BY DEF TypeOK, HandlersTyped
  <2> QED
    BY <2>1, <2>2, Tables DEF TypeOK
<1>3. seen' \in [Agent -> -1..Len(run')]
  BY Tables DEF TypeOK, HandlersTyped
<1> QED
  BY <1>1, <1>2, <1>3 DEF HandlersTyped

\* What the step lemmas assume of the tables.
TablesGrow == /\ Len(task') \in Nat /\ Len(task') >= Len(task)
              /\ Len(run') \in Nat /\ Len(run') >= Len(run)

\* Handlers keep their types when one of them goes on to another pc.
LEMMA StepMoves ==
  ASSUME TypeOK, NEW a \in Agent, NEW pc \in PC, Step(a, pc), seen' = seen, TablesGrow
  PROVE  HandlersTyped'
<1> DEFINE h == [op[a] EXCEPT !.pc = pc]
<1>1. op[a] \in Operation /\ op[a].task \in 0..Len(task) /\ op[a].run \in 0..Len(run)
  BY DEF TypeOK, HandlersTyped
<1>2. h \in Operation /\ h.task = op[a].task /\ h.run = op[a].run
  BY <1>1 DEF Operation
<1>3. op' = [op EXCEPT ![a] = h]
  BY DEF Step
<1>4. h.task \in 0..Len(task') /\ h.run \in 0..Len(run')
  BY <1>1, <1>2, Tables DEF TypeOK, TablesGrow
<1> HIDE DEF h
<1> QED
  BY <1>2, <1>3, <1>4, HandlerMoves DEF TablesGrow

\* Handlers keep their types when one of them releases its lock.
LEMMA ReturnMoves ==
  ASSUME TypeOK, NEW a \in Agent, Return(a), seen' = seen, TablesGrow
  PROVE  HandlersTyped'
<1>1. Idle \in Operation /\ Idle.task = 0 /\ Idle.run = 0
  BY DEF Idle, Operation, PC
<1>2. op' = [op EXCEPT ![a] = Idle]
  BY DEF Return
<1>3. 0 \in 0..Len(task') /\ 0 \in 0..Len(run')
  BY DEF TablesGrow
<1> QED
  BY <1>1, <1>2, <1>3, HandlerMoves DEF TablesGrow

\* GetActiveRun finds an active run of the agent, or none.
LEMMA ActiveRunType ==
  ASSUME NEW a \in Agent
  PROVE  ActiveRun(a) = 0 \/ (ActiveRun(a) \in RunId /\ run[ActiveRun(a)].agent = a /\ run[ActiveRun(a)].status \in Live)
BY DEF ActiveRun, ActiveRuns

\* SetCollaborationTaskState keeps the task table typed.
LEMMA SetTaskStateTyped ==
  ASSUME TasksTyped, RunsTyped, NEW t \in Nat, NEW status \in Pending \cup Terminal,
         NEW r \in 0..Len(run), task' = SetTaskState(t, status, r),
         Len(run') \in Nat, Len(run') >= Len(run)
  PROVE  TasksTyped' /\ Len(task') = Len(task) /\ TaskId' = TaskId
<1> DEFINE fallback == task[t].steerFallback \/ (status = "queued" /\ task[t].mode = "steer")
           confirmed == IF status = "running" THEN TRUE
                        ELSE IF status = "queued" THEN FALSE ELSE task[t].deliveryConfirmed
           row == [task[t] EXCEPT !.status = status, !.run = r,
                     !.steerFallback = fallback, !.deliveryConfirmed = confirmed]
<1>0. /\ Len(task) \in Nat /\ TaskId = 1..Len(task) /\ task \in [TaskId -> Task]
      /\ Len(run) \in Nat /\ \A u \in TaskId : Refers(task[u], Len(task), Len(run))
  BY Tables DEF TasksTyped, Refers
<1>1. ASSUME t \in TaskId PROVE row \in Task /\ Refers(row, Len(task), Len(run))
  <2>1. task[t] \in Task /\ Refers(task[t], Len(task), Len(run)) /\ r \in Nat
    BY <1>0, <1>1
  <2>2. task[t].deliveryConfirmed \in BOOLEAN
    BY <2>1 DEF Task
  <2>3. fallback \in BOOLEAN /\ confirmed \in BOOLEAN
    BY <2>2, Zenon
  <2> HIDE DEF fallback, confirmed
  <2> QED
    BY <2>1, <2>3 DEF Task, Refers
<1>2. task' = task \/ task' = [task EXCEPT ![t] = row]
  BY DEF SetTaskState
<1> HIDE DEF row
<1>3. /\ task' \in [TaskId -> Task]
      /\ \A u \in TaskId : Refers(task'[u], Len(task), Len(run))
  <2>1. CASE t \in TaskId
    BY <1>0, <1>1, <1>2, <2>1
  <2>2. CASE t \notin TaskId
    BY <1>0, <1>2, <2>2
  <2> QED
    BY <2>1, <2>2
<1>4. \A u \in TaskId : Refers(task'[u], Len(task), Len(run'))
  BY <1>0, <1>3 DEF Refers
<1> QED
  BY <1>3, <1>4, TasksRewritten

\* An UPDATE of one task row keeps the task table typed.
LEMMA TaskRowRewritten ==
  ASSUME TasksTyped, RunsTyped, NEW t, NEW row, task' = [task EXCEPT ![t] = row],
         t \in TaskId => row \in Task /\ Refers(row, Len(task), Len(run)),
         Len(run') \in Nat, Len(run') >= Len(run)
  PROVE  TasksTyped' /\ Len(task') = Len(task) /\ TaskId' = TaskId
<1>0. /\ Len(task) \in Nat /\ TaskId = 1..Len(task) /\ task \in [TaskId -> Task]
      /\ Len(run) \in Nat /\ \A u \in TaskId : Refers(task[u], Len(task), Len(run))
  BY Tables DEF TasksTyped, Refers
<1>1. /\ task' \in [TaskId -> Task]
      /\ \A u \in TaskId : Refers(task'[u], Len(task), Len(run))
  <2>1. CASE t \in TaskId
    BY <1>0, <2>1
  <2>2. CASE t \notin TaskId
    BY <1>0, <2>2
  <2> QED
    BY <2>1, <2>2
<1>2. \A u \in TaskId : Refers(task'[u], Len(task), Len(run'))
  BY <1>0, <1>1, SMTT(30) DEF Refers
<1> QED
  BY <1>1, <1>2, TasksRewritten

\* An UPDATE of one run row keeps the run table typed.
LEMMA RunRowRewritten ==
  ASSUME TasksTyped, RunsTyped, NEW r, NEW row, run' = [run EXCEPT ![r] = row],
         r \in RunId => row \in Run /\ row.task = run[r].task,
         Len(task') \in Nat, Len(task') >= Len(task)
  PROVE  RunsTyped' /\ Len(run') = Len(run) /\ RunId' = RunId
<1>1. run' \in [RunId -> Run] /\ \A s \in RunId : run'[s].task = run[s].task
  <2>1. CASE r \in RunId
    BY Tables, <2>1
  <2>2. CASE r \notin RunId
    BY Tables, <2>2
  <2> QED
    BY <2>1, <2>2
<1> QED
  BY <1>1, RunsRewritten

\* Cancelling any set of tasks.
Cancelled(S) ==
  [t \in TaskId |-> IF t \in S THEN [task[t] EXCEPT !.status = "cancelled"] ELSE task[t]]

\* Cancelling a set of tasks keeps the task table typed.
LEMMA CancelledTyped ==
  ASSUME TasksTyped, RunsTyped, NEW S, task' = Cancelled(S),
         Len(run') \in Nat, Len(run') >= Len(run)
  PROVE  TasksTyped' /\ Len(task') = Len(task) /\ TaskId' = TaskId
<1>0. /\ Len(task) \in Nat /\ TaskId = 1..Len(task) /\ task \in [TaskId -> Task]
      /\ Len(run) \in Nat /\ \A u \in TaskId : Refers(task[u], Len(task), Len(run))
  BY Tables DEF TasksTyped, Refers
<1>1. ASSUME NEW t \in TaskId
      PROVE  task'[t] \in Task /\ Refers(task'[t], Len(task), Len(run'))
  <2>1. task[t] \in Task /\ Refers(task[t], Len(task), Len(run))
    BY <1>0
  <2>2. task'[t] = task[t] \/ task'[t] = [task[t] EXCEPT !.status = "cancelled"]
    BY DEF Cancelled
  <2>3. [task[t] EXCEPT !.status = "cancelled"] \in Task
    BY <2>1 DEF Task, Pending, Terminal
  <2> QED
    BY <1>0, <2>1, <2>2, <2>3, SMTT(30) DEF Task, Refers
<1>2. task' \in [TaskId -> Task]
  <2>1. DOMAIN task' = TaskId /\ task' = [t \in TaskId |-> task'[t]]
    BY DEF Cancelled
  <2> QED
    BY <1>1, <2>1
<1> QED
  BY <1>1, <1>2, TasksRewritten

\* The rows that reconciliation writes are typed and refer to existing rows.
LEMMA ReconciledTyped ==
  ASSUME TasksTyped, RunsTyped
  PROVE  /\ Reconciled \in [TaskId -> Task]
         /\ \A t \in TaskId : Refers(Reconciled[t], Len(task), Len(run))
<1>0. /\ Len(task) \in Nat /\ TaskId = 1..Len(task) /\ task \in [TaskId -> Task]
      /\ Len(run) \in Nat /\ \A u \in TaskId : Refers(task[u], Len(task), Len(run))
  BY Tables DEF TasksTyped, Refers
<1>1. ASSUME NEW t \in TaskId
      PROVE  Reconciled[t] \in Task /\ Refers(Reconciled[t], Len(task), Len(run))
  <2>1. task[t] \in Task /\ Refers(task[t], Len(task), Len(run))
    BY <1>0
  <2>2. CASE Reconcilable(t)
    <3> DEFINE status == run[task[t].run].status
               confirmed == task[t].deliveryConfirmed \/ status # "unknown"
    <3>1. status \in Pending \cup Terminal /\ confirmed \in BOOLEAN
      BY <2>2 DEF Reconcilable, Terminal
    <3>2. Reconciled[t] = [task[t] EXCEPT !.status = status, !.deliveryConfirmed = confirmed]
      BY <2>2 DEF Reconciled
    <3> HIDE DEF status, confirmed
    <3>3. [task[t] EXCEPT !.status = status, !.deliveryConfirmed = confirmed] \in Task
      BY <2>1, <3>1, Zenon DEF Task
    <3>4. Refers(Reconciled[t], Len(task), Len(run))
      BY <2>1, <3>2 DEF Task, Refers
    <3> QED
      BY <3>2, <3>3, <3>4
  <2>3. CASE ~Reconcilable(t)
    BY <2>1, <2>3 DEF Reconciled
  <2> QED
    BY <2>2, <2>3
<1> QED
  BY <1>1 DEF Reconciled

\* A completion receipt is a typed row that refers to existing rows.
LEMMA ReceiptTyped ==
  ASSUME TasksTyped, RunsTyped, NEW t \in TaskId, NEW status \in {"queued", "cancelled"}
  PROVE  /\ CompletionReceipt(t, status) \in Task
         /\ \A n \in Nat : n >= Len(task) => Refers(CompletionReceipt(t, status), n, Len(run))
<1>1. task[t] \in Task /\ task[t].run \in 0..Len(run) /\ t \in 1..Len(task)
      /\ Len(task) \in Nat /\ Len(run) \in Nat
  BY Tables DEF TasksTyped
<1> QED
  BY <1>1 DEF CompletionReceipt, Task, Refers, Pending, Terminal

\* Inserting a receipt and linking it keeps the task table typed.
LEMMA WithCompletionTyped ==
  ASSUME TasksTyped, RunsTyped, NEW t \in TaskId, NEW status \in {"queued", "cancelled"},
         task' = WithCompletion(t, status), Len(run') = Len(run)
  PROVE  TasksTyped' /\ Len(task') = Len(task) + 1 /\ TaskId' = TaskId \cup {Len(task) + 1}
<1>0. /\ Len(task) \in Nat /\ TaskId = 1..Len(task) /\ task \in [TaskId -> Task]
      /\ Len(run) \in Nat /\ \A u \in TaskId : Refers(task[u], Len(task), Len(run))
  BY Tables DEF TasksTyped, Refers
<1> DEFINE row == [task[t] EXCEPT !.completionTask = Len(task) + 1]
           rows == [task EXCEPT ![t] = row]
           new == CompletionReceipt(t, status)
<1>1. row \in Task /\ Refers(row, Len(task) + 1, Len(run))
  <2>1. task[t] \in Task /\ Refers(task[t], Len(task), Len(run))
    BY <1>0
  <2>2. PICK n \in Nat : n = Len(task) + 1
    BY <1>0
  <2>3. [task[t] EXCEPT !.completionTask = n] \in Task
    BY <2>1 DEF Task
  <2>4. Refers([task[t] EXCEPT !.completionTask = n], n, Len(run))
    BY <1>0, <2>1, <2>2 DEF Task, Refers
  <2> QED
    BY <2>2, <2>3, <2>4
<1>2. new \in Task /\ Refers(new, Len(task) + 1, Len(run))
  BY <1>0, ReceiptTyped
<1>3. task' = Append(rows, new)
  BY DEF WithCompletion
<1> HIDE DEF row, new
<1>4. rows \in [TaskId -> Task]
  BY <1>0, <1>1
<1>5. \A u \in TaskId : Refers(rows[u], Len(task) + 1, Len(run))
  <2>1. \A u \in TaskId : Refers(task[u], Len(task) + 1, Len(run))
    BY <1>0 DEF Refers
  <2> QED
    BY <1>0, <1>1, <2>1
<1> HIDE DEF rows
<1> QED
  BY <1>2, <1>3, <1>4, <1>5, TaskAppended

\* A listing of a set of tasks is a sequence of its members.
LEMMA ListingType ==
  ASSUME TasksTyped, RunsTyped, NEW S \in SUBSET TaskId, NEW order \in Listings(S)
  PROVE  /\ Cardinality(S) \in Nat
         /\ order \in [1..Cardinality(S) -> S]
<1>1. IsFiniteSet(TaskId)
  BY Tables, FS_Interval
<1> QED
  BY <1>1, FS_Subset, FS_CardinalityType DEF Listings

\* Suppression keeps the task table typed, appends one receipt per task that
\* could still call back, and changes a status only from queued to cancelled.
LEMMA SuppressedTyped ==
  ASSUME TasksTyped, RunsTyped, NEW a \in Agent, NEW order \in Listings(Uncompleted(a)),
         task' = Suppressed(a, order), Len(run') = Len(run)
  PROVE  /\ TasksTyped' /\ Len(task') >= Len(task)
         /\ Len(task') = Len(task) + Cardinality(Uncompleted(a))
         /\ \A t \in TaskId :
              /\ t \in TaskId' /\ task'[t].target = task[t].target
              /\ \/ task'[t].status = task[t].status
                 \/ task[t].status = "queued" /\ task'[t].status = "cancelled"
<1> DEFINE n == Cardinality(Uncompleted(a))
           At(t) == CHOOSE i \in DOMAIN order : order[i] = t
           first == [t \in TaskId |->
                       IF \E i \in DOMAIN order : order[i] = t
                       THEN [task[t] EXCEPT !.completionTask = Len(task) + At(t)]
                       ELSE IF t \in Queued(a) /\ task[t].notificationFor # 0
                       THEN [task[t] EXCEPT !.status = "cancelled"]
                       ELSE task[t]]
           second == [i \in DOMAIN order |-> CompletionReceipt(order[i], "cancelled")]
<1>0. /\ Len(task) \in Nat /\ TaskId = 1..Len(task) /\ task \in [TaskId -> Task]
      /\ Len(run) \in Nat /\ \A u \in TaskId : Refers(task[u], Len(task), Len(run))
  BY Tables DEF TasksTyped, Refers
<1>1. Uncompleted(a) \subseteq TaskId
  BY DEF Uncompleted
<1>2. n \in Nat /\ order \in [1..n -> Uncompleted(a)] /\ DOMAIN order = 1..n
  BY <1>1, ListingType
<1>3. ASSUME NEW t \in TaskId
      PROVE  first[t] \in Task /\ Refers(first[t], Len(task) + n, Len(run))
  <2>1. task[t] \in Task /\ Refers(task[t], Len(task) + n, Len(run))
    BY <1>0, <1>2 DEF Refers
  <2>2. CASE \E i \in DOMAIN order : order[i] = t
    <3>1. At(t) \in DOMAIN order
      BY <2>2, Zenon
    <3> HIDE DEF At, n
    <3>2. PICK c \in Nat : c = Len(task) + At(t) /\ c <= Len(task) + n
      BY <1>0, <1>2, <3>1
    <3>3. first[t] = [task[t] EXCEPT !.completionTask = c]
      BY <2>2, <3>2
    <3> HIDE DEF first
    <3>4. [task[t] EXCEPT !.completionTask = c] \in Task
      BY <2>1 DEF Task
    <3>5. Refers([task[t] EXCEPT !.completionTask = c], Len(task) + n, Len(run))
      BY <1>0, <1>2, <2>1, <3>2 DEF Task, Refers
    <3> QED
      BY <3>3, <3>4, <3>5
  <2>3. CASE ~ \E i \in DOMAIN order : order[i] = t
    <3>1. first[t] = task[t] \/ first[t] = [task[t] EXCEPT !.status = "cancelled"]
      BY <2>3
    <3> HIDE DEF first
    <3>2. [task[t] EXCEPT !.status = "cancelled"] \in Task
      BY <2>1 DEF Task, Pending, Terminal
    <3>3. Refers([task[t] EXCEPT !.status = "cancelled"], Len(task) + n, Len(run))
      BY <2>1 DEF Task, Refers
    <3> QED
      BY <2>1, <3>1, <3>2, <3>3
  <2> QED
    BY <2>2, <2>3
<1>13. ASSUME NEW t \in TaskId
       PROVE  /\ first[t].target = task[t].target
              /\ \/ first[t].status = task[t].status
                 \/ task[t].status = "queued" /\ first[t].status = "cancelled"
  <2>1. task[t] \in Task
    BY <1>0
  <2>2. CASE \E i \in DOMAIN order : order[i] = t
    <3>1. PICK c : first[t] = [task[t] EXCEPT !.completionTask = c]
      BY <2>2
    <3> QED
      BY <2>1, <3>1 DEF Task
  <2>3. CASE t \in Queued(a) /\ ~ \E i \in DOMAIN order : order[i] = t
    <3>1. first[t] = task[t] \/ first[t] = [task[t] EXCEPT !.status = "cancelled"]
      BY <2>3
    <3>2. task[t].status = "queued"
      BY <2>3 DEF Queued
    <3> HIDE DEF first
    <3> QED
      BY <2>1, <3>1, <3>2 DEF Task
  <2>4. CASE t \notin Queued(a) /\ ~ \E i \in DOMAIN order : order[i] = t
    BY <2>4
  <2> QED
    BY <2>2, <2>3, <2>4
<1>4. ASSUME NEW i \in 1..n
      PROVE  second[i] \in Task /\ Refers(second[i], Len(task) + n, Len(run))
  <2>1. second[i] = CompletionReceipt(order[i], "cancelled") /\ order[i] \in TaskId
    BY <1>1, <1>2
  <2>2. Len(task) + n \in Nat /\ Len(task) + n >= Len(task)
    BY <1>0, <1>2
  <2> HIDE DEF second, n
  <2> QED
    BY <2>1, <2>2, ReceiptTyped
<1>5. task' = first \o second
  BY DEF Suppressed
<1>6. first \in Seq(Task) /\ Len(first) = Len(task)
  <2>1. first \in [1..Len(task) -> Task]
    BY <1>0, <1>3
  <2> HIDE DEF first
  <2> QED
    BY <1>0, <2>1, FunctionIsSequence
<1>7. second \in Seq(Task) /\ Len(second) = n
  <2>1. second \in [1..n -> Task]
    BY <1>2, <1>4
  <2> HIDE DEF second, n
  <2> QED
    BY <1>2, <2>1, FunctionIsSequence
<1> HIDE DEF first, second, n
<1>8. /\ task' \in Seq(Task) /\ Len(task') = Len(task) + n
      /\ \A t \in 1..(Len(task) + n) : task'[t] = IF t <= Len(task) THEN first[t] ELSE second[t - Len(task)]
  <2>1. /\ first \o second \in Seq(Task)
        /\ Len(first \o second) = Len(first) + Len(second)
        /\ \A t \in 1..(Len(first) + Len(second)) : (first \o second)[t] =
             IF t <= Len(first) THEN first[t] ELSE second[t - Len(first)]
    BY <1>6, <1>7, ConcatProperties, Zenon
  <2> QED
    BY <1>5, <1>6, <1>7, <2>1
<1>9. \A t \in 1..(Len(task) + n) : Refers(task'[t], Len(task) + n, Len(run))
  <2> TAKE t \in 1..(Len(task) + n)
  <2>1. CASE t <= Len(task)
    <3>1. t \in TaskId /\ task'[t] = first[t]
      BY <1>0, <1>2, <1>8, <2>1
    <3> QED
      BY <1>3, <3>1
  <2>2. CASE t > Len(task)
    <3>1. t - Len(task) \in 1..n /\ task'[t] = second[t - Len(task)]
      BY <1>0, <1>2, <1>8, <2>2
    <3> QED
      BY <1>4, <3>1
  <2> QED
    BY <1>0, <1>2, <2>1, <2>2
<1>10. TaskId' = 1..(Len(task) + n)
  BY <1>8, LenProperties DEF TaskId
<1>11. TasksTyped'
  BY <1>8, <1>9, <1>10 DEF TasksTyped, Refers
<1>12. Len(task') >= Len(task)
  BY <1>0, <1>2, <1>8
<1>14. \A t \in TaskId : t \in TaskId' /\ task'[t] = first[t]
  BY <1>0, <1>2, <1>8, <1>10
<1> QED
  BY <1>8, <1>11, <1>12, <1>13, <1>14 DEF n

\* The tables keep their types and lose no row.
Grows == TasksTyped' /\ RunsTyped' /\ TablesGrow

\* Steps that leave both tables alone keep them typed.
LEMMA TablesUnchanged ==
  ASSUME TypeOK, UNCHANGED <<task, run>>
  PROVE  Grows
BY Tables DEF TypeOK, TasksTyped, RunsTyped, TaskId, RunId, Grows, TablesGrow

\* Steps that leave the runs alone keep both tables typed.
LEMMA OnlyTasks ==
  ASSUME TypeOK, UNCHANGED run, TasksTyped', Len(task') >= Len(task)
  PROVE  Grows
<1>1. Len(task') \in Nat /\ Len(run) \in Nat /\ Len(task) \in Nat
  BY Tables, LenProperties DEF TypeOK, TasksTyped
<1>2. RunsTyped'
  BY <1>1, Tables DEF TypeOK, RunsTyped, RunId
<1> QED
  BY <1>1, <1>2 DEF Grows, TablesGrow

\* Steps that leave the tasks alone keep both tables typed.
LEMMA OnlyRuns ==
  ASSUME TypeOK, UNCHANGED task, RunsTyped', Len(run') >= Len(run)
  PROVE  Grows
<1>1. Len(run') \in Nat /\ Len(run) \in Nat /\ Len(task) \in Nat
  BY Tables, LenProperties DEF TypeOK, RunsTyped
<1>2. TasksTyped'
  BY <1>1, Tables DEF TypeOK, TasksTyped, TaskId
<1> QED
  BY <1>1, <1>2 DEF Grows, TablesGrow

\* An UPDATE of one run keeps both tables typed.
LEMMA RunFieldsWritten ==
  ASSUME TypeOK, UNCHANGED task, NEW r, NEW row, run' = [run EXCEPT ![r] = row],
         r \in RunId => row \in Run /\ row.task = run[r].task
  PROVE  Grows
<1>1. TasksTyped /\ RunsTyped /\ Len(task') \in Nat /\ Len(task') >= Len(task) /\ Len(run) \in Nat
  BY Tables DEF TypeOK
<1>2. RunsTyped' /\ Len(run') = Len(run)
  BY <1>1, RunRowRewritten
<1> QED
  BY <1>1, <1>2, OnlyRuns

\* A run row keeps its type and its task whichever of its status, turn, outbox
\* and relay a step writes.
LEMMA RunFields ==
  ASSUME NEW row \in Run, NEW status \in Live \cup RunTerminal, NEW turn \in BOOLEAN,
         NEW outbox \in {"none", "starting", "live"} \cup RunTerminal,
         NEW relay \in {"off", "polling", "finishing"}
  PROVE  /\ [row EXCEPT !.status = status] \in Run
         /\ [row EXCEPT !.outbox = outbox] \in Run
         /\ [row EXCEPT !.relay = relay] \in Run
         /\ [row EXCEPT !.status = status, !.turn = turn] \in Run
         /\ [row EXCEPT !.status = status, !.turn = turn, !.relay = relay] \in Run
         /\ [row EXCEPT !.relay = relay, !.status = status] \in Run
         /\ [row EXCEPT !.status = status, !.relay = relay] \in Run
         /\ [row EXCEPT !.status = status].task = row.task
         /\ [row EXCEPT !.outbox = outbox].task = row.task
         /\ [row EXCEPT !.relay = relay].task = row.task
         /\ [row EXCEPT !.status = status, !.turn = turn].task = row.task
         /\ [row EXCEPT !.status = status, !.turn = turn, !.relay = relay].task = row.task
         /\ [row EXCEPT !.relay = relay, !.status = status].task = row.task
         /\ [row EXCEPT !.status = status, !.relay = relay].task = row.task
BY ZenonT(60) DEF Run

\* TypeOK of the next state from its parts.
LEMMA TypeOKFrom ==
  ASSUME TypeOK, Grows, HandlersTyped',
         UNCHANGED <<conv, archived, silenced, crashes>>,
         inputs' \subseteq [task: Nat, run: Nat, how: {"start", "steer"}]
  PROVE  TypeOK'
BY DEF TypeOK, Grows

\* The fields of a handler have the types of Operation and refer to existing rows.
LEMMA HandlerType ==
  ASSUME TypeOK, NEW a \in Agent
  PROVE  /\ op[a] \in Operation /\ op[a].task \in 0..Len(task) /\ op[a].run \in 0..Len(run)
         /\ op[a].task \in Nat /\ op[a].run \in Nat /\ op[a].pc \in PC /\ op[a].gone \in BOOLEAN
         /\ op[a].task \in TaskId \cup {0} /\ op[a].run \in RunId \cup {0}
<1>1. op[a] \in Operation /\ op[a].task \in 0..Len(task) /\ op[a].run \in 0..Len(run)
  BY DEF TypeOK, HandlersTyped
<1>2. Len(task) \in Nat /\ Len(run) \in Nat /\ TaskId = 1..Len(task) /\ RunId = 1..Len(run)
  BY Tables DEF TypeOK
<1> QED
  BY <1>1, <1>2 DEF Operation

\* Accepting a task keeps TypeOK.
LEMMA SubmissionTyped ==
  ASSUME TypeOK, NEW a \in Agent, Submission(a)
  PROVE  TypeOK'
<1>1. CASE CollaborationSend(a)
  <2>1. Grows
    BY <1>1, TablesUnchanged DEF CollaborationSend
  <2>2. ActiveRun(a) \in -1..Len(run)
    BY ActiveRunType, Tables DEF TypeOK
  <2>3. HandlersTyped'
    BY <1>1, <2>2 DEF CollaborationSend, TypeOK, HandlersTyped
  <2> QED
    BY <1>1, <2>1, <2>3, TypeOKFrom DEF CollaborationSend, TypeOK
<1>2. CASE EnqueueCollaborationTask(a)
  <2>1. PICK target \in Agent \ {a}, key \in Key, mode \in Mode, completionMode \in CompletionMode :
          task' = Append(task,
            [sender |-> a, senderRun |-> seen[a], target |-> target, key |-> key,
             mode |-> mode, completionMode |-> completionMode,
             completionTask |-> 0, notificationFor |-> 0,
             steerFallback |-> FALSE, deliveryConfirmed |-> FALSE,
             status |-> "queued", run |-> 0])
    BY <1>2 DEF EnqueueCollaborationTask
  <2> DEFINE new == [sender |-> a, senderRun |-> seen[a], target |-> target, key |-> key,
                     mode |-> mode, completionMode |-> completionMode,
                     completionTask |-> 0, notificationFor |-> 0,
                     steerFallback |-> FALSE, deliveryConfirmed |-> FALSE,
                     status |-> "queued", run |-> 0]
  <2>2. seen[a] \in 0..Len(run) /\ Len(run) \in Nat /\ Len(task) \in Nat
    BY <1>2, Tables DEF EnqueueCollaborationTask, TypeOK, HandlersTyped
  <2>3. new \in Task /\ Refers(new, Len(task) + 1, Len(run))
    BY <2>2, ConstantsAssumption DEF Task, Refers, Pending
  <2>4. /\ task \in [TaskId -> Task]
        /\ \A t \in TaskId : Refers(task[t], Len(task) + 1, Len(run))
    BY <2>2, Tables DEF TypeOK, TasksTyped, Refers
  <2>5. task' = Append(task, new) /\ UNCHANGED run
    BY <1>2, <2>1 DEF EnqueueCollaborationTask
  <2> HIDE DEF new
  <2>6. TasksTyped' /\ Len(task') = Len(task) + 1
    BY <2>3, <2>4, <2>5, TaskAppended DEF TypeOK
  <2>7. Grows
    BY <2>2, <2>5, <2>6, OnlyTasks
  <2>8. HandlersTyped'
    <3>1. Len(task') >= Len(task) /\ Len(task') \in Nat /\ Len(run') = Len(run)
      BY <2>2, <2>5, <2>6
    <3>2. op' = op /\ seen' = [seen EXCEPT ![a] = -1]
      BY <1>2 DEF EnqueueCollaborationTask
    <3> QED
      BY <2>2, <3>1, <3>2 DEF TypeOK, HandlersTyped
  <2> QED
    BY <1>2, <2>7, <2>8, TypeOKFrom DEF EnqueueCollaborationTask, TypeOK
<1>3. CASE SendReturns(a)
  <2>1. Grows
    BY <1>3, TablesUnchanged DEF SendReturns
  <2>2. HandlersTyped'
    BY <1>3, Tables DEF SendReturns, TypeOK, HandlersTyped
  <2> QED
    BY <1>3, <2>1, <2>2, TypeOKFrom DEF SendReturns, TypeOK
<1> QED
  BY <1>1, <1>2, <1>3 DEF Submission

\* The dispatcher's steps up to its choice of a task keep TypeOK.
LEMMA DispatchTyped ==
  ASSUME TypeOK, NEW a \in Agent,
         \/ DispatchCollaboration(a) \/ EnqueueCompletion(a) \/ LoadPending(a)
         \/ SelectSteer(a) \/ SelectStart(a) \/ SelectNone(a)
  PROVE  TypeOK'
<1>0. /\ TasksTyped /\ RunsTyped
      /\ Len(task) \in Nat /\ Len(run) \in Nat /\ TaskId = 1..Len(task) /\ RunId = 1..Len(run)
      /\ inputs \subseteq [task: Nat, run: Nat, how: {"start", "steer"}]
  BY Tables DEF TypeOK
<1>1. CASE DispatchCollaboration(a)
  <2> DEFINE h == [op[a] EXCEPT !.pc = "outbox", !.todo = PendingCompletions(a)]
  <2>1. Grows
    BY <1>1, TablesUnchanged DEF DispatchCollaboration
  <2>2. PendingCompletions(a) \in SUBSET Nat
    BY <1>0 DEF PendingCompletions, Uncompleted
  <2>3. h \in Operation /\ h.task = op[a].task /\ h.run = op[a].run
    BY <2>2, HandlerType DEF Operation, PC
  <2>4. op' = [op EXCEPT ![a] = h] /\ seen' = seen
    BY <1>1 DEF DispatchCollaboration
  <2>5. h.task \in 0..Len(task') /\ h.run \in 0..Len(run')
    BY <1>1, <2>3, HandlerType DEF DispatchCollaboration
  <2> HIDE DEF h
  <2>6. HandlersTyped'
    BY <2>1, <2>3, <2>4, <2>5, HandlerMoves DEF Grows, TablesGrow
  <2> QED
    BY <1>0, <1>1, <2>1, <2>6, TypeOKFrom DEF DispatchCollaboration
<1>2. CASE EnqueueCompletion(a)
  <2>1. PICK t \in op[a].todo :
          /\ op' = [op EXCEPT ![a].todo = @ \ {t}]
          /\ task' = IF t \notin PendingCompletions(a) THEN task
                     ELSE IF a \in archived THEN WithCompletion(t, "cancelled")
                     ELSE IF QueueFull(a) THEN task
                     ELSE WithCompletion(t, "queued")
    BY <1>2 DEF EnqueueCompletion
  <2>2. UNCHANGED <<run, conv, archived, seen, inputs, silenced, crashes>>
    BY <1>2 DEF EnqueueCompletion
  <2>3. Grows
    <3>1. CASE task' = task
      BY <2>2, <3>1, TablesUnchanged
    <3>2. CASE t \in PendingCompletions(a) /\ \E s \in {"queued", "cancelled"} : task' = WithCompletion(t, s)
      <4>1. t \in TaskId
        BY <3>2 DEF PendingCompletions, Uncompleted
      <4>2. TasksTyped' /\ Len(task') = Len(task) + 1
        BY <1>0, <2>2, <3>2, <4>1, WithCompletionTyped
      <4> QED
        BY <1>0, <2>2, <4>2, OnlyTasks
    <3> QED
      BY <2>1, <3>1, <3>2
  <2> DEFINE h == [op[a] EXCEPT !.todo = op[a].todo \ {t}]
  <2>4. h \in Operation /\ h.task = op[a].task /\ h.run = op[a].run
    BY HandlerType DEF Operation
  <2>5. op' = [op EXCEPT ![a] = h]
    BY <2>1
  <2>6. h.task \in 0..Len(task') /\ h.run \in 0..Len(run')
    BY <1>0, <2>3, <2>4, HandlerType DEF Grows, TablesGrow
  <2> HIDE DEF h
  <2>7. HandlersTyped'
    BY <2>2, <2>3, <2>4, <2>5, <2>6, HandlerMoves DEF Grows, TablesGrow
  <2> QED
    BY <1>0, <2>2, <2>3, <2>7, TypeOKFrom
<1>3. CASE LoadPending(a)
  <2>1. UNCHANGED <<run, conv, archived, seen, inputs, silenced, crashes>>
    BY <1>3 DEF LoadPending
  <2>2. (\E S : task' = Cancelled(S)) /\ (Return(a) \/ Step(a, "select"))
    <3>1. CASE a \in archived
      BY <1>3, <3>1 DEF LoadPending, CancelQueued, Cancelled
    <3>2. CASE a \notin archived
      BY <1>3, <3>2 DEF LoadPending, Cancelled
    <3> QED
      BY <3>1, <3>2
  <2>3. TasksTyped' /\ Len(task') = Len(task)
    BY <1>0, <2>1, <2>2, CancelledTyped
  <2>4. Grows
    BY <1>0, <2>1, <2>3, OnlyTasks
  <2>5. HandlersTyped'
    BY <2>1, <2>2, <2>4, StepMoves, ReturnMoves DEF Grows, PC
  <2> QED
    BY <1>0, <2>1, <2>4, <2>5, TypeOKFrom
<1>4. CASE SelectSteer(a) \/ SelectStart(a)
  <2>1. UNCHANGED <<run, conv, archived, seen, inputs, silenced, crashes>>
    BY <1>4 DEF SelectSteer, SelectStart
  <2>2. PICK t \in TaskId, r \in 0..Len(run), pc \in {"steering", "claimed"}, s \in 0..Len(run) :
          /\ task' = [task EXCEPT ![t].status = "dispatching", ![t].run = r]
          /\ op' = [op EXCEPT ![a] = [op[a] EXCEPT !.pc = pc, !.task = t, !.run = s]]
    <3>1. CASE SelectSteer(a)
      <4>1. PICK t \in Steerable(a) :
              /\ task' = [task EXCEPT ![t].status = "dispatching", ![t].run = ActiveRun(a)]
              /\ op' = [op EXCEPT ![a].pc = "steering", ![a].task = t, ![a].run = ActiveRun(a)]
        BY <3>1 DEF SelectSteer
      <4>2. t \in TaskId /\ ActiveRun(a) \in 0..Len(run)
        BY <1>0, ActiveRunType DEF Steerable, Queued
      <4> QED
        BY <4>1, <4>2
    <3>2. CASE SelectStart(a)
      <4>1. PICK t \in Queued(a) :
              /\ task' = [task EXCEPT ![t].status = "dispatching", ![t].run = 0]
              /\ op' = [op EXCEPT ![a].pc = "claimed", ![a].task = t]
        BY <3>2 DEF SelectStart
      <4>2. t \in TaskId /\ 0 \in 0..Len(run) /\ op[a].run \in 0..Len(run)
        BY <1>0, HandlerType DEF Queued
      <4>3. op' = [op EXCEPT ![a] = [op[a] EXCEPT !.pc = "claimed", !.task = t, !.run = op[a].run]]
        <5>1. [op[a] EXCEPT !.pc = "claimed", !.task = t, !.run = op[a].run]
              = [op[a] EXCEPT !.pc = "claimed", !.task = t]
          BY HandlerType DEF Operation
        <5> QED
          BY <4>1, <5>1
      <4> QED
        BY <4>1, <4>2, <4>3
    <3> QED
      BY <1>4, <3>1, <3>2
  <2> DEFINE row == [task[t] EXCEPT !.status = "dispatching", !.run = r]
             h == [op[a] EXCEPT !.pc = pc, !.task = t, !.run = s]
  <2>3. task[t] \in Task /\ Refers(task[t], Len(task), Len(run)) /\ r \in Nat /\ s \in Nat /\ t \in Nat
    BY <1>0, Tables DEF TasksTyped, Refers
  <2>4. row \in Task /\ Refers(row, Len(task), Len(run))
    BY <2>3 DEF Task, Refers, Pending
  <2>5. task' = [task EXCEPT ![t] = row]
    BY <2>2
  <2>6. h \in Operation /\ h.task = t /\ h.run = s
    BY <2>3, HandlerType DEF Operation, PC
  <2>7. op' = [op EXCEPT ![a] = h]
    BY <2>2
  <2> HIDE DEF row, h
  <2>8. TasksTyped' /\ Len(task') = Len(task)
    <3>1. Len(run') \in Nat /\ Len(run') >= Len(run)
      BY <1>0, <2>1
    <3> QED
      BY <1>0, <2>4, <2>5, <3>1, TaskRowRewritten, Zenon
  <2>9. Grows
    BY <1>0, <2>1, <2>8, OnlyTasks
  <2>10. h.task \in 0..Len(task') /\ h.run \in 0..Len(run')
    BY <1>0, <2>1, <2>6, <2>8
  <2>11. HandlersTyped'
    BY <2>1, <2>6, <2>7, <2>9, <2>10, HandlerMoves DEF Grows, TablesGrow
  <2> QED
    BY <1>0, <2>1, <2>9, <2>11, TypeOKFrom
<1>5. CASE SelectNone(a)
  <2>1. Grows
    BY <1>5, TablesUnchanged DEF SelectNone
  <2>2. HandlersTyped'
    BY <1>5, <2>1, ReturnMoves DEF Grows, SelectNone
  <2> QED
    BY <1>0, <1>5, <2>1, <2>2, TypeOKFrom DEF SelectNone
<1> QED
  BY <1>1, <1>2, <1>3, <1>4, <1>5

\* A handler that settles its task keeps the task table typed.
LEMMA TaskStateWritten ==
  ASSUME TypeOK, NEW a \in Agent, NEW status \in Pending \cup Terminal, NEW r \in 0..Len(run),
         task' = SetTaskState(op[a].task, status, r),
         Len(run') \in Nat, Len(run') >= Len(run)
  PROVE  TasksTyped' /\ Len(task') = Len(task)
<1>1. op[a].task \in Nat /\ TasksTyped /\ RunsTyped
  BY HandlerType DEF TypeOK
<1> QED
  BY <1>1, SetTaskStateTyped

\* The steps of a steer keep TypeOK.
LEMMA SteerTyped ==
  ASSUME TypeOK, NEW a \in Agent,
         SteerTurn(a) \/ SteerAccepted(a) \/ SteerRejected(a) \/ SteerLost(a)
  PROVE  TypeOK'
<1>0. /\ TasksTyped /\ RunsTyped
      /\ Len(task) \in Nat /\ Len(run) \in Nat /\ TaskId = 1..Len(task) /\ RunId = 1..Len(run)
      /\ inputs \subseteq [task: Nat, run: Nat, how: {"start", "steer"}]
  BY Tables DEF TypeOK
<1>1. CASE SteerTurn(a)
  <2>1. Grows
    BY <1>1, TablesUnchanged DEF SteerTurn
  <2>2. \E pc \in {"steered", "steerLost", "steerRejected"} : Step(a, pc)
    BY <1>1 DEF SteerTurn
  <2>3. HandlersTyped'
    BY <1>1, <2>1, <2>2, StepMoves DEF Grows, SteerTurn, PC
  <2>4. inputs' \subseteq [task: Nat, run: Nat, how: {"start", "steer"}]
    BY <1>0, <1>1, HandlerType DEF SteerTurn
  <2> QED
    BY <1>1, <2>1, <2>3, <2>4, TypeOKFrom DEF SteerTurn
<1>2. CASE SteerAccepted(a) \/ SteerRejected(a) \/ SteerLost(a)
  <2>1. /\ Return(a)
        /\ UNCHANGED <<run, conv, archived, seen, inputs, silenced, crashes>>
        /\ \E status \in {"running", "queued", "unknown"}, r \in {0, op[a].run} :
             task' = SetTaskState(op[a].task, status, r)
    BY <1>2 DEF SteerAccepted, SteerRejected, SteerLost
  <2>2. TasksTyped' /\ Len(task') = Len(task)
    BY <1>0, <2>1, HandlerType, TaskStateWritten DEF Pending, Terminal, RunTerminal
  <2>3. Grows
    BY <1>0, <2>1, <2>2, OnlyTasks
  <2>4. HandlersTyped'
    BY <2>1, <2>3, ReturnMoves DEF Grows
  <2> QED
    BY <1>0, <2>1, <2>3, <2>4, TypeOKFrom
<1> QED
  BY <1>1, <1>2

\* A handler that inserts a run and takes it keeps TypeOK.
LEMMA RunBegun ==
  ASSUME TypeOK, NEW a \in Agent, NEW pc \in PC, NEW c \in Nat,
         NEW source \in {"manual", "schedule", "collaboration"}, NEW t \in 0..Len(task),
         run' = Append(run, NewRun(a, c, source, t)),
         op' = [op EXCEPT ![a].pc = pc, ![a].run = Len(run) + 1],
         UNCHANGED <<task, conv, archived, seen, inputs, silenced, crashes>>
  PROVE  TypeOK'
<1>0. /\ TasksTyped /\ RunsTyped
      /\ Len(task) \in Nat /\ Len(run) \in Nat
      /\ inputs \subseteq [task: Nat, run: Nat, how: {"start", "steer"}]
  BY Tables DEF TypeOK
<1> DEFINE new == NewRun(a, c, source, t)
           h == [op[a] EXCEPT !.pc = pc, !.run = Len(run) + 1]
<1>1. new \in Run /\ new.task = t
  BY <1>0 DEF NewRun, Run, Live
<1>2. h \in Operation /\ h.task = op[a].task /\ h.run = Len(run) + 1
  <2>1. PICK n \in Nat : n = Len(run) + 1
    BY <1>0
  <2>2. [op[a] EXCEPT !.pc = pc, !.run = n] \in Operation
    BY HandlerType DEF Operation
  <2> QED
    BY <2>1, <2>2, HandlerType DEF Operation
<1>3. run' = Append(run, new) /\ op' = [op EXCEPT ![a] = h]
  OBVIOUS
<1> HIDE DEF new, h
<1>4. RunsTyped' /\ Len(run') = Len(run) + 1
  BY <1>0, <1>1, <1>3, RunAppended
<1>5. Grows
  BY <1>0, <1>4, OnlyRuns
<1>6. HandlersTyped'
  <2>1. h.task \in 0..Len(task') /\ h.run \in 0..Len(run')
    BY <1>0, <1>2, <1>4, HandlerType
  <2> QED
    BY <1>2, <1>3, <1>5, <2>1, HandlerMoves DEF Grows, TablesGrow
<1> QED
  BY <1>0, <1>5, <1>6, TypeOKFrom

\* The steps that create and bind a run keep TypeOK.
LEMMA StartTyped ==
  ASSUME TypeOK, NEW a \in Agent,
         \/ StartCollaborationFails(a) \/ CreateRun(a) \/ BindRun(a)
         \/ Message(a) \/ RunDueSchedule(a)
  PROVE  TypeOK'
<1>0. /\ TasksTyped /\ RunsTyped
      /\ Len(task) \in Nat /\ Len(run) \in Nat
      /\ inputs \subseteq [task: Nat, run: Nat, how: {"start", "steer"}]
      /\ conv[a] \in Nat
  BY Tables DEF TypeOK
<1>1. CASE StartCollaborationFails(a)
  <2>1. /\ Return(a)
        /\ UNCHANGED <<run, conv, archived, seen, inputs, silenced, crashes>>
        /\ task' = SetTaskState(op[a].task, "failed", 0)
    BY <1>1 DEF StartCollaborationFails
  <2>2. TasksTyped' /\ Len(task') = Len(task)
    <3>1. "failed" \in Pending \cup Terminal /\ 0 \in 0..Len(run)
          /\ Len(run') \in Nat /\ Len(run') >= Len(run)
      BY <1>0, <2>1 DEF Terminal, RunTerminal
    <3> QED
      BY <2>1, <3>1, TaskStateWritten, Zenon
  <2>3. Grows
    BY <1>0, <2>1, <2>2, OnlyTasks
  <2>4. HandlersTyped'
    BY <2>1, <2>3, ReturnMoves DEF Grows
  <2> QED
    BY <1>0, <2>1, <2>3, <2>4, TypeOKFrom
<1>2. CASE CreateRun(a)
  <2>1. op[a].task \in 0..Len(task) /\ "created" \in PC
    BY HandlerType DEF PC
  <2> QED
    BY <1>0, <1>2, <2>1, RunBegun, Zenon DEF CreateRun
<1>3. CASE BindRun(a)
  <2>1. /\ Step(a, "bound")
        /\ UNCHANGED <<run, conv, archived, seen, inputs, silenced, crashes>>
        /\ task' = SetTaskState(op[a].task, "dispatching", op[a].run)
    BY <1>3 DEF BindRun
  <2>2. TasksTyped' /\ Len(task') = Len(task)
    BY <1>0, <2>1, HandlerType, TaskStateWritten DEF Pending
  <2>3. Grows
    BY <1>0, <2>1, <2>2, OnlyTasks
  <2>4. HandlersTyped'
    BY <2>1, <2>3, StepMoves DEF Grows, PC
  <2> QED
    BY <1>0, <2>1, <2>3, <2>4, TypeOKFrom
<1>4. CASE Message(a) \/ RunDueSchedule(a)
  <2>1. /\ \E source \in {"manual", "schedule"}, c \in {0, conv[a]} :
             run' = Append(run, NewRun(a, c, source, 0))
        /\ op' = [op EXCEPT ![a].pc = "bound", ![a].run = Len(run) + 1]
        /\ UNCHANGED <<task, conv, archived, seen, inputs, silenced, crashes>>
    BY <1>4 DEF Message, RunDueSchedule, BeginUserRun
  <2>2. PICK source \in {"manual", "schedule"}, c \in {0, conv[a]} :
          run' = Append(run, NewRun(a, c, source, 0))
    BY <2>1
  <2>3. "bound" \in PC /\ 0 \in 0..Len(task) /\ c \in Nat
    BY <1>0 DEF PC
  <2>4. source \in {"manual", "schedule", "collaboration"}
    OBVIOUS
  <2> QED
    BY <2>1, <2>2, <2>3, <2>4, RunBegun, Zenon
<1> QED
  BY <1>1, <1>2, <1>3, <1>4

\* A handler that goes on or returns and keeps the tables typed keeps TypeOK.
LEMMA HandlerStepTyped ==
  ASSUME TypeOK, NEW a \in Agent, Grows, Return(a) \/ \E pc \in PC : Step(a, pc),
         UNCHANGED <<conv, archived, seen, inputs, silenced, crashes>>
  PROVE  TypeOK'
<1>1. HandlersTyped'
  BY StepMoves, ReturnMoves DEF Grows
<1>2. inputs' \subseteq [task: Nat, run: Nat, how: {"start", "steer"}]
  BY DEF TypeOK
<1> QED
  BY <1>1, <1>2, TypeOKFrom

\* The values that a run, its outbox and its relay may take.
RunValue(row, r) == r \in RunId => row \in Run /\ row.task = run[r].task

\* Writing a proper value into one run keeps both tables typed.
LEMMA RunWritten ==
  ASSUME TypeOK, UNCHANGED task, NEW r,
         run' = run \/ \E row : run' = [run EXCEPT ![r] = row] /\ RunValue(row, r)
  PROVE  Grows
<1>1. CASE run' = run
  BY <1>1, TablesUnchanged
<1>2. CASE \E row : run' = [run EXCEPT ![r] = row] /\ RunValue(row, r)
  BY <1>2, RunFieldsWritten DEF RunValue
<1> QED
  BY <1>1, <1>2

\* The columns of a run row have their types.
LEMMA RunRow ==
  ASSUME TypeOK, NEW r \in RunId
  PROVE  /\ run[r] \in Run
         /\ run[r].relay \in {"off", "polling", "finishing"}
         /\ run[r].status \in Live \cup RunTerminal
         /\ run[r].outbox \in {"none", "starting", "live"} \cup RunTerminal
         /\ run[r].turn \in BOOLEAN
BY Tables DEF TypeOK, Run

\* Starting or stopping a relay writes a proper value.
LEMMA RelayWritten ==
  ASSUME TypeOK, NEW r, NEW relay,
         r \in RunId => relay \in {"off", "polling", "finishing"}
  PROVE  RunValue([run[r] EXCEPT !.relay = relay], r)
BY RunRow DEF RunValue, Run

\* A worker's status file takes a proper value.
LEMMA OutboxWritten ==
  ASSUME TypeOK, NEW r, NEW outbox \in {"none", "starting", "live"} \cup RunTerminal
  PROVE  RunValue([run[r] EXCEPT !.outbox = outbox], r)
BY RunRow DEF RunValue, Run

\* A stored run status takes a proper value.
LEMMA StatusWritten ==
  ASSUME TypeOK, NEW r, NEW status \in Live \cup RunTerminal
  PROVE  RunValue([run[r] EXCEPT !.status = status], r)
BY RunRow DEF RunValue, Run

\* StartRelay yields a state of a relay.
LEMMA StartRelayType ==
  ASSUME TypeOK, NEW r \in RunId
  PROVE  StartRelay(run[r].relay) \in {"off", "polling", "finishing"}
BY RunRow DEF StartRelay

\* The request to start a turn and its replies keep TypeOK.
LEMMA RunBeginsTyped ==
  ASSUME TypeOK, NEW a \in Agent,
         \/ RunDueScheduleFails(a) \/ CallStartTurn(a) \/ StartTurnReplies(a)
         \/ StartRejected(a) \/ MessageSteerReplies(a)
  PROVE  TypeOK'
<1>0. "failed" \in Live \cup RunTerminal
  BY DEF RunTerminal
<1>1. CASE RunDueScheduleFails(a)
  <2>1. Grows
    BY <1>0, <1>1, RunWritten, StatusWritten DEF RunDueScheduleFails, FinishRun
  <2> QED
    BY <1>1, <2>1, HandlerStepTyped DEF RunDueScheduleFails
<1>2. CASE CallStartTurn(a)
  <2>1. Grows
    BY <1>2, RunWritten, OutboxWritten DEF CallStartTurn
  <2>2. \E pc \in PC : Step(a, pc)
    BY <1>2 DEF CallStartTurn, PC
  <2> QED
    BY <1>2, <2>1, <2>2, HandlerStepTyped DEF CallStartTurn
<1>3. CASE StartTurnReplies(a)
  <2>1. Grows
    BY <1>3, TablesUnchanged DEF StartTurnReplies
  <2>2. \E pc \in PC : Step(a, pc)
    BY <1>3 DEF StartTurnReplies, PC
  <2> QED
    BY <1>3, <2>1, <2>2, HandlerStepTyped DEF StartTurnReplies
<1>4. CASE StartRejected(a)
  <2>1. Grows
    BY <1>0, <1>4, RunWritten, StatusWritten DEF StartRejected, FinishRun
  <2>2. Return(a) \/ \E pc \in PC : Step(a, pc)
    BY <1>4 DEF StartRejected, PC
  <2> QED
    BY <1>4, <2>1, <2>2, HandlerStepTyped DEF StartRejected
<1>5. CASE MessageSteerReplies(a)
  <2>1. Grows
    BY <1>5, RunWritten, RelayWritten, StartRelayType DEF MessageSteerReplies
  <2> QED
    BY <1>5, <2>1, HandlerStepTyped DEF MessageSteerReplies
<1> QED
  BY <1>1, <1>2, <1>3, <1>4, <1>5

\* SetRunStarted and what follows a started, failed or lost turn keep TypeOK.
LEMMA RunStartedTyped ==
  ASSUME TypeOK, NEW a \in Agent,
         SetRunStarted(a) \/ CollaborationStarted(a) \/ CollaborationFailed(a) \/ StartLost(a)
  PROVE  TypeOK'
<1>0. /\ "failed" \in Live \cup RunTerminal /\ "running" \in Live \cup RunTerminal
      /\ "failed" \in Pending \cup Terminal /\ "running" \in Pending \cup Terminal
      /\ "unknown" \in Pending \cup Terminal
      /\ Len(run) \in Nat /\ Len(task) \in Nat /\ TasksTyped /\ RunsTyped
  BY Tables DEF TypeOK, Live, RunTerminal, Pending, Terminal
<1> DEFINE r == op[a].run
<1>1. r \in 0..Len(run)
  BY HandlerType
<1>2. CASE SetRunStarted(a)
  <2> DEFINE started == IF op[a].gone THEN run[r]
                        ELSE [run[r] EXCEPT !.status = "running", !.turn = TRUE]
  <2>1. ASSUME r \in RunId
        PROVE  started \in Run /\ started.task = run[r].task
    BY <1>0, <2>1, RunRow DEF Run
  <2>2. \/ run' = [run EXCEPT ![r] = started]
        \/ run' = [run EXCEPT ![r] = [started EXCEPT !.relay = StartRelay(started.relay)]]
    BY <1>2 DEF SetRunStarted
  <2> HIDE DEF started
  <2>3. RunValue([started EXCEPT !.relay = StartRelay(started.relay)], r)
    BY <2>1 DEF RunValue, Run, StartRelay
  <2>4. RunValue(started, r)
    BY <2>1 DEF RunValue
  <2>5. Grows
    BY <1>2, <2>2, <2>3, <2>4, RunWritten DEF SetRunStarted
  <2>6. Return(a) \/ \E pc \in PC : Step(a, pc)
    BY <1>2 DEF SetRunStarted, PC
  <2> QED
    BY <1>2, <2>5, <2>6, HandlerStepTyped DEF SetRunStarted
<1>3. CASE CollaborationStarted(a) \/ (StartLost(a) /\ op[a].task # 0)
  <2>1. /\ run' = [run EXCEPT ![r] = [run[r] EXCEPT !.relay = StartRelay(run[r].relay)]]
        /\ \E status \in {"running", "unknown"} : task' = SetTaskState(op[a].task, status, r)
        /\ Return(a)
        /\ UNCHANGED <<conv, archived, seen, inputs, silenced, crashes>>
    BY <1>3 DEF CollaborationStarted, StartLost
  <2>2. RunValue([run[r] EXCEPT !.relay = StartRelay(run[r].relay)], r)
    BY RelayWritten, StartRelayType
  <2>3. PICK status \in {"running", "unknown"} : task' = SetTaskState(op[a].task, status, r)
    BY <2>1
  <2>4. Len(run') = Len(run)
    BY <2>1
  <2>5. TasksTyped' /\ Len(task') = Len(task)
    <3>1. status \in Pending \cup Terminal /\ Len(run') \in Nat /\ Len(run') >= Len(run)
      BY <1>0, <2>4
    <3> QED
      BY <1>1, <2>3, <3>1, TaskStateWritten, Zenon
  <2>6. Len(task') \in Nat /\ Len(task') >= Len(task)
    BY <1>0, <2>5
  <2>7. RunsTyped'
    BY <1>0, <2>1, <2>2, <2>6, RunRowRewritten DEF RunValue
  <2>8. Grows
    BY <1>0, <2>4, <2>5, <2>6, <2>7 DEF Grows, TablesGrow
  <2> QED
    BY <2>1, <2>8, HandlerStepTyped
<1>4. CASE CollaborationFailed(a)
  <2>1. TasksTyped' /\ Len(task') = Len(task)
    <3>1. task' = SetTaskState(op[a].task, "failed", r) /\ Len(run') \in Nat /\ Len(run') >= Len(run)
      BY <1>0, <1>4 DEF CollaborationFailed
    <3> QED
      BY <1>0, <1>1, <3>1, TaskStateWritten, Zenon
  <2>2. Grows
    BY <1>0, <1>4, <2>1, OnlyTasks DEF CollaborationFailed
  <2> QED
    BY <1>4, <2>2, HandlerStepTyped DEF CollaborationFailed
<1>5. CASE StartLost(a) /\ op[a].task = 0
  <2>1. Grows
    BY <1>0, <1>5, RunWritten, StatusWritten DEF StartLost, FinishRun
  <2> QED
    BY <1>5, <2>1, HandlerStepTyped DEF StartLost
<1> QED
  BY <1>2, <1>3, <1>4, <1>5

\* A request that takes the lock of an agent keeps TypeOK.
LEMMA RequestTyped ==
  ASSUME TypeOK, NEW a \in Agent,
         \/ MessageSteer(a) \/ Interrupt(a) \/ (\E archive \in BOOLEAN : StopAgent(a, archive))
         \/ ResetAgentConversation(a) \/ ClientGone(a)
  PROVE  TypeOK'
<1>0. inputs \subseteq [task: Nat, run: Nat, how: {"start", "steer"}]
  BY DEF TypeOK
<1>1. CASE ResetAgentConversation(a)
  <2>1. Grows
    BY <1>1, TablesUnchanged DEF ResetAgentConversation
  <2>2. HandlersTyped' /\ conv' \in [Agent -> Nat]
    BY <1>1 DEF ResetAgentConversation, TypeOK, HandlersTyped
  <2> QED
    BY <1>1, <2>1, <2>2 DEF ResetAgentConversation, TypeOK, Grows
<1>2. ASSUME NEW h \in Operation, op' = [op EXCEPT ![a] = h],
             h.task = op[a].task, h.run \in RunId \cup {0},
             UNCHANGED <<task, run, conv, archived, seen, inputs, silenced, crashes>>
      PROVE  TypeOK'
  <2>1. Grows
    BY <1>2, TablesUnchanged
  <2>2. h.task \in 0..Len(task') /\ h.run \in 0..Len(run')
    BY <1>2, HandlerType, Tables DEF TypeOK
  <2>3. HandlersTyped'
    BY <1>2, <2>1, <2>2, HandlerMoves DEF Grows, TablesGrow
  <2> QED
    BY <1>0, <1>2, <2>1, <2>3, TypeOKFrom
<1>3. CASE MessageSteer(a) \/ Interrupt(a)
  <2>1. PICK pc \in {"messageSteer", "interrupting"} :
          op' = [op EXCEPT ![a] = [op[a] EXCEPT !.pc = pc, !.run = ActiveRun(a)]]
    BY <1>3 DEF MessageSteer, Interrupt
  <2> DEFINE h == [op[a] EXCEPT !.pc = pc, !.run = ActiveRun(a)]
  <2>2. ActiveRun(a) \in RunId \cup {0} /\ ActiveRun(a) \in Nat
    BY ActiveRunType, Tables DEF TypeOK
  <2>3. h \in Operation /\ h.task = op[a].task /\ h.run = ActiveRun(a)
    BY <2>2, HandlerType DEF Operation, PC
  <2> HIDE DEF h
  <2> QED
    BY <1>2, <1>3, <2>1, <2>2, <2>3 DEF MessageSteer, Interrupt, h
<1>4. CASE \E archive \in BOOLEAN : StopAgent(a, archive)
  <2>1. PICK archive \in BOOLEAN :
          op' = [op EXCEPT ![a] = [op[a] EXCEPT !.pc = "suppress", !.archive = archive]]
    BY <1>4 DEF StopAgent
  <2> DEFINE h == [op[a] EXCEPT !.pc = "suppress", !.archive = archive]
  <2>2. h \in Operation /\ h.task = op[a].task /\ h.run = op[a].run
    BY HandlerType DEF Operation, PC
  <2>3. op' = [op EXCEPT ![a] = h]
    BY <2>1
  <2> HIDE DEF h
  <2> QED
    BY <1>2, <1>4, <2>2, <2>3, HandlerType DEF StopAgent
<1>5. CASE ClientGone(a)
  <2> DEFINE h == [op[a] EXCEPT !.gone = TRUE]
  <2>2. h \in Operation /\ h.task = op[a].task /\ h.run = op[a].run
    BY HandlerType DEF Operation
  <2>3. op' = [op EXCEPT ![a] = h]
    BY <1>5 DEF ClientGone
  <2> HIDE DEF h
  <2> QED
    BY <1>2, <1>5, <2>2, <2>3, HandlerType DEF ClientGone
<1> QED
  BY <1>1, <1>3, <1>4, <1>5

\* SuppressCollaborationCompletions keeps both tables typed.
LEMMA SuppressGrows ==
  ASSUME TypeOK, NEW a \in Agent, SuppressCollaborationCompletions(a), UNCHANGED run
  PROVE  Grows
<1>1. PICK order \in Listings(Uncompleted(a)) : task' = Suppressed(a, order)
  BY DEF SuppressCollaborationCompletions
<1>2. TasksTyped /\ RunsTyped /\ Len(run') = Len(run)
  BY DEF TypeOK
<1>3. TasksTyped' /\ Len(task') >= Len(task)
  BY <1>1, <1>2, SuppressedTyped
<1> QED
  BY <1>3, OnlyTasks

\* Cancelling the queue keeps both tables typed.
LEMMA CancelGrows ==
  ASSUME TypeOK, NEW S, task' = Cancelled(S), UNCHANGED run
  PROVE  Grows
<1>1. TasksTyped /\ RunsTyped /\ Len(run') \in Nat /\ Len(run') >= Len(run) /\ Len(task) \in Nat
  BY Tables DEF TypeOK
<1>2. TasksTyped' /\ Len(task') = Len(task)
  BY <1>1, CancelledTyped
<1> QED
  BY <1>1, <1>2, OnlyTasks

\* Finishing a stopped run keeps both tables typed.
LEMMA StoppedRunGrows ==
  ASSUME TypeOK, NEW a \in Agent, FinishStoppedRun(a), UNCHANGED task
  PROVE  Grows
<1> DEFINE r == op[a].run
<1>1. PICK relay \in CancelRelay(run[r].relay) :
        run' = [run EXCEPT ![r] = [run[r] EXCEPT !.relay = relay,
                                     !.status = IF op[a].gone THEN run[r].status ELSE "interrupted"]]
  BY DEF FinishStoppedRun
<1> DEFINE status == IF op[a].gone THEN run[r].status ELSE "interrupted"
           row == [run[r] EXCEPT !.relay = relay, !.status = status]
<1>2. r \in RunId => /\ run[r] \in Run /\ relay \in {"off", "polling", "finishing"}
                      /\ status \in Live \cup RunTerminal
  BY <1>1, RunRow DEF CancelRelay, RunTerminal
<1> HIDE DEF status
<1>3. RunValue(row, r)
  BY <1>2 DEF RunValue, Run
<1>4. run' = [run EXCEPT ![r] = row]
  BY <1>1 DEF status
<1> HIDE DEF row, r
<1> QED
  BY <1>3, <1>4, RunWritten

\* The recovery of a worker's outbox keeps both tables typed.
LEMMA RecoveredGrows ==
  ASSUME TypeOK, NEW a \in Agent, run' = run \/ run' = Recovered(a), UNCHANGED task
  PROVE  Grows
<1>0. /\ TasksTyped /\ RunsTyped /\ Len(task') \in Nat /\ Len(task') >= Len(task)
      /\ run \in [RunId -> Run] /\ Len(run) \in Nat
  BY Tables DEF TypeOK
<1>1. CASE run' = run
  BY <1>1, TablesUnchanged
<1>2. CASE run' = Recovered(a)
  <2>1. ASSUME NEW r \in RunId
        PROVE  run'[r] \in Run /\ run'[r].task = run[r].task
    <3>1. run'[r] = run[r] \/ run'[r] = [run[r] EXCEPT !.outbox = "unknown"]
      BY <1>2 DEF Recovered
    <3>2. run[r] \in Run
      BY <1>0
    <3> QED
      BY <3>1, <3>2 DEF Run, RunTerminal
  <2>2. run' \in [RunId -> Run]
    <3>1. DOMAIN run' = RunId /\ run' = [r \in RunId |-> run'[r]]
      BY <1>2 DEF Recovered
    <3> QED
      BY <2>1, <3>1
  <2>3. RunsTyped' /\ Len(run') = Len(run)
    BY <1>0, <2>1, <2>2, RunsRewritten
  <2> QED
    BY <1>0, <2>3, OnlyRuns
<1> QED
  BY <1>1, <1>2

\* The steps of Stop run keep TypeOK.
LEMMA InterruptTyped ==
  ASSUME TypeOK, NEW a \in Agent, CallInterrupt(a) \/ FinishInterrupted(a) \/ Silence(a)
  PROVE  TypeOK'
<1>1. CASE CallInterrupt(a)
  <2>1. run' = run \/ run' = [run EXCEPT ![op[a].run] = [run[op[a].run] EXCEPT !.outbox = "interrupted"]]
    BY <1>1 DEF CallInterrupt, InterruptedRun
  <2>2. "interrupted" \in {"none", "starting", "live"} \cup RunTerminal
    BY DEF RunTerminal
  <2>3. Grows
    BY <1>1, <2>1, <2>2, OutboxWritten, RunWritten DEF CallInterrupt
  <2>4. Return(a) \/ \E pc \in PC : Step(a, pc)
    BY <1>1 DEF CallInterrupt, PC
  <2> QED
    BY <1>1, <2>3, <2>4, HandlerStepTyped DEF CallInterrupt
<1>2. CASE FinishInterrupted(a)
  <2>1. Grows
    BY <1>2, StoppedRunGrows DEF FinishInterrupted
  <2>2. \E pc \in PC : Step(a, pc)
    BY <1>2 DEF FinishInterrupted, PC
  <2> QED
    BY <1>2, <2>1, <2>2, HandlerStepTyped DEF FinishInterrupted
<1>3. CASE Silence(a)
  <2>1. Grows
    BY <1>3, SuppressGrows, TablesUnchanged DEF Silence
  <2>2. HandlersTyped'
    BY <1>3, <2>1, ReturnMoves DEF Silence, Grows
  <2>3. silenced' \subseteq Nat
    <3>1. silenced' = silenced \/ silenced' = silenced \cup {op[a].run}
      BY <1>3, Zenon DEF Silence
    <3>2. silenced \subseteq Nat /\ op[a].run \in Nat
      BY HandlerType DEF TypeOK
    <3> QED
      BY <3>1, <3>2
  <2>4. UNCHANGED <<conv, archived, inputs, crashes>>
    BY <1>3 DEF Silence
  <2> QED
    BY <2>1, <2>2, <2>3, <2>4 DEF TypeOK, Grows
<1> QED
  BY <1>1, <1>2, <1>3

\* The steps of stop and archive keep TypeOK.
LEMMA StopTyped ==
  ASSUME TypeOK, NEW a \in Agent,
         \/ StopSuppress(a) \/ StopCancelQueued(a) \/ StopInterrupt(a)
         \/ StopRuntime(a) \/ StopFinish(a) \/ ArchiveAgent(a)
  PROVE  TypeOK'
<1>1. CASE StopSuppress(a)
  <2>1. Grows
    BY <1>1, SuppressGrows, TablesUnchanged DEF StopSuppress
  <2>2. Return(a) \/ \E pc \in PC : Step(a, pc)
    BY <1>1 DEF StopSuppress, PC
  <2> QED
    BY <1>1, <2>1, <2>2, HandlerStepTyped DEF StopSuppress
<1>2. CASE StopCancelQueued(a)
  <2>1. task' = task \/ task' = Cancelled(Queued(a))
    BY <1>2 DEF StopCancelQueued, CancelQueued, Cancelled
  <2>2. Grows
    BY <1>2, <2>1, CancelGrows, TablesUnchanged DEF StopCancelQueued
  <2>3. Return(a) \/ \E pc \in PC : Step(a, pc)
    BY <1>2 DEF StopCancelQueued, PC
  <2> QED
    BY <1>2, <2>2, <2>3, HandlerStepTyped DEF StopCancelQueued
<1>3. CASE StopInterrupt(a)
  <2> DEFINE r == ActiveRun(a)
  <2>0. r \in RunId \cup {0} /\ r \in 0..Len(run) /\ r \in Nat
    BY ActiveRunType, Tables DEF TypeOK
  <2>1. run' = run \/ run' = [run EXCEPT ![r] = [run[r] EXCEPT !.outbox = "interrupted"]]
    BY <1>3 DEF StopInterrupt, InterruptedRun
  <2>2. op' = [op EXCEPT ![a] = [op[a] EXCEPT !.pc = "stopRuntime", !.run = r]]
    BY <1>3 DEF StopInterrupt
  <2> HIDE DEF r
  <2>3. Grows
    <3>1. "interrupted" \in {"none", "starting", "live"} \cup RunTerminal
      BY DEF RunTerminal
    <3> QED
      BY <1>3, <2>1, <3>1, OutboxWritten, RunWritten DEF StopInterrupt
  <2> DEFINE h == [op[a] EXCEPT !.pc = "stopRuntime", !.run = r]
  <2>4. h \in Operation /\ h.task = op[a].task /\ h.run = r
    BY <2>0, HandlerType DEF Operation, PC
  <2>5. op' = [op EXCEPT ![a] = h]
    BY <2>2
  <2> HIDE DEF h
  <2>6. h.task \in 0..Len(task') /\ h.run \in 0..Len(run')
    BY <2>0, <2>3, <2>4, HandlerType, Tables DEF Grows, TablesGrow, TypeOK
  <2>7. HandlersTyped'
    BY <1>3, <2>3, <2>4, <2>5, <2>6, HandlerMoves DEF StopInterrupt, Grows, TablesGrow
  <2> QED
    BY <1>3, <2>3, <2>7, TypeOKFrom DEF StopInterrupt, TypeOK
<1>4. CASE StopRuntime(a)
  <2>1. Grows
    BY <1>4, RecoveredGrows DEF StopRuntime
  <2>2. Return(a) \/ \E pc \in PC : Step(a, pc)
    BY <1>4 DEF StopRuntime, PC
  <2> QED
    BY <1>4, <2>1, <2>2, HandlerStepTyped DEF StopRuntime
<1>5. CASE StopFinish(a)
  <2>1. Grows
    BY <1>5, StoppedRunGrows, TablesUnchanged DEF StopFinish
  <2>2. \E pc \in PC : Step(a, pc)
    BY <1>5 DEF StopFinish, PC
  <2> QED
    BY <1>5, <2>1, <2>2, HandlerStepTyped DEF StopFinish
<1>6. CASE ArchiveAgent(a)
  <2>1. Grows
    BY <1>6, TablesUnchanged DEF ArchiveAgent
  <2>2. HandlersTyped'
    BY <1>6, <2>1, ReturnMoves DEF ArchiveAgent, Grows
  <2>3. archived' \subseteq Agent
    BY <1>6 DEF ArchiveAgent, TypeOK
  <2> QED
    BY <1>6, <2>1, <2>2, <2>3 DEF ArchiveAgent, TypeOK, Grows
<1> QED
  BY <1>1, <1>2, <1>3, <1>4, <1>5, <1>6

\* A step outside the locks that keeps the tables typed keeps TypeOK.
LEMMA UnlockedTyped ==
  ASSUME TypeOK, Grows, UNCHANGED <<conv, archived, op, seen, silenced, crashes>>,
         inputs' \subseteq [task: Nat, run: Nat, how: {"start", "steer"}]
  PROVE  TypeOK'
<1>1. HandlersTyped'
  <2>1. Len(task) \in Nat /\ Len(run) \in Nat
    BY Tables DEF TypeOK
  <2> QED
    BY <2>1 DEF TypeOK, HandlersTyped, Grows, TablesGrow
<1> QED
  BY <1>1, TypeOKFrom

\* Cancellation, the worker, the relay and reconciliation keep TypeOK.  Here
\* RelayHoldsOutcome is needed: the relay copies the outbox into the status.
LEMMA BackgroundTyped ==
  ASSUME TypeOK, RelayHoldsOutcome,
         \/ \E t \in TaskId : CollaborationCancel(t)
         \/ \E r \in RunId : Worker(r) \/ Relay(r)
         \/ ReconcileCollaborationTasks
  PROVE  TypeOK'
<1>0. /\ TasksTyped /\ RunsTyped
      /\ Len(task) \in Nat /\ Len(run) \in Nat
      /\ inputs \subseteq [task: Nat, run: Nat, how: {"start", "steer"}]
  BY Tables DEF TypeOK
<1>1. ASSUME NEW t \in TaskId, CollaborationCancel(t) PROVE TypeOK'
  <2>1. task' = Cancelled({t})
    BY <1>1, Tables, <1>0 DEF CollaborationCancel, Cancelled
  <2>2. Grows
    BY <1>1, <2>1, CancelGrows DEF CollaborationCancel
  <2> QED
    BY <1>0, <1>1, <2>2, UnlockedTyped DEF CollaborationCancel
<1>2. ASSUME NEW r \in RunId, Worker(r) PROVE TypeOK'
  <2>1. PICK outbox \in {"none", "starting", "live"} \cup RunTerminal :
          run' = [run EXCEPT ![r] = [run[r] EXCEPT !.outbox = outbox]]
    BY <1>2, ConstantsAssumption DEF Worker, WorkerStarts, WorkerStartFails, WorkerFinishes, RunTerminal
  <2>2. Grows
    BY <1>2, <2>1, OutboxWritten, RunWritten DEF Worker, WorkerStarts, WorkerStartFails, WorkerFinishes
  <2>3. run[r].task \in Nat /\ r \in Nat
    BY <1>0, RunRow, Tables DEF Run
  <2>4. inputs' \subseteq [task: Nat, run: Nat, how: {"start", "steer"}]
    BY <1>0, <1>2, <2>3 DEF Worker, WorkerStarts, WorkerStartFails, WorkerFinishes
  <2> QED
    BY <1>2, <2>2, <2>4, UnlockedTyped DEF Worker, WorkerStarts, WorkerStartFails, WorkerFinishes
<1>3. ASSUME NEW r \in RunId, Relay(r) PROVE TypeOK'
  <2>1. CASE RelayReads(r)
    <3>1. Grows
      BY <1>3, <2>1, RelayWritten, RunWritten DEF RelayReads
    <3> QED
      BY <1>0, <2>1, <3>1, UnlockedTyped DEF RelayReads
  <2>2. CASE RelayFinishes(r)
    <3> DEFINE status == IF run[r].outbox = "none" THEN "unknown" ELSE run[r].outbox
               row == [run[r] EXCEPT !.status = status, !.relay = "off"]
    <3>1. status \in RunTerminal /\ run[r] \in Run
      BY <2>2, RunRow DEF RelayFinishes, RelayHoldsOutcome, RunTerminal
    <3>2. run' = [run EXCEPT ![r] = row]
      <4>1. [run EXCEPT ![r].status = status][r] = [run[r] EXCEPT !.status = status]
        BY <1>0, Tables
      <4> HIDE DEF status
      <4>2. run' = [[run EXCEPT ![r].status = status] EXCEPT ![r].relay = "off"]
        BY <2>2 DEF RelayFinishes, FinishRun, status
      <4> QED
        BY <4>1, <4>2
    <3> HIDE DEF status
    <3>3. RunValue(row, r)
      BY <3>1 DEF RunValue, Run
    <3> HIDE DEF row
    <3>4. Grows
      BY <2>2, <3>2, <3>3, RunWritten DEF RelayFinishes
    <3> QED
      BY <1>0, <2>2, <3>4, UnlockedTyped DEF RelayFinishes
  <2> QED
    BY <1>3, <2>1, <2>2 DEF Relay
<1>4. CASE ReconcileCollaborationTasks
  <2>1. TasksTyped' /\ Len(task') = Len(task)
    BY <1>0, <1>4, ReconciledTyped, TasksRewritten DEF ReconcileCollaborationTasks
  <2>2. Grows
    BY <1>0, <1>4, <2>1, OnlyTasks DEF ReconcileCollaborationTasks
  <2> QED
    BY <1>0, <1>4, <2>2, UnlockedTyped DEF ReconcileCollaborationTasks
<1> QED
  BY <1>1, <1>2, <1>3, <1>4

\* A restart of the server keeps TypeOK.
LEMMA RestartTyped ==
  ASSUME TypeOK, Restart
  PROVE  TypeOK'
<1>0. /\ TasksTyped /\ RunsTyped
      /\ Len(task) \in Nat /\ Len(run) \in Nat
      /\ task \in [TaskId -> Task] /\ run \in [RunId -> Run]
      /\ crashes \in Nat
  BY Tables DEF TypeOK
<1>1. ASSUME NEW t \in TaskId
      PROVE  task'[t] \in Task /\ Refers(task'[t], Len(task), Len(run))
  <2>1. Reconciled[t] \in Task /\ Refers(Reconciled[t], Len(task), Len(run))
    BY <1>0, ReconciledTyped
  <2>2. PICK status : status = RecoveredStatus(Reconciled[t].status)
    OBVIOUS
  <2>3. task'[t] = [Reconciled[t] EXCEPT !.status = status]
    BY <2>2 DEF Restart
  <2>4. status \in Pending \cup Terminal
    BY <2>1, <2>2 DEF RecoveredStatus, Task, Terminal, RunTerminal
  <2> QED
    BY <2>1, <2>3, <2>4 DEF Task, Refers
<1>2. ASSUME NEW r \in RunId
      PROVE  run'[r] \in Run /\ run'[r].task = run[r].task
  <2>1. run'[r] = [run[r] EXCEPT !.relay = ResumedRelay(r)] /\ run[r] \in Run
    BY <1>0 DEF Restart
  <2> QED
    BY <2>1 DEF ResumedRelay, Run
<1>3. run' \in [RunId -> Run] /\ task' \in [TaskId -> Task]
  <2>1. /\ DOMAIN run' = RunId /\ run' = [r \in RunId |-> run'[r]]
        /\ DOMAIN task' = TaskId /\ task' = [t \in TaskId |-> task'[t]]
    BY DEF Restart
  <2> QED
    BY <1>1, <1>2, <2>1
<1>4. /\ DOMAIN run' = RunId /\ Len(run') = Len(run) /\ DOMAIN task' = TaskId /\ Len(task') = Len(task)
  BY <1>0, <1>3, Tables, FunctionIsSequence
<1>5. TasksTyped' /\ RunsTyped'
  BY <1>0, <1>1, <1>2, <1>3, <1>4, TasksRewritten, RunsRewritten
<1>6. HandlersTyped'
  <2>1. Idle \in Operation /\ Idle.task = 0 /\ Idle.run = 0
    BY DEF Idle, Operation, PC
  <2>2. op' = [a \in Agent |-> Idle] /\ seen' = [a \in Agent |-> -1]
    BY DEF Restart
  <2> QED
    BY <1>0, <1>4, <2>1, <2>2 DEF HandlersTyped
<1> QED
  BY <1>0, <1>5, <1>6 DEF Restart, TypeOK

\* Every step of a handler keeps TypeOK.
LEMMA HandlerTyped ==
  ASSUME TypeOK, NEW a \in Agent, Handler(a)
  PROVE  TypeOK'
BY DispatchTyped, SteerTyped, StartTyped, RunBeginsTyped, RunStartedTyped, InterruptTyped, StopTyped
   DEF Handler

\* Every step keeps TypeOK, given that relays finish with outcomes only.
LEMMA StepTyped ==
  ASSUME TypeOK, RelayHoldsOutcome, [Next]_vars
  PROVE  TypeOK'
<1>1. ASSUME NEW a \in Agent, Submission(a) PROVE TypeOK'
  BY <1>1, SubmissionTyped
<1>2. ASSUME NEW a \in Agent, Request(a) PROVE TypeOK'
  BY <1>2, StartTyped, RequestTyped DEF Request
<1>3. ASSUME NEW a \in Agent, ClientGone(a) PROVE TypeOK'
  BY <1>3, RequestTyped
<1>4. ASSUME NEW a \in Agent, DispatchCollaboration(a) PROVE TypeOK'
  BY <1>4, DispatchTyped
<1>5. ASSUME NEW a \in Agent, Handler(a) PROVE TypeOK'
  BY <1>5, HandlerTyped
<1>6. CASE Restart
  BY <1>6, RestartTyped
<1>7. CASE Settled \/ UNCHANGED vars
  <2>1. UNCHANGED <<task, run, conv, archived, op, seen, inputs, silenced, crashes>>
    BY <1>7 DEF Settled, vars
  <2>2. Grows /\ inputs' \subseteq [task: Nat, run: Nat, how: {"start", "steer"}]
    BY <2>1, TablesUnchanged DEF TypeOK
  <2> QED
    BY <2>1, <2>2, UnlockedTyped
<1> QED
  BY <1>1, <1>2, <1>3, <1>4, <1>5, <1>6, <1>7, BackgroundTyped DEF Next

\* The initial state is typed.
LEMMA InitTyped == Init => TypeOK
<1> SUFFICES ASSUME Init PROVE TypeOK
  OBVIOUS
<1>1. /\ task = <<>> /\ run = <<>> /\ task \in Seq(Task) /\ run \in Seq(Run)
      /\ Len(task) = 0 /\ Len(run) = 0 /\ TaskId = {} /\ RunId = {}
  BY DEF Init, TaskId, RunId
<1>2. TasksTyped /\ RunsTyped
  BY <1>1 DEF TasksTyped, RunsTyped
<1>3. Idle \in Operation /\ Idle.task = 0 /\ Idle.run = 0
  BY DEF Idle, Operation, PC
<1>4. HandlersTyped
  BY <1>1, <1>3 DEF Init, HandlersTyped
<1> QED
  BY <1>2, <1>4 DEF Init, TypeOK
=============================================================================
