-------------------------- MODULE SchedulesProofs --------------------------
(***************************************************************************)
(* Proofs about Schedules, for every scenario, grace and page size:        *)
(* types; the invariant Inv, from which it follows that occurrences are    *)
(* accounted for; what a step may record; and the history.                 *)
(***************************************************************************)
EXTENDS Schedules, FiniteSetTheorems, TLAPS

\* The next multiple of n is the least one that lies behind.
LEMMA MultipleAfter ==
  ASSUME NEW n \in Nat, n # 0, NEW from \in Nat
  PROVE  LET m == (from \div n + 1) * n
         IN /\ m \in Nat /\ m > from
            /\ \E k \in 1..m : m = k * n
            /\ \A t \in Nat : (\E k \in 1..t : t = k * n) /\ from < t => m <= t
<1> DEFINE q == from \div n  m == (q + 1) * n
<1>1. q \in Nat /\ from = n * q + (from % n) /\ (from % n) \in 0..(n - 1)
  BY SMT
<1>2. m = n * q + n /\ n * q \in Nat
  BY <1>1, SMT
<1> HIDE DEF q, m
<1>3. m \in Nat /\ m > from
  BY <1>1, <1>2
<1>4. q + 1 <= m
  <2>1. \A x, y \in Nat : x >= 1 /\ y >= 1 => y <= x * y /\ x <= x * y
    BY SMT
  <2> QED
    BY <1>1, <2>1 DEF m
<1>5. \E k \in 1..m : m = k * n
  BY <1>1, <1>3, <1>4 DEF m
<1>6. ASSUME NEW t \in Nat, NEW k \in 1..t, t = k * n, from < t
      PROVE  m <= t
  <2>1. CASE k <= q
    <3>1. k * n <= q * n
      BY <1>1, <2>1, <1>6, SMT
    <3> QED
      BY <1>1, <1>2, <1>6, <3>1
  <2>2. CASE k >= q + 1
    BY <1>1, <1>6, <2>2, SMT DEF m
  <2> QED
    BY <1>1, <2>1, <2>2
<1> QED
  BY <1>3, <1>5, <1>6 DEF q, m

LEMMA ScheduleNextTyped ==
  ASSUME NEW e \in Expression, NEW from \in Nat
  PROVE  /\ ScheduleNext(e, from) \in Times
         /\ e.kind = "cron" => ScheduleNext(e, from) \in Nat
<1>1. e.kind \in {"once", "cron"} /\ e.n \in Nat
  BY DEF Expression
<1>2. CASE e.kind = "once"
  BY <1>1, <1>2 DEF ScheduleNext, Times, NoTime
<1>3. CASE e.kind = "cron" /\ e.n = 0
  BY <1>3 DEF ScheduleNext, Times, ZeroTime
<1>4. CASE e.kind = "cron" /\ e.n # 0
  <2>1. (from \div e.n + 1) * e.n \in Nat
    BY <1>1, <1>4, MultipleAfter
  <2> QED
    BY <1>4, <2>1 DEF ScheduleNext, Times
<1> QED
  BY <1>1, <1>2, <1>3, <1>4

LEMMA Appended ==
  ASSUME NEW S, NEW q \in Seq(S), NEW x \in S
  PROVE  /\ Append(q, x) \in Seq(S) /\ DOMAIN Append(q, x) = 1..(Len(q) + 1)
         /\ \A i \in 1..Len(q) : Append(q, x)[i] = q[i]
         /\ Append(q, x)[Len(q) + 1] = x
         /\ \A i \in 1..(Len(q) + 1) : i \in 1..Len(q) \/ i = Len(q) + 1
OBVIOUS

LEMMA TailOf ==
  ASSUME NEW S, NEW q \in Seq(S), q # <<>>
  PROVE  /\ Tail(q) \in Seq(S) /\ Len(q) # 1 => Tail(q) # <<>>
         /\ \A k \in DOMAIN Tail(q) : k + 1 \in DOMAIN q /\ Tail(q)[k] = q[k + 1]
<1>1. Len(q) \in Nat \ {0} /\ DOMAIN q = 1..Len(q)
  OBVIOUS
<1>2. Tail(q) \in Seq(S) /\ Len(Tail(q)) = Len(q) - 1 /\ DOMAIN Tail(q) = 1..(Len(q) - 1)
  OBVIOUS
<1>3. \A k \in 1..(Len(q) - 1) : Tail(q)[k] = q[k + 1]
  OBVIOUS
<1>4. Len(q) # 1 => Len(Tail(q)) # 0
  BY <1>1, <1>2
<1>5. Len(q) # 1 => Tail(q) # <<>>
  BY <1>4
<1> QED
  BY <1>1, <1>2, <1>3, <1>5

-----------------------------------------------------------------------------
(***************************************************************************)
(* Types, one part for each variable or group of variables.                *)
(***************************************************************************)

RowsTyped ==
  /\ schedule \in Seq(Schedule) /\ since \in [ScheduleId -> Nat]
  /\ \A s \in ScheduleId : schedule[s].enabled => schedule[s].next # NoTime

RunsTyped == run \in Seq(Run) /\ \A r \in RunId : run[r].schedule \in ScheduleId

AgentsTyped ==
  chat \in [Agent -> BOOLEAN] /\ human \in [Agent -> BOOLEAN] /\ archived \subseteq Agent

\* A handler that will enable a schedule has a time for it.
HandlersTyped ==
  /\ op \in [Agent -> Handler]
  /\ \A a \in Agent : op[a].pc = "update" => op[a].schedule \in ScheduleId
  /\ \A a \in Agent : op[a].pc \in {"insert", "update"} /\ op[a].enabled => op[a].next # NoTime

\* A scheduler that is awake has something to do.
SchedulerTyped ==
  /\ scheduler \in Scheduler
  /\ \A k \in DOMAIN scheduler.todo : scheduler.todo[k].schedule \in ScheduleId
  /\ scheduler.pc # "asleep" => scheduler.todo # <<>>

Typed ==
  /\ now \in Nat \ {0} /\ bound \in Scenario /\ page \in Page
  /\ RowsTyped /\ RunsTyped /\ AgentsTyped /\ HandlersTyped /\ SchedulerTyped

LEMMA TypedImpliesTypeOK == Typed => TypeOK
BY DEF Typed, TypeOK, RowsTyped, RunsTyped, AgentsTyped, HandlersTyped, SchedulerTyped

LEMMA IdleTyped == Idle \in Handler /\ Idle.pc = "idle"
BY DEF Idle, Handler, Expression, Times, NoTime

LEMMA InitTyped == Init => Typed
<1> SUFFICES ASSUME Init PROVE Typed
  OBVIOUS
<1>2. Asleep \in Scheduler /\ NoPage \in Page
  BY DEF Asleep, Scheduler, NoPage, Page
<1>3. ScheduleId = {} /\ RunId = {} /\ DOMAIN scheduler.todo = {}
  BY DEF Init, ScheduleId, RunId, Asleep
<1>4. HandlersTyped
  BY IdleTyped DEF Init, HandlersTyped
<1>5. RowsTyped /\ RunsTyped
  BY <1>3 DEF Init, RowsTyped, RunsTyped, ScheduleId, RunId
<1>6. AgentsTyped
  BY DEF Init, AgentsTyped
<1>7. SchedulerTyped
  BY <1>2, <1>3 DEF Init, SchedulerTyped, Asleep
<1> QED
  BY <1>2, <1>4, <1>5, <1>6, <1>7 DEF Init, Typed

\* What the steps that leave a part alone need to know of the others.
LEMMA RowsKept == ASSUME RowsTyped, UNCHANGED table PROVE RowsTyped' /\ ScheduleId' = ScheduleId
BY DEF RowsTyped, ScheduleId, table

LEMMA RunsKept ==
  ASSUME RunsTyped, run' = run, ScheduleId \subseteq ScheduleId' PROVE RunsTyped'
BY DEF RunsTyped, RunId

LEMMA AgentsKept == ASSUME AgentsTyped, UNCHANGED agents PROVE AgentsTyped'
BY DEF AgentsTyped, agents

LEMMA HandlersKept ==
  ASSUME HandlersTyped, op' = op, ScheduleId \subseteq ScheduleId' PROVE HandlersTyped'
BY DEF HandlersTyped

LEMMA SchedulerKept ==
  ASSUME SchedulerTyped, scheduler' = scheduler, ScheduleId \subseteq ScheduleId'
  PROVE  SchedulerTyped'
BY DEF SchedulerTyped

LEMMA HandlerTakesLock ==
  ASSUME HandlersTyped, NEW a \in Agent, NEW h \in Handler, op' = [op EXCEPT ![a] = h],
         ScheduleId \subseteq ScheduleId',
         h.pc = "update" => h.schedule \in ScheduleId',
         h.pc \in {"insert", "update"} /\ h.enabled => h.next # NoTime
  PROVE  HandlersTyped'
<1>1. op' \in [Agent -> Handler]
  BY DEF HandlersTyped
<1>2. \A b \in Agent : op'[b] = h \/ op'[b] = op[b]
  BY DEF HandlersTyped
<1> QED
  BY <1>1, <1>2 DEF HandlersTyped

LEMMA HandlerUnlocks ==
  ASSUME HandlersTyped, NEW a \in Agent, Unlocks(a), ScheduleId \subseteq ScheduleId'
  PROVE  HandlersTyped'
BY IdleTyped, HandlerTakesLock DEF Unlocks

LEMMA DueTyped ==
  ASSUME Typed, DueSchedules # {}, NEW q \in ByTime(DueSchedules)
  PROVE  /\ q \in Seq(Due) /\ q # <<>>
         /\ \A k \in DOMAIN q : q[k].schedule \in ScheduleId /\ q[k].next <= now
<1> DEFINE f == [s \in ScheduleId |-> [schedule |-> s, next |-> schedule[s].next]]
<1>1. IsFiniteSet(ScheduleId)
  <2>1. ScheduleId = 1..Len(schedule) /\ Len(schedule) \in Nat
    BY DEF Typed, RowsTyped, ScheduleId
  <2> QED
    BY <2>1, FS_Interval
<1>2. IsFiniteSet({f[s] : s \in ScheduleId})
  <2>1. f \in Surjection(ScheduleId, {f[s] : s \in ScheduleId})
    BY DEF Surjection
  <2> QED
    BY <1>1, <2>1, FS_Surjection
<1>3. DueSchedules \subseteq {f[s] : s \in ScheduleId}
  BY DEF DueSchedules
<1>4. IsFiniteSet(DueSchedules)
  BY <1>2, <1>3, FS_Subset
<1>5. Cardinality(DueSchedules) \in Nat /\ Cardinality(DueSchedules) # 0
  BY <1>4, FS_CardinalityType, FS_EmptySet
<1>6. \A d \in DueSchedules : d \in Due /\ d.schedule \in ScheduleId /\ d.next <= now
  <2> SUFFICES ASSUME NEW s \in ScheduleId, schedule[s].enabled, schedule[s].next <= now
               PROVE  [schedule |-> s, next |-> schedule[s].next] \in Due
    BY DEF DueSchedules
  <2>1. schedule[s] \in Schedule /\ schedule[s].next # NoTime /\ s \in Nat
    BY DEF Typed, RowsTyped, ScheduleId
  <2> QED
    BY <2>1 DEF Due, Schedule, Times
<1>7. q \in [1..Cardinality(DueSchedules) -> DueSchedules]
  BY DEF ByTime
<1>8. q \in [1..Cardinality(DueSchedules) -> Due]
  BY <1>6, <1>7
<1> HIDE DEF f
<1>9. q \in Seq(Due) /\ Len(q) = Cardinality(DueSchedules)
  BY <1>5, <1>8
<1> QED
  BY <1>5, <1>6, <1>7, <1>9

LEMMA RunTyped ==
  ASSUME Typed
  PROVE  \A r \in RunId : run[r] \in Run /\ run[r].schedule \in ScheduleId /\ run[r].for \in Nat
<1>1. run \in Seq(Run) /\ \A r \in RunId : run[r].schedule \in ScheduleId
  BY DEF Typed, RunsTyped
<1>2. \A r \in RunId : run[r] \in Run
  BY <1>1 DEF RunId
<1> QED
  BY <1>1, <1>2 DEF Run

LEMMA RowTyped ==
  ASSUME Typed
  PROVE  \A s \in ScheduleId :
           /\ schedule[s] \in Schedule /\ schedule[s].expression \in Expression
           /\ schedule[s].agent \in Agent /\ since[s] \in Nat /\ schedule[s].next \in Times
           /\ schedule[s].enabled => schedule[s].next \in Nat
<1>1. schedule \in Seq(Schedule) /\ since \in [ScheduleId -> Nat]
      /\ \A s \in ScheduleId : schedule[s].enabled => schedule[s].next # NoTime
  BY DEF Typed, RowsTyped
<1>2. \A s \in ScheduleId : schedule[s] \in Schedule
  BY <1>1 DEF ScheduleId
<1> QED
  BY <1>1, <1>2 DEF Schedule, Times

LEMMA RunIdFinite ==
  ASSUME Typed
  PROVE  IsFiniteSet(RunId) /\ RunId \subseteq Nat
<1>1. RunId = 1..Len(run) /\ Len(run) \in Nat
  BY DEF Typed, RunsTyped, RunId
<1> QED
  BY <1>1, FS_Interval

LEMMA NewestTyped ==
  ASSUME Typed, NEW rows \in SUBSET RunId, NEW q \in Newest(rows)
  PROVE  /\ Cardinality(rows) \in Nat
         /\ q \in Seq(rows) /\ q \in Seq(Nat)
         /\ Len(q) = IF Cardinality(rows) < PageSize THEN Cardinality(rows) ELSE PageSize
<1>1. Cardinality(rows) \in Nat
  BY RunIdFinite, FS_Subset, FS_CardinalityType
<1> DEFINE n == IF Cardinality(rows) < PageSize THEN Cardinality(rows) ELSE PageSize
<1>2. n \in Nat
  BY <1>1, SchedulesAssumption
<1>3. q \in [1..n -> rows]
  BY DEF Newest
<1>4. rows \subseteq Nat
  BY RunIdFinite
<1>5. q \in [1..n -> Nat]
  BY <1>3, <1>4
<1> HIDE DEF n
<1>6. q \in Seq(rows) /\ q \in Seq(Nat) /\ Len(q) = n
  BY <1>2, <1>3, <1>5
<1> QED
  BY <1>1, <1>6 DEF n

LEMMA CreateTyped ==
  ASSUME Typed, NEW a \in Agent, NEW e \in bound.entered, NEW enabled \in BOOLEAN,
         CreateSchedule(a, e, enabled)
  PROVE  Typed'
<1> DEFINE h == [Idle EXCEPT !.pc = "insert", !.expression = e, !.enabled = enabled,
                             !.next = ScheduleNext(e, now), !.from = now]
<1>1. e \in Expression /\ now \in Nat
  BY SchedulesAssumption DEF Typed
<1>2. ScheduleNext(e, now) \in Times
  BY <1>1, ScheduleNextTyped
<1>3. h \in Handler /\ h.pc = "insert" /\ h.next # NoTime
  BY <1>1, <1>2, IdleTyped DEF Handler, Idle, CreateSchedule
<1>4. op' = [op EXCEPT ![a] = h]
  BY DEF CreateSchedule, Locks
<1> HIDE DEF h
<1>5. RowsTyped' /\ ScheduleId' = ScheduleId
  BY RowsKept DEF Typed, CreateSchedule
<1>6. HandlersTyped'
  BY <1>3, <1>4, <1>5, HandlerTakesLock DEF Typed
<1>7. RunsTyped' /\ SchedulerTyped' /\ AgentsTyped'
  BY <1>5, RunsKept, SchedulerKept, AgentsKept DEF Typed, CreateSchedule
<1> QED
  BY <1>5, <1>6, <1>7 DEF Typed, CreateSchedule

LEMMA BeginTyped ==
  ASSUME Typed, NEW a \in Agent, NEW pc \in {"message", "takeover", "archive"}, Begin(a, pc)
  PROVE  Typed'
<1> DEFINE h == [Idle EXCEPT !.pc = pc]
<1>3. h \in Handler /\ h.pc \notin {"insert", "update"}
  BY IdleTyped DEF Handler, Idle
<1>4. op' = [op EXCEPT ![a] = h]
  BY DEF Begin, Locks
<1> HIDE DEF h
<1>5. RowsTyped' /\ ScheduleId' = ScheduleId
  BY RowsKept DEF Typed, Begin
<1>6. HandlersTyped'
  BY <1>3, <1>4, <1>5, HandlerTakesLock DEF Typed
<1>7. RunsTyped' /\ SchedulerTyped' /\ AgentsTyped'
  BY <1>5, RunsKept, SchedulerKept, AgentsKept DEF Typed, Begin
<1> QED
  BY <1>5, <1>6, <1>7 DEF Typed, Begin

LEMMA InsertTyped ==
  ASSUME Typed, NEW a \in Agent, Insert(a)
  PROVE  Typed'
<1> DEFINE row == [agent |-> a, expression |-> op[a].expression, exists |-> TRUE,
                   enabled |-> op[a].enabled, next |-> op[a].next]
           from == op[a].from
<1>1. op[a] \in Handler /\ (op[a].enabled => op[a].next # NoTime)
  BY DEF Typed, HandlersTyped, Insert
<1>2. row \in Schedule /\ from \in Nat /\ (row.enabled => row.next # NoTime)
  BY <1>1 DEF Schedule, Handler
<1>3. schedule' = Append(schedule, row) /\ since' = Append(since, from)
  BY DEF Insert
<1> HIDE DEF row, from
<1> DEFINE len == Len(schedule)
<1>4. schedule \in Seq(Schedule) /\ since \in Seq(Nat) /\ len \in Nat /\ Len(since) = len
      /\ ScheduleId = 1..len
  BY DEF Typed, RowsTyped, ScheduleId
<1>5. /\ schedule' \in Seq(Schedule) /\ ScheduleId' = 1..(len + 1)
      /\ since' \in [1..(len + 1) -> Nat]
      /\ \A s \in 1..len : schedule'[s] = schedule[s]
      /\ schedule'[len + 1] = row
  <2>1. /\ Append(schedule, row) \in Seq(Schedule)
        /\ DOMAIN Append(schedule, row) = 1..(len + 1)
        /\ \A s \in 1..len : Append(schedule, row)[s] = schedule[s]
        /\ Append(schedule, row)[len + 1] = row
    BY <1>2, <1>4, Appended
  <2>2. Append(since, from) \in Seq(Nat) /\ DOMAIN Append(since, from) = 1..(len + 1)
    BY <1>2, <1>4, Appended
  <2>3. Append(since, from) \in [1..(len + 1) -> Nat]
    <3>1. \A q \in Seq(Nat) : q \in [DOMAIN q -> Nat]
      OBVIOUS
    <3> QED
      BY <2>2, <3>1
  <2> QED
    BY <1>3, <2>1, <2>3 DEF ScheduleId
<1> HIDE DEF len
<1>6. RowsTyped' /\ ScheduleId \subseteq ScheduleId'
  <2>1. \A s \in 1..(len + 1) : s \in 1..len \/ s = len + 1
    BY <1>4
  <2>2. \A s \in ScheduleId' : schedule'[s].enabled => schedule'[s].next # NoTime
    BY <1>2, <1>4, <1>5, <2>1 DEF Typed, RowsTyped
  <2> QED
    BY <1>4, <1>5, <2>2 DEF RowsTyped
<1>7. HandlersTyped'
  BY <1>6, HandlerUnlocks DEF Typed, Insert
<1>8. RunsTyped' /\ SchedulerTyped' /\ AgentsTyped'
  BY <1>6, RunsKept, SchedulerKept, AgentsKept DEF Typed, Insert
<1> QED
  BY <1>6, <1>7, <1>8 DEF Typed, Insert, bounds

\* A row gets another content of its type.
LEMMA RowBecomes ==
  ASSUME RowsTyped, NEW s \in ScheduleId, NEW row \in Schedule, row.enabled => row.next # NoTime,
         schedule' = [schedule EXCEPT ![s] = row], since' \in [ScheduleId -> Nat]
  PROVE  RowsTyped' /\ ScheduleId' = ScheduleId
<1>1. schedule' \in Seq(Schedule) /\ ScheduleId' = ScheduleId
  BY DEF RowsTyped, ScheduleId
<1>2. \A t \in ScheduleId : schedule'[t] = row \/ schedule'[t] = schedule[t]
  BY DEF RowsTyped, ScheduleId
<1> QED
  BY <1>1, <1>2 DEF RowsTyped

LEMMA SetEnabledTyped ==
  ASSUME Typed, NEW a \in Agent, SetScheduleEnabled(a)
  PROVE  Typed'
<1> DEFINE s == op[a].schedule
           from == op[a].from
           row == [schedule[s] EXCEPT !.enabled = op[a].enabled, !.next = op[a].next]
<1>1. op[a] \in Handler /\ (op[a].enabled => op[a].next # NoTime) /\ s \in ScheduleId
  BY DEF Typed, HandlersTyped, SetScheduleEnabled
<1>2. schedule[s] \in Schedule /\ since \in [ScheduleId -> Nat]
  BY <1>1 DEF Typed, RowsTyped, ScheduleId
<1>3. row \in Schedule /\ from \in Nat /\ (row.enabled => row.next # NoTime)
  BY <1>1, <1>2 DEF Schedule, Handler
<1>4. \/ schedule' = [schedule EXCEPT ![s] = row] /\ since' = [since EXCEPT ![s] = from]
      \/ UNCHANGED table
  BY DEF SetScheduleEnabled
<1> HIDE DEF row, from, s
<1>5. RowsTyped' /\ ScheduleId' = ScheduleId
  BY <1>1, <1>2, <1>3, <1>4, RowBecomes, RowsKept DEF Typed
<1>7. HandlersTyped'
  BY <1>5, HandlerUnlocks DEF Typed, SetScheduleEnabled
<1>8. RunsTyped' /\ SchedulerTyped' /\ AgentsTyped'
  BY <1>5, RunsKept, SchedulerKept, AgentsKept DEF Typed, SetScheduleEnabled
<1> QED
  BY <1>5, <1>7, <1>8 DEF Typed, SetScheduleEnabled, bounds

LEMMA MessageTyped ==
  ASSUME Typed, NEW a \in Agent, Message(a)
  PROVE  Typed'
<1>5. RowsTyped' /\ ScheduleId' = ScheduleId
  BY RowsKept DEF Typed, Message
<1>6. AgentsTyped'
  <2>1. (chat[a] \/ ~(Busy(a) \/ human[a])) \in BOOLEAN
    BY DEF Typed, AgentsTyped
  <2> QED
    BY <2>1 DEF Typed, AgentsTyped, Message
<1>7. HandlersTyped'
  BY <1>5, HandlerUnlocks DEF Typed, Message
<1>8. RunsTyped' /\ SchedulerTyped'
  BY <1>5, RunsKept, SchedulerKept DEF Typed, Message
<1> QED
  BY <1>5, <1>6, <1>7, <1>8 DEF Typed, Message, bounds

\* Runs end, and nothing else of them changes.
LEMMA InterruptedTyped ==
  ASSUME Typed, NEW a \in Agent, Interrupted(a), ScheduleId' = ScheduleId
  PROVE  RunsTyped' /\ chat' \in [Agent -> BOOLEAN]
<1>1. run \in Seq(Run) /\ chat \in [Agent -> BOOLEAN]
  BY DEF Typed, RunsTyped, AgentsTyped
<1>2. chat' \in [Agent -> BOOLEAN]
  BY <1>1 DEF Interrupted
<1>3. \A r \in RunId : run[r] \in Run
  BY <1>1 DEF RunId
<1>4. \A r \in RunId : [run[r] EXCEPT !.status = "ended"] \in Run
  BY <1>3 DEF Run
<1>5. run' \in [RunId -> Run] /\ \A r \in RunId : run'[r].schedule = run[r].schedule
  BY <1>3, <1>4 DEF Interrupted, Run
<1>6. run' \in Seq(Run) /\ RunId' = RunId
  BY <1>1, <1>5 DEF RunId
<1> QED
  BY <1>2, <1>5, <1>6 DEF Typed, RunsTyped

LEMMA TakeoverTyped ==
  ASSUME Typed, NEW a \in Agent, Takeover(a)
  PROVE  Typed'
<1>5. RowsTyped' /\ ScheduleId' = ScheduleId
  BY RowsKept DEF Typed, Takeover
<1>6. RunsTyped' /\ AgentsTyped'
  BY <1>5, InterruptedTyped DEF Typed, AgentsTyped, Takeover, TakesDesktop
<1>7. HandlersTyped'
  BY <1>5, HandlerUnlocks DEF Typed, Takeover
<1>8. SchedulerTyped'
  BY <1>5, SchedulerKept DEF Typed, Takeover
<1> QED
  BY <1>5, <1>6, <1>7, <1>8 DEF Typed, Takeover, bounds

LEMMA ArchiveTyped ==
  ASSUME Typed, NEW a \in Agent, ArchiveAgent(a)
  PROVE  Typed'
<1>1. schedule \in Seq(Schedule) /\ \A s \in ScheduleId : schedule[s] \in Schedule
  BY DEF Typed, RowsTyped, ScheduleId
<1>2. \A s \in ScheduleId :
         /\ Disabled(schedule[s]) \in Schedule /\ ~Disabled(schedule[s]).enabled
         /\ schedule'[s] = schedule[s] \/ schedule'[s] = Disabled(schedule[s])
  BY <1>1 DEF ArchiveAgent, Disabled, Schedule, Times, NoTime
<1>3. schedule' \in [ScheduleId -> Schedule]
  BY <1>1, <1>2 DEF ArchiveAgent
<1>4. schedule' \in Seq(Schedule) /\ ScheduleId' = ScheduleId
  BY <1>1, <1>3 DEF ScheduleId
<1>5. RowsTyped'
  BY <1>2, <1>4 DEF Typed, RowsTyped, ArchiveAgent
<1>6. RunsTyped' /\ AgentsTyped'
  BY <1>4, InterruptedTyped DEF Typed, AgentsTyped, ArchiveAgent
<1>7. HandlersTyped'
  BY <1>4, HandlerUnlocks DEF Typed, ArchiveAgent
<1>8. SchedulerTyped'
  BY <1>4, SchedulerKept DEF Typed, ArchiveAgent
<1> QED
  BY <1>5, <1>6, <1>7, <1>8 DEF Typed, ArchiveAgent, bounds
LEMMA UpdateTyped ==
  ASSUME Typed, NEW s \in ScheduleId, NEW enabled \in BOOLEAN, UpdateSchedule(s, enabled)
  PROVE  Typed'
<1> DEFINE a == schedule[s].agent
           h == [Idle EXCEPT !.pc = "update", !.schedule = s, !.enabled = enabled,
                             !.next = NextIf(enabled, s), !.from = now]
<1>1. schedule[s] \in Schedule /\ s \in Nat /\ now \in Nat
  BY DEF Typed, RowsTyped, ScheduleId
<1>2. a \in Agent /\ schedule[s].expression \in Expression
  BY <1>1 DEF Schedule
<1>3. NextIf(enabled, s) \in Times
  BY <1>1, <1>2, ScheduleNextTyped DEF NextIf, Times
<1>4. h \in Handler /\ h.pc = "update" /\ h.schedule = s /\ (h.enabled => h.next # NoTime)
  BY <1>1, <1>3, IdleTyped DEF Handler, Idle, UpdateSchedule
<1>5. op' = [op EXCEPT ![a] = h]
  BY DEF UpdateSchedule, Locks
<1> HIDE DEF h, a
<1>6. RowsTyped' /\ ScheduleId' = ScheduleId
  BY RowsKept DEF Typed, UpdateSchedule
<1>7. HandlersTyped'
  BY <1>2, <1>4, <1>5, <1>6, HandlerTakesLock DEF Typed
<1>8. RunsTyped' /\ SchedulerTyped' /\ AgentsTyped'
  BY <1>6, RunsKept, SchedulerKept, AgentsKept DEF Typed, UpdateSchedule
<1> QED
  BY <1>6, <1>7, <1>8 DEF Typed, UpdateSchedule

LEMMA DeleteTyped ==
  ASSUME Typed, NEW s \in ScheduleId, DeleteSchedule(s)
  PROVE  Typed'
<1> DEFINE row == [schedule[s] EXCEPT !.exists = FALSE, !.enabled = FALSE]
<1>1. schedule[s] \in Schedule
  BY DEF Typed, RowsTyped, ScheduleId
<1>2. row \in Schedule /\ ~row.enabled
  BY <1>1 DEF Schedule
<1>3. schedule' = [schedule EXCEPT ![s] = row] /\ since' = since
  BY DEF DeleteSchedule
<1> HIDE DEF row
<1>4. RowsTyped' /\ ScheduleId' = ScheduleId
  <2>1. since' \in [ScheduleId -> Nat]
    BY <1>3 DEF Typed, RowsTyped
  <2> QED
    BY <1>2, <1>3, <2>1, RowBecomes DEF Typed
<1>5. HandlersTyped' /\ RunsTyped' /\ SchedulerTyped' /\ AgentsTyped'
  BY <1>4, HandlersKept, RunsKept, SchedulerKept, AgentsKept DEF Typed, DeleteSchedule
<1> QED
  BY <1>4, <1>5 DEF Typed, DeleteSchedule

\* Time passes, a desktop or the agent returns, the scheduler moves.
LEMMA TickTyped == ASSUME Typed, Tick PROVE Typed'
<1>1. RowsTyped' /\ ScheduleId' = ScheduleId /\ bound' = bound /\ page' = page
  BY RowsKept DEF Typed, Tick, bounds
<1>2. HandlersTyped' /\ RunsTyped' /\ SchedulerTyped' /\ AgentsTyped'
  BY <1>1, HandlersKept, RunsKept, SchedulerKept, AgentsKept DEF Typed, Tick
<1>3. now' \in Nat \ {0}
  BY DEF Typed, Tick
<1> QED
  BY <1>1, <1>2, <1>3 DEF Typed

LEMMA AgentReturnsTyped ==
  ASSUME Typed, NEW a \in Agent, DesktopReturns(a) \/ ChatEnds(a)
  PROVE  Typed'
<1>1. RowsTyped' /\ ScheduleId' = ScheduleId
  BY RowsKept DEF Typed, DesktopReturns, ChatEnds
<1>2. HandlersTyped' /\ RunsTyped' /\ SchedulerTyped'
  BY <1>1, HandlersKept, RunsKept, SchedulerKept DEF Typed, DesktopReturns, ChatEnds
<1>3. AgentsTyped'
  BY DEF Typed, AgentsTyped, DesktopReturns, ChatEnds
<1> QED
  BY <1>1, <1>2, <1>3 DEF Typed, DesktopReturns, ChatEnds, bounds

\* A run gets another status.
LEMMA StatusTyped ==
  ASSUME RunsTyped, NEW r \in RunId, NEW status \in {"queued", "running", "ended"},
         run' = [run EXCEPT ![r].status = status], ScheduleId' = ScheduleId
  PROVE  /\ RunsTyped' /\ RunId' = RunId
         /\ \A q \in RunId : run'[q].schedule = run[q].schedule /\ run'[q].for = run[q].for
<1>1. run \in Seq(Run) /\ run[r] \in Run
  BY DEF RunsTyped, RunId
<1> DEFINE row == [run[r] EXCEPT !.status = status]
<1>2. row \in Run /\ row.schedule = run[r].schedule /\ row.for = run[r].for
  BY <1>1 DEF Run
<1>3. run' = [run EXCEPT ![r] = row]
  OBVIOUS
<1> HIDE DEF row
<1>4. run' \in Seq(Run) /\ RunId' = RunId
  BY <1>1, <1>2, <1>3 DEF RunId
<1>5. \A q \in RunId : run'[q] = IF q = r THEN row ELSE run[q]
  BY <1>1, <1>3 DEF RunId
<1> QED
  BY <1>2, <1>4, <1>5 DEF RunsTyped

LEMMA RunEndsTyped ==
  ASSUME Typed, NEW r \in RunId, RunEnds(r)
  PROVE  Typed'
<1>1. RowsTyped' /\ ScheduleId' = ScheduleId
  BY RowsKept DEF Typed, RunEnds
<1>2. HandlersTyped' /\ AgentsTyped' /\ SchedulerTyped'
  BY <1>1, HandlersKept, AgentsKept, SchedulerKept DEF Typed, RunEnds
<1>3. RunsTyped'
  BY <1>1, StatusTyped DEF Typed, RunEnds
<1> QED
  BY <1>1, <1>2, <1>3 DEF Typed, RunEnds, bounds

LEMMA AsleepTyped ==
  ASSUME scheduler' = Asleep
  PROVE  SchedulerTyped'
BY DEF SchedulerTyped, Asleep, Scheduler

LEMMA RestartTyped == ASSUME Typed, Restart PROVE Typed'
<1>1. RowsTyped' /\ ScheduleId' = ScheduleId
  BY RowsKept DEF Typed, Restart
<1>2. RunsTyped' /\ AgentsTyped'
  BY <1>1, RunsKept, AgentsKept DEF Typed, Restart
<1>3. HandlersTyped' /\ SchedulerTyped'
  BY IdleTyped, AsleepTyped DEF HandlersTyped, Restart
<1> QED
  BY <1>1, <1>2, <1>3 DEF Typed, Restart

LEMMA ScanTyped == ASSUME Typed, Scan PROVE Typed'
<1>1. RowsTyped' /\ ScheduleId' = ScheduleId
  BY RowsKept DEF Typed, Scan
<1>2. HandlersTyped' /\ RunsTyped' /\ AgentsTyped'
  BY <1>1, HandlersKept, RunsKept, AgentsKept DEF Typed, Scan
<1>3. PICK q \in ByTime(DueSchedules) : scheduler' = [Asleep EXCEPT !.pc = "next", !.todo = q]
  BY DEF Scan
<1>4. q \in Seq(Due) /\ q # <<>> /\ \A k \in DOMAIN q : q[k].schedule \in ScheduleId
  BY <1>3, DueTyped DEF Scan
<1>5. scheduler' \in Scheduler /\ scheduler'.todo = q
  BY <1>3, <1>4 DEF Scheduler, Asleep
<1>6. SchedulerTyped'
  BY <1>1, <1>4, <1>5 DEF SchedulerTyped
<1> QED
  BY <1>1, <1>2, <1>6 DEF Typed, Scan, bounds

\* What is left of the list is the end of it.
LEMMA ReturnsTyped ==
  ASSUME SchedulerTyped, scheduler.pc # "asleep", Returns, ScheduleId \subseteq ScheduleId'
  PROVE  /\ SchedulerTyped' /\ scheduler'.pc \in {"asleep", "next"}
         /\ \A k \in DOMAIN scheduler'.todo :
              k + 1 \in DOMAIN scheduler.todo /\ scheduler'.todo[k] = scheduler.todo[k + 1]
<1>1. scheduler.todo \in Seq(Due) /\ scheduler.todo # <<>>
  BY DEF SchedulerTyped, Scheduler
<1>2. CASE Len(scheduler.todo) = 1
  <2>1. scheduler' = Asleep
    BY <1>2 DEF Returns
  <2>2. DOMAIN scheduler'.todo = {} /\ scheduler'.pc = "asleep"
    BY <2>1 DEF Asleep
  <2> QED
    BY <2>1, <2>2, AsleepTyped
<1>3. CASE Len(scheduler.todo) # 1
  <2> DEFINE rest == Tail(scheduler.todo)
  <2>1. scheduler' = [pc |-> "next", todo |-> rest, busy |-> FALSE]
    BY <1>3 DEF Returns, Asleep
  <2>2. /\ rest \in Seq(Due) /\ rest # <<>>
        /\ \A k \in DOMAIN rest :
             k + 1 \in DOMAIN scheduler.todo /\ rest[k] = scheduler.todo[k + 1]
    BY <1>1, <1>3, TailOf
  <2> HIDE DEF rest
  <2>3. \A k \in DOMAIN rest : rest[k].schedule \in ScheduleId'
    BY <2>2 DEF SchedulerTyped
  <2>4. SchedulerTyped'
    BY <2>1, <2>2, <2>3 DEF SchedulerTyped, Scheduler
  <2> QED
    BY <2>1, <2>2, <2>4
<1> QED
  BY <1>2, <1>3

LEMMA CurrentTyped ==
  ASSUME Typed, scheduler.pc # "asleep"
  PROVE  /\ 1 \in DOMAIN scheduler.todo /\ Current = scheduler.todo[1] /\ Current \in Due
         /\ Current.schedule \in ScheduleId /\ Current.next \in Nat /\ AgentOfCurrent \in Agent
<1>1. scheduler.todo \in Seq(Due) /\ scheduler.todo # <<>>
  BY DEF Typed, SchedulerTyped, Scheduler
<1>2. 1 \in DOMAIN scheduler.todo /\ Current = scheduler.todo[1] /\ Current \in Due
  BY <1>1 DEF Current
<1>3. Current.schedule \in ScheduleId /\ Current.next \in Nat
  BY <1>2 DEF Typed, SchedulerTyped, Due
<1>4. schedule[Current.schedule] \in Schedule
  BY <1>3 DEF Typed, RowsTyped, ScheduleId
<1> QED
  BY <1>2, <1>3, <1>4 DEF AgentOfCurrent, Schedule

LEMMA LockAgentTyped == ASSUME Typed, LockAgent PROVE Typed'
<1>1. RowsTyped' /\ ScheduleId' = ScheduleId
  BY RowsKept DEF Typed, LockAgent
<1>2. HandlersTyped' /\ RunsTyped' /\ AgentsTyped'
  BY <1>1, HandlersKept, RunsKept, AgentsKept DEF Typed, LockAgent
<1>3. SchedulerTyped'
  BY <1>1 DEF Typed, LockAgent, SchedulerTyped, Scheduler
<1> QED
  BY <1>1, <1>2, <1>3 DEF Typed, LockAgent, bounds

LEMMA DecideTyped == ASSUME Typed, Decide PROVE Typed'
<1>1. RowsTyped' /\ ScheduleId' = ScheduleId
  BY RowsKept DEF Typed, Decide
<1>2. HandlersTyped' /\ RunsTyped' /\ AgentsTyped'
  BY <1>1, HandlersKept, RunsKept, AgentsKept DEF Typed, Decide
<1>3. CASE Returns
  BY <1>1, <1>2, <1>3, ReturnsTyped DEF Typed, Decide, bounds
<1>4. CASE scheduler' = [scheduler EXCEPT !.pc = "claim", !.busy = Occupied(AgentOfCurrent)]
  <2>1. Occupied(AgentOfCurrent) \in BOOLEAN
    <3>1. scheduler.pc # "asleep"
      BY DEF Decide
    <3>2. human[AgentOfCurrent] \in BOOLEAN /\ chat[AgentOfCurrent] \in BOOLEAN
      BY <3>1, CurrentTyped DEF Typed, AgentsTyped
    <3> QED
      BY <3>2 DEF Occupied, Busy
  <2>2. SchedulerTyped'
    BY <1>1, <1>4, <2>1 DEF Typed, Decide, SchedulerTyped, Scheduler
  <2> QED
    BY <1>1, <1>2, <2>2 DEF Typed, Decide, bounds
<1> QED
  BY <1>3, <1>4 DEF Decide
LEMMA RunAppended ==
  ASSUME RunsTyped, NEW row \in Run, row.schedule \in ScheduleId, run' = Append(run, row),
         ScheduleId' = ScheduleId
  PROVE  /\ RunsTyped' /\ RunId' = RunId \cup {Len(run) + 1} /\ Len(run) + 1 \notin RunId
         /\ RunId \subseteq Nat /\ \A r \in RunId : run'[r] = run[r]
         /\ run'[Len(run) + 1] = row
<1>1. run \in Seq(Run) /\ RunId = 1..Len(run) /\ Len(run) \in Nat
  BY DEF RunsTyped, RunId
<1>2. /\ run' \in Seq(Run) /\ RunId' = 1..(Len(run) + 1)
      /\ \A r \in 1..Len(run) : run'[r] = run[r]
      /\ run'[Len(run) + 1] = row
  BY <1>1, Appended DEF RunId
<1> HIDE DEF RunId
<1> DEFINE n == Len(run)
<1>3. n \in Nat /\ n + 1 \notin 1..n /\ 1..(n + 1) = 1..n \cup {n + 1}
  BY <1>1
<1> HIDE DEF n
<1>4. RunsTyped'
  BY <1>1, <1>2, <1>3 DEF RunsTyped, n
<1> QED
  BY <1>1, <1>2, <1>3, <1>4 DEF n

\* What a claim that succeeds writes.
Claimed(status, row, claim) ==
  /\ status = IF scheduler.busy THEN "skipped_overlap" ELSE "queued"
  /\ row = [schedule[Current.schedule] EXCEPT
              !.enabled = @ /\ schedule[Current.schedule].expression.kind = "cron",
              !.next = Following(Current.schedule, Current.next)]
  /\ claim = [schedule |-> Current.schedule, for |-> Current.next, status |-> status]
  /\ row \in Schedule /\ claim \in Run
  /\ row.agent = schedule[Current.schedule].agent
  /\ row.expression = schedule[Current.schedule].expression
  /\ row.enabled => row.next # NoTime
  /\ schedule' = [schedule EXCEPT ![Current.schedule] = row]
  /\ run' = Append(run, claim)

LEMMA ClaimCases ==
  ASSUME Typed, Claim
  PROVE  \/ /\ Unchanged(Current) /\ Admitted(Current)
            /\ \E status, row, claim : Claimed(status, row, claim)
            /\ IF scheduler.busy THEN Returns ELSE scheduler' = [scheduler EXCEPT !.pc = "start"]
         \/ Returns /\ UNCHANGED <<schedule, run>>
<1> DEFINE s == Current.schedule
           status == IF scheduler.busy THEN "skipped_overlap" ELSE "queued"
           row == [schedule[s] EXCEPT !.enabled = @ /\ schedule[s].expression.kind = "cron",
                                      !.next = Following(s, Current.next)]
           claim == [schedule |-> s, for |-> Current.next, status |-> status]
<1>1. Current \in Due /\ s \in ScheduleId /\ s \in Nat /\ Current.next \in Nat
  BY CurrentTyped DEF Claim, Due
<1>2. schedule[s] \in Schedule
  BY <1>1 DEF Typed, RowsTyped, ScheduleId
<1>3. schedule[s].expression \in Expression /\ schedule[s].enabled \in BOOLEAN
  BY <1>2 DEF Schedule
<1>4. /\ Following(s, Current.next) \in Times
      /\ schedule[s].expression.kind = "cron" => Following(s, Current.next) # NoTime
  BY <1>1, <1>3, ScheduleNextTyped DEF Following, Times, NoTime
<1>5. /\ row \in Schedule /\ row.agent = schedule[s].agent
      /\ row.expression = schedule[s].expression /\ (row.enabled => row.next # NoTime)
  BY <1>2, <1>3, <1>4 DEF Schedule
<1>6. claim \in Run
  BY <1>1 DEF Run
<1>7. CASE Unchanged(Current) /\ Admitted(Current)
  <2>1. schedule' = [schedule EXCEPT ![s] = row] /\ run' = Append(run, claim)
    BY <1>7 DEF Claim
  <2>2. Claimed(status, row, claim)
    BY <1>5, <1>6, <2>1 DEF Claimed
  <2>3. IF scheduler.busy THEN Returns ELSE scheduler' = [scheduler EXCEPT !.pc = "start"]
    BY <1>7 DEF Claim
  <2> HIDE DEF status, row, claim
  <2> QED
    BY <1>7, <2>2, <2>3
<1>8. CASE ~(Unchanged(Current) /\ Admitted(Current))
  BY <1>8 DEF Claim
<1> QED
  BY <1>7, <1>8

LEMMA ClaimedTyped ==
  ASSUME Typed, Claim, NEW status, NEW row, NEW claim, Claimed(status, row, claim)
  PROVE  RowsTyped' /\ RunsTyped' /\ ScheduleId' = ScheduleId
<1>1. Current.schedule \in ScheduleId /\ claim.schedule = Current.schedule
  BY CurrentTyped DEF Claim, Claimed
<1>2. since' \in [ScheduleId -> Nat]
  BY DEF Claim, Typed, RowsTyped
<1>3. RowsTyped' /\ ScheduleId' = ScheduleId
  BY <1>1, <1>2, RowBecomes DEF Typed, Claimed
<1>4. RunsTyped'
  BY <1>1, <1>3, RunAppended DEF Typed, Claimed
<1> QED
  BY <1>3, <1>4

LEMMA ClaimTyped == ASSUME Typed, Claim PROVE Typed'
<1>1. RowsTyped' /\ RunsTyped' /\ ScheduleId' = ScheduleId
  <2>1. CASE \E status, row, claim : Claimed(status, row, claim)
    BY <2>1, ClaimedTyped
  <2>2. CASE UNCHANGED <<schedule, run>>
    <3>1. RowsTyped' /\ ScheduleId' = ScheduleId
      BY <2>2, RowsKept DEF Typed, Claim, table
    <3> QED
      BY <2>2, <3>1, RunsKept DEF Typed
  <2> QED
    BY <2>1, <2>2, ClaimCases
<1>2. HandlersTyped' /\ AgentsTyped'
  BY <1>1, HandlersKept, AgentsKept DEF Typed, Claim
<1>3. SchedulerTyped'
  <2>1. CASE Returns
    BY <1>1, <2>1, ReturnsTyped DEF Typed, Claim
  <2>2. CASE scheduler' = [scheduler EXCEPT !.pc = "start"]
    BY <1>1, <2>2 DEF Typed, Claim, SchedulerTyped, Scheduler
  <2> QED
    BY <2>1, <2>2, ClaimCases
<1> QED
  BY <1>1, <1>2, <1>3 DEF Typed, Claim, bounds
LEMMA StartKeeps ==
  ASSUME Typed, Start
  PROVE  /\ RowsTyped' /\ ScheduleId' = ScheduleId /\ RunsTyped' /\ RunId' = RunId
         /\ \A q \in RunId : run'[q].schedule = run[q].schedule /\ run'[q].for = run[q].for
<1>1. RowsTyped' /\ ScheduleId' = ScheduleId
  BY RowsKept DEF Typed, Start
<1>2. PICK status \in {"running", "ended"} : run' = [run EXCEPT ![Len(run)].status = status]
  BY DEF Start
<1>3. run \in Seq(Run)
  BY DEF Typed, RunsTyped
<1>4. CASE run = <<>>
  <2>1. run' = run
    BY <1>2, <1>4
  <2> QED
    BY <1>1, <2>1, RunsKept DEF Typed, RunId
<1>5. CASE run # <<>>
  <2>1. Len(run) \in RunId
    BY <1>3, <1>5 DEF RunId
  <2> QED
    BY <1>1, <1>2, <2>1, StatusTyped DEF Typed
<1> QED
  BY <1>4, <1>5

LEMMA StartTyped == ASSUME Typed, Start PROVE Typed'
<1>1. RowsTyped' /\ ScheduleId' = ScheduleId /\ RunsTyped'
  BY StartKeeps
<1>2. HandlersTyped' /\ AgentsTyped'
  BY <1>1, HandlersKept, AgentsKept DEF Typed, Start
<1>3. SchedulerTyped'
  BY <1>1, ReturnsTyped DEF Typed, Start
<1> QED
  BY <1>1, <1>2, <1>3 DEF Typed, Start, bounds

LEMMA PageTyped ==
  ASSUME Typed, NEW s \in Nat, NEW rows \in SUBSET RunId, ScheduleRuns(s, rows)
  PROVE  page' \in Page
<1>1. PICK q \in Newest(rows) :
        page' = [page EXCEPT !.pc = IF Cardinality(rows) > PageSize THEN "reading" ELSE "done",
                             !.schedule = s, !.got = @ \o q,
                             !.first = IF page.pc = "none" THEN Len(run) ELSE @]
  BY DEF ScheduleRuns
<1>2. q \in Seq(Nat)
  BY <1>1, NewestTyped
<1>3. page \in Page /\ page.got \in Seq(Nat) /\ Len(run) \in Nat
  BY DEF Typed, Page, RunsTyped
<1>4. page.got \o q \in Seq(Nat)
  BY <1>2, <1>3
<1> QED
  BY <1>1, <1>3, <1>4 DEF Page

LEMMA PagesTyped ==
  ASSUME Typed, NextPage \/ \E s \in ScheduleId : FirstPage(s)
  PROVE  Typed'
<1>1. RowsTyped' /\ ScheduleId' = ScheduleId
  BY RowsKept DEF Typed, NextPage, FirstPage
<1>2. HandlersTyped' /\ RunsTyped' /\ AgentsTyped' /\ SchedulerTyped'
  BY <1>1, HandlersKept, RunsKept, AgentsKept, SchedulerKept DEF Typed, NextPage, FirstPage
<1>3. page' \in Page
  <2>1. ASSUME NEW s \in ScheduleId, FirstPage(s)
        PROVE  page' \in Page
    <3>1. s \in Nat /\ RunsOf(s) \in SUBSET RunId
      BY DEF Typed, RowsTyped, ScheduleId, RunsOf
    <3> QED
      BY <2>1, <3>1, PageTyped DEF FirstPage
  <2>2. ASSUME NextPage
        PROVE  page' \in Page
    <3>1. page.schedule \in Nat /\ Remaining \in SUBSET RunId
      BY DEF Typed, Page, Remaining, RunsOf, Behind
    <3> QED
      BY <2>2, <3>1, PageTyped DEF NextPage
  <2> QED
    BY <2>1, <2>2
<1> QED
  BY <1>1, <1>2, <1>3 DEF Typed, NextPage, FirstPage, bounds

LEMMA HandlerStepTyped ==
  ASSUME Typed, NEW a \in Agent, HandlerStep(a)
  PROVE  Typed'
BY InsertTyped, SetEnabledTyped, MessageTyped, TakeoverTyped, ArchiveTyped, Zenon DEF HandlerStep

LEMMA RequestTyped ==
  ASSUME Typed, NEW a \in Agent, Request(a)
  PROVE  Typed'
BY CreateTyped, BeginTyped, Zenon DEF Request

LEMMA EditTyped ==
  ASSUME Typed, NEW s \in ScheduleId, Edit(s)
  PROVE  Typed'
BY DeleteTyped, UpdateTyped, Zenon DEF Edit

LEMMA SchedulerStepTyped == ASSUME Typed, SchedulerStep PROVE Typed'
BY ScanTyped, DecideTyped, ClaimTyped, StartTyped, Zenon DEF SchedulerStep

LEMMA StutterTyped == ASSUME Typed, UNCHANGED vars PROVE Typed'
<1>1. RowsTyped' /\ ScheduleId' = ScheduleId
  BY RowsKept DEF Typed, vars
<1> QED
  BY <1>1, HandlersKept, RunsKept, AgentsKept, SchedulerKept DEF Typed, vars, bounds

LEMMA NextTyped == ASSUME Typed, [Next]_vars PROVE Typed'
<1>1. CASE \E a \in Agent : Request(a) \/ HandlerStep(a) \/ DesktopReturns(a) \/ ChatEnds(a)
  BY <1>1, RequestTyped, HandlerStepTyped, AgentReturnsTyped, Zenon
<1>2. CASE \E s \in ScheduleId : Edit(s) \/ FirstPage(s)
  BY <1>2, EditTyped, PagesTyped, Zenon
<1>3. CASE \E r \in RunId : RunEnds(r)
  BY <1>3, RunEndsTyped, Zenon
<1>4. CASE Tick \/ SchedulerStep \/ LockAgent \/ Restart \/ NextPage
  BY <1>4, TickTyped, SchedulerStepTyped, LockAgentTyped, RestartTyped, PagesTyped, Zenon
<1>5. CASE UNCHANGED vars
  BY <1>5, StutterTyped
<1> QED
  BY <1>1, <1>2, <1>3, <1>4, <1>5 DEF Next

\* Type correctness: the rows, the runs, the handlers, the scheduler's list and the pages are
\* always of their types, and an enabled schedule has a time.
THEOREM TypeCorrect == Spec => []TypeOK
<1>1. Spec => []Typed
  BY InitTyped, NextTyped, PTL DEF Spec
<1> QED
  BY <1>1, TypedImpliesTypeOK, PTL
-----------------------------------------------------------------------------
(***************************************************************************)
(* The invariant.                                                          *)
(***************************************************************************)

\* Whoever holds the lock of an agent: one of the handlers or the scheduler, and the agent is not
\* deleted under a handler.
LocksExclude ==
  \A a \in Agent : op[a].pc # "idle" => a \notin archived /\ ~HeldByScheduler(a)

\* The expression a handler computes with.
ExpressionOf(a) ==
  IF op[a].pc = "insert" THEN op[a].expression ELSE schedule[op[a].schedule].expression

\* What a handler has computed is right when it is written, although time has passed: no run of
\* the schedule is recorded while it holds the lock.
ComputedFor(a) ==
  /\ op[a].from <= now
  /\ op[a].enabled => op[a].next = ScheduleNext(ExpressionOf(a), op[a].from)
  /\ op[a].pc = "update" =>
       /\ schedule[op[a].schedule].agent = a
       /\ \A r \in RunId : run[r].schedule = op[a].schedule => run[r].for <= op[a].from

Computed == \A a \in Agent : op[a].pc \in {"insert", "update"} => ComputedFor(a)

\* What was read as due has come.
Listed == \A k \in DOMAIN scheduler.todo : scheduler.todo[k].next <= now

\* What was decided holds until the claim.
Decided ==
  scheduler.pc = "claim" =>
    IF scheduler.busy THEN now - Current.next >= Grace ELSE ~human[AgentOfCurrent]

RunsPast == \A r \in RunId : run[r].for <= now

Named(e, t) == IF e.kind = "once" THEN t = e.n ELSE \E k \in 1..t : t = k * e.n

Dated(e) == e.kind = "once" \/ e.n # 0

\* OccurrencesAreAccountedFor, for one schedule and without sets.
Accounted(s) ==
  LET e == schedule[s].expression
      next == schedule[s].next
  IN /\ Named(e, next) /\ since[s] < next
     /\ \A r \in RunId : run[r].schedule = s =>
          run[r].for < next /\ (since[s] < run[r].for => Named(e, run[r].for))
     /\ \A t \in (since[s] + 1)..(next - 1) :
          Named(e, t) => \E r \in RunId : run[r].schedule = s /\ run[r].for = t

\* A schedule of an expression that names no date is always due, and is recorded once.
Undated(s) ==
  /\ schedule[s].enabled => schedule[s].next = ZeroTime
  /\ \A r \in RunId : run[r].schedule = s => run[r].for = ZeroTime

RowRight(s) ==
  /\ schedule[s].enabled => schedule[s].agent \notin archived
  /\ schedule[s].enabled /\ Dated(schedule[s].expression) => Accounted(s)
  /\ ~Dated(schedule[s].expression) => Undated(s)

RowsRight == \A s \in ScheduleId : RowRight(s)

Inv == LocksExclude /\ Computed /\ Listed /\ Decided /\ RunsPast /\ RowsRight

LEMMA InitInv == Init => Inv
<1> SUFFICES ASSUME Init PROVE Inv
  OBVIOUS
<1>1. ScheduleId = {} /\ RunId = {} /\ DOMAIN scheduler.todo = {} /\ scheduler.pc = "asleep"
  BY DEF Init, ScheduleId, RunId, Asleep
<1>2. \A a \in Agent : op[a].pc = "idle"
  BY DEF Init, Idle
<1> QED
  BY <1>1, <1>2 DEF Inv, LocksExclude, Computed, Listed, Decided, RunsPast, RowsRight

LEMMA InvImpliesAccounted == Typed /\ Inv => OccurrencesAreAccountedFor
<1> SUFFICES ASSUME Typed, Inv, NEW s \in ScheduleId, schedule[s].enabled, HasTimes(s)
             PROVE  /\ {t \in Recorded(s) : t > since[s]} = Passed(s)
                    /\ \A t \in Recorded(s) : t < schedule[s].next
  BY DEF OccurrencesAreAccountedFor
<1>1. Accounted(s)
  BY DEF Inv, RowsRight, RowRight, Dated, HasTimes
<1>2. since[s] \in Nat /\ schedule[s].next \in Nat /\ \A r \in RunId : run[r].for \in Nat
  <2>1. schedule[s] \in Schedule /\ schedule[s].next # NoTime
    BY DEF Typed, RowsTyped, ScheduleId
  <2>2. \A r \in RunId : run[r] \in Run
    BY DEF Typed, RunsTyped, RunId
  <2> QED
    BY <2>1, <2>2 DEF Typed, RowsTyped, Schedule, Times, Run
<1>3. \A t : Names(s, t) <=> Named(schedule[s].expression, t)
  BY DEF Names, Named
<1>4. ASSUME NEW t \in Recorded(s)
      PROVE  t < schedule[s].next /\ (t > since[s] => t \in Passed(s))
  <2>1. PICK r \in RunId : run[r].schedule = s /\ t = run[r].for
    BY <1>4 DEF Recorded, RunsOf
  <2>2. t < schedule[s].next /\ (since[s] < t => Named(schedule[s].expression, t)) /\ t \in Nat
    BY <1>1, <1>2, <2>1 DEF Accounted
  <2> QED
    BY <1>2, <1>3, <2>2 DEF Passed
<1>5. ASSUME NEW t \in Passed(s)
      PROVE  t \in Recorded(s) /\ t > since[s]
  <2>1. t \in (since[s] + 1)..(schedule[s].next - 1) /\ Named(schedule[s].expression, t)
    BY <1>3, <1>5 DEF Passed
  <2>2. PICK r \in RunId : run[r].schedule = s /\ run[r].for = t
    BY <1>1, <2>1 DEF Accounted
  <2> QED
    BY <1>2, <2>1, <2>2 DEF Recorded, RunsOf
<1> QED
  BY <1>4, <1>5

\* What scheduleNext returns.
LEMMA NextTime ==
  ASSUME NEW e \in Expression, NEW from \in Nat, ScheduleNext(e, from) # NoTime
  PROVE  /\ Dated(e) => LET next == ScheduleNext(e, from)
                        IN /\ next \in Nat /\ from < next /\ Named(e, next)
                           /\ \A t \in Nat : Named(e, t) /\ from < t => next <= t
         /\ ~Dated(e) => ScheduleNext(e, from) = ZeroTime
<1>1. e.kind \in {"once", "cron"} /\ e.n \in Nat
  BY DEF Expression
<1>2. CASE e.kind = "once"
  BY <1>1, <1>2 DEF ScheduleNext, Named, Dated
<1>3. CASE e.kind = "cron" /\ e.n = 0
  BY <1>1, <1>3 DEF ScheduleNext, Dated
<1>4. CASE e.kind = "cron" /\ e.n # 0
  <2> DEFINE m == (from \div e.n + 1) * e.n
  <2>1. /\ m \in Nat /\ m > from /\ \E k \in 1..m : m = k * e.n
        /\ \A t \in Nat : (\E k \in 1..t : t = k * e.n) /\ from < t => m <= t
    BY <1>1, <1>4, MultipleAfter
  <2>2. ScheduleNext(e, from) = m
    BY <1>4 DEF ScheduleNext
  <2> HIDE DEF m
  <2> QED
    BY <1>4, <2>1, <2>2 DEF Named, Dated
<1> QED
  BY <1>1, <1>2, <1>3, <1>4
-----------------------------------------------------------------------------
(***************************************************************************)
(* What the steps that leave a part of the invariant alone have in common: *)
(* rows keep their agent and expression, runs keep their schedule and      *)
(* their time, and time does not go back.                                  *)
(***************************************************************************)

RowsGrow ==
  \A s \in ScheduleId : /\ s \in ScheduleId' /\ schedule'[s].agent = schedule[s].agent
                        /\ schedule'[s].expression = schedule[s].expression

SameRun(r) == run'[r].schedule = run[r].schedule /\ run'[r].for = run[r].for

SameRuns == RunId' = RunId /\ \A r \in RunId : SameRun(r)

\* Runs are at most added, and none of the schedules of this agent.
NoRunFor(a) ==
  \A r \in RunId' : \/ r \in RunId /\ SameRun(r)
                    \/ run'[r].schedule \in ScheduleId /\ schedule[run'[r].schedule].agent # a

LEMMA TableRowsGrow == ASSUME UNCHANGED table PROVE RowsGrow
BY DEF RowsGrow, table, ScheduleId

LEMMA RunSameRuns == ASSUME run' = run PROVE SameRuns
BY DEF SameRuns, SameRun, RunId

LEMMA SameRunsNoRun == ASSUME SameRuns, NEW a PROVE NoRunFor(a)
BY DEF SameRuns, NoRunFor

LEMMA HeldKept ==
  ASSUME Typed, RowsGrow, scheduler' = scheduler
  PROVE  /\ \A a \in Agent : HeldByScheduler(a)' <=> HeldByScheduler(a)
         /\ scheduler.pc # "asleep" => AgentOfCurrent' = AgentOfCurrent
<1>1. CASE scheduler.pc = "asleep"
  BY <1>1 DEF HeldByScheduler
<1>2. CASE scheduler.pc # "asleep"
  <2>1. Current.schedule \in ScheduleId /\ Current' = Current
    BY <1>2, CurrentTyped DEF Current
  <2>2. AgentOfCurrent' = AgentOfCurrent
    BY <2>1 DEF AgentOfCurrent, RowsGrow
  <2> QED
    BY <2>2 DEF HeldByScheduler
<1> QED
  BY <1>1, <1>2

LEMMA LocksKept ==
  ASSUME Typed, LocksExclude, RowsGrow, scheduler' = scheduler, op' = op, archived' = archived
  PROVE  LocksExclude'
BY HeldKept DEF LocksExclude

LEMMA ComputedKeptFor ==
  ASSUME Typed, Typed', NEW a \in Agent, op[a].pc \in {"insert", "update"}, ComputedFor(a),
         op'[a] = op[a], RowsGrow, now <= now', NoRunFor(a)
  PROVE  ComputedFor(a)'
<1>1. op[a] \in Handler /\ (op[a].pc = "update" => op[a].schedule \in ScheduleId)
  BY DEF Typed, HandlersTyped
<1>2. op[a].from \in Nat /\ now \in Nat /\ now' \in Nat
  BY <1>1 DEF Typed, Handler
<1>3. op'[a].from <= now'
  BY <1>2 DEF ComputedFor
<1>4. ExpressionOf(a)' = ExpressionOf(a)
  BY <1>1 DEF ExpressionOf, RowsGrow
<1>5. op'[a].enabled => op'[a].next = ScheduleNext(ExpressionOf(a), op'[a].from)
  BY DEF ComputedFor
<1>6. ASSUME op[a].pc = "update"
      PROVE  /\ schedule'[op'[a].schedule].agent = a
             /\ \A r \in RunId' : run'[r].schedule = op'[a].schedule => run'[r].for <= op'[a].from
  BY <1>1, <1>6 DEF ComputedFor, RowsGrow, NoRunFor, SameRun
<1> QED
  BY <1>3, <1>4, <1>5, <1>6 DEF ComputedFor, ScheduleNext

LEMMA ComputedKept ==
  ASSUME Typed, Typed', Computed, op' = op, RowsGrow, now <= now', SameRuns
  PROVE  Computed'
BY ComputedKeptFor, SameRunsNoRun DEF Computed

\* One handler moves.
LEMMA ComputedMoves ==
  ASSUME Typed, Typed', Computed, NEW a \in Agent, NEW h, op' = [op EXCEPT ![a] = h], RowsGrow,
         now <= now', SameRuns, h.pc \in {"insert", "update"} => ComputedFor(a)'
  PROVE  Computed'
<1>1. \A b \in Agent : op'[b] = IF b = a THEN h ELSE op[b]
  BY DEF Typed, HandlersTyped
<1>2. ASSUME NEW b \in Agent, b # a, op'[b].pc \in {"insert", "update"}
      PROVE  ComputedFor(b)'
  BY <1>1, <1>2, ComputedKeptFor, SameRunsNoRun DEF Computed
<1> QED
  BY <1>1, <1>2 DEF Computed

LEMMA ListedKept ==
  ASSUME Typed, Typed', Listed, now <= now', scheduler'.todo = scheduler.todo
  PROVE  Listed'
<1>1. \A k \in DOMAIN scheduler.todo : scheduler.todo[k].next \in Nat
  <2>1. scheduler.todo \in Seq(Due)
    BY DEF Typed, SchedulerTyped, Scheduler
  <2>2. \A k \in DOMAIN scheduler.todo : scheduler.todo[k] \in Due
    BY <2>1
  <2> QED
    BY <2>2 DEF Due
<1>2. now \in Nat /\ now' \in Nat
  BY DEF Typed
<1> QED
  BY <1>1, <1>2 DEF Listed

LEMMA ListedReturns ==
  ASSUME Typed, Listed, scheduler.pc # "asleep", Returns, now' = now, ScheduleId \subseteq ScheduleId'
  PROVE  Listed'
BY ReturnsTyped DEF Listed, Typed

LEMMA DecidedKept ==
  ASSUME Typed, Typed', Decided, RowsGrow, now <= now', scheduler' = scheduler,
         \A a \in Agent : HeldByScheduler(a) /\ human'[a] => human[a]
  PROVE  Decided'
<1>1. CASE scheduler.pc # "claim"
  BY <1>1 DEF Decided
<1>2. CASE scheduler.pc = "claim"
  <2>1. Current.next \in Nat /\ Current' = Current /\ AgentOfCurrent' = AgentOfCurrent
    BY <1>2, CurrentTyped, HeldKept DEF Current
  <2>2. now \in Nat /\ now' \in Nat /\ Grace \in Nat
    BY SchedulesAssumption DEF Typed
  <2>3. AgentOfCurrent \in Agent /\ HeldByScheduler(AgentOfCurrent)
    BY <1>2, CurrentTyped DEF HeldByScheduler
  <2>4. human'[AgentOfCurrent] => human[AgentOfCurrent]
    BY <2>3
  <2>5. scheduler.busy => now' - Current.next >= Grace
    BY <1>2, <2>1, <2>2 DEF Decided
  <2> QED
    BY <1>2, <2>1, <2>4, <2>5 DEF Decided
<1> QED
  BY <1>1, <1>2

LEMMA DecidedElsewhere == ASSUME scheduler'.pc # "claim" PROVE Decided'
BY DEF Decided

LEMMA RunsPastKept ==
  ASSUME Typed, Typed', RunsPast, SameRuns, now <= now'
  PROVE  RunsPast'
<1>1. \A r \in RunId : run[r].for \in Nat
  BY RunTyped
<1>2. now \in Nat /\ now' \in Nat
  BY DEF Typed
<1> QED
  BY <1>1, <1>2 DEF RunsPast, SameRuns, SameRun

LEMMA RowKept ==
  ASSUME NEW s \in ScheduleId, RowRight(s), schedule'[s] = schedule[s], since'[s] = since[s],
         SameRuns, schedule[s].agent \in archived' => schedule[s].agent \in archived
  PROVE  RowRight(s)'
<1>1. RunId' = RunId /\ \A r \in RunId : run'[r].schedule = run[r].schedule /\ run'[r].for = run[r].for
  BY DEF SameRuns, SameRun
<1>2. Accounted(s) => Accounted(s)'
  BY <1>1 DEF Accounted
<1>3. Undated(s) => Undated(s)'
  BY <1>1 DEF Undated
<1> QED
  BY <1>2, <1>3 DEF RowRight

LEMMA RowsKeptRight ==
  ASSUME RowsRight, UNCHANGED table, SameRuns, archived' \subseteq archived
  PROVE  RowsRight'
BY RowKept DEF RowsRight, table, ScheduleId

\* A row that is switched off.
LEMMA RowOff ==
  ASSUME NEW s \in ScheduleId, RowRight(s), ~schedule'[s].enabled,
         schedule'[s].expression = schedule[s].expression, SameRuns
  PROVE  RowRight(s)'
BY DEF RowRight, Undated, SameRuns, SameRun

\* The parts of the invariant that only the scheduler and the runs disturb.
LEMMA QuietInv ==
  ASSUME Typed, Typed', Inv, RowsGrow, SameRuns, now <= now', scheduler' = scheduler, op' = op,
         archived' = archived, \A a \in Agent : HeldByScheduler(a) /\ human'[a] => human[a],
         RowsRight'
  PROVE  Inv'
BY LocksKept, ComputedKept, ListedKept, DecidedKept, RunsPastKept DEF Inv

LEMMA TickInv == ASSUME Typed, Typed', Inv, Tick PROVE Inv'
<1>1. RowsGrow /\ SameRuns
  BY TableRowsGrow, RunSameRuns DEF Tick
<1>2. now <= now'
  BY DEF Tick, Typed
<1>3. RowsRight'
  BY <1>1, RowsKeptRight DEF Tick, Inv, agents
<1> QED
  BY <1>1, <1>2, <1>3, QuietInv DEF Tick, agents

LEMMA NowKept == ASSUME Typed, now' = now PROVE now <= now'
BY DEF Typed

LEMMA AgentReturnsInv ==
  ASSUME Typed, Typed', Inv, NEW a \in Agent, DesktopReturns(a) \/ ChatEnds(a)
  PROVE  Inv'
<1>1. RowsGrow /\ SameRuns /\ now <= now'
  BY TableRowsGrow, RunSameRuns, NowKept DEF DesktopReturns, ChatEnds
<1>2. \A b \in Agent : human'[b] => human[b]
  BY DEF DesktopReturns, ChatEnds, Typed, AgentsTyped
<1>3. RowsRight'
  BY <1>1, RowsKeptRight DEF DesktopReturns, ChatEnds, Inv
<1> QED
  BY <1>1, <1>2, <1>3, QuietInv DEF DesktopReturns, ChatEnds

LEMMA PagesInv ==
  ASSUME Typed, Typed', Inv, NextPage \/ (\E s \in ScheduleId : FirstPage(s)) \/ UNCHANGED vars
  PROVE  Inv'
<1>1. RowsGrow /\ SameRuns /\ now <= now'
  BY TableRowsGrow, RunSameRuns, NowKept DEF NextPage, FirstPage, vars
<1>2. UNCHANGED <<scheduler, op, archived, human, table>>
  BY DEF NextPage, FirstPage, vars, agents
<1>3. RowsRight'
  BY <1>1, <1>2, RowsKeptRight DEF Inv
<1> QED
  BY <1>1, <1>2, <1>3, QuietInv

LEMMA RunEndsInv ==
  ASSUME Typed, Typed', Inv, NEW r \in RunId, RunEnds(r)
  PROVE  Inv'
<1>1. RowsGrow /\ now <= now' /\ ScheduleId' = ScheduleId
  BY TableRowsGrow, NowKept DEF RunEnds, table, ScheduleId
<1>2. SameRuns
  BY <1>1, StatusTyped DEF SameRuns, SameRun, RunEnds, Typed
<1>3. RowsRight'
  BY <1>2, RowsKeptRight DEF RunEnds, agents, Inv
<1> QED
  BY <1>1, <1>2, <1>3, QuietInv DEF RunEnds, agents

LEMMA DeleteInv ==
  ASSUME Typed, Typed', Inv, NEW s \in ScheduleId, DeleteSchedule(s)
  PROVE  Inv'
<1>1. schedule \in Seq(Schedule) /\ schedule[s] \in Schedule
  BY DEF Typed, RowsTyped, ScheduleId
<1>2. /\ ScheduleId' = ScheduleId
      /\ \A t \in ScheduleId : IF t = s THEN /\ ~schedule'[t].enabled
                                              /\ schedule'[t].agent = schedule[t].agent
                                              /\ schedule'[t].expression = schedule[t].expression
                                         ELSE schedule'[t] = schedule[t]
  BY <1>1 DEF DeleteSchedule, ScheduleId, Schedule
<1>3. RowsGrow /\ SameRuns /\ now <= now'
  BY <1>2, RunSameRuns, NowKept DEF RowsGrow, DeleteSchedule
<1>4. ASSUME NEW t \in ScheduleId PROVE RowRight(t)'
  <2>1. CASE t = s
    BY <1>2, <1>3, <2>1, RowOff DEF Inv, RowsRight
  <2>2. CASE t # s
    BY <1>2, <1>3, <2>2, RowKept DEF Inv, RowsRight, DeleteSchedule, agents
  <2> QED
    BY <2>1, <2>2
<1>5. RowsRight'
  BY <1>2, <1>4 DEF RowsRight
<1> QED
  BY <1>3, <1>5, QuietInv DEF DeleteSchedule, agents
\* A handler takes the lock: it is not held, and the agent exists.
LEMMA LocksInv ==
  ASSUME Typed, Typed', Inv, NEW a \in Agent, NEW h \in Handler, Locks(a, h),
         UNCHANGED <<now, table, run, agents, scheduler>>,
         h.pc \in {"insert", "update"} => ComputedFor(a)'
  PROVE  Inv'
<1>1. RowsGrow /\ SameRuns /\ now <= now'
  BY TableRowsGrow, RunSameRuns, NowKept
<1>2. op' = [op EXCEPT ![a] = h] /\ \A b \in Agent : b # a => op'[b] = op[b]
  BY DEF Locks, Typed, HandlersTyped
<1>3. LocksExclude'
  <2>1. ASSUME NEW b \in Agent, op'[b].pc # "idle"
        PROVE  b \notin archived /\ ~HeldByScheduler(b)
    BY <1>2, <2>1 DEF Locks, Unlocked, Inv, LocksExclude
  <2>2. \A b \in Agent : HeldByScheduler(b)' <=> HeldByScheduler(b)
    BY <1>1, HeldKept
  <2> QED
    BY <2>1, <2>2 DEF LocksExclude, agents
<1>4. Computed'
  BY <1>1, <1>2, ComputedMoves DEF Inv
<1>5. RowsRight'
  BY <1>1, RowsKeptRight DEF Inv, agents
<1>6. Listed' /\ Decided' /\ RunsPast'
  BY <1>1, ListedKept, DecidedKept, RunsPastKept DEF Inv, agents
<1> QED
  BY <1>3, <1>4, <1>5, <1>6 DEF Inv

LEMMA BeginInv ==
  ASSUME Typed, Typed', Inv, NEW a \in Agent, NEW pc \in {"message", "takeover", "archive"},
         Begin(a, pc)
  PROVE  Inv'
<1> DEFINE h == [Idle EXCEPT !.pc = pc]
<1>1. h \in Handler /\ h.pc \notin {"insert", "update"}
  BY IdleTyped DEF Handler, Idle
<1>2. Locks(a, h) /\ UNCHANGED <<now, table, run, agents, scheduler>>
  BY DEF Begin
<1> HIDE DEF h
<1> QED
  BY <1>1, <1>2, LocksInv

LEMMA CreateInv ==
  ASSUME Typed, Typed', Inv, NEW a \in Agent, NEW e \in bound.entered, NEW enabled \in BOOLEAN,
         CreateSchedule(a, e, enabled)
  PROVE  Inv'
<1> DEFINE h == [Idle EXCEPT !.pc = "insert", !.expression = e, !.enabled = enabled,
                             !.next = ScheduleNext(e, now), !.from = now]
<1>1. e \in Expression /\ now \in Nat
  BY SchedulesAssumption DEF Typed
<1>2. ScheduleNext(e, now) \in Times
  BY <1>1, ScheduleNextTyped
<1>3. h \in Handler /\ h.pc = "insert" /\ h.from = now /\ h.expression = e
      /\ h.next = ScheduleNext(e, now)
  BY <1>1, <1>2, IdleTyped DEF Handler, Idle
<1>4. Locks(a, h) /\ UNCHANGED <<now, table, run, agents, scheduler>>
  BY DEF CreateSchedule
<1> HIDE DEF h
<1>5. op'[a] = h /\ now <= now
  BY <1>1, <1>4 DEF Locks, Typed, HandlersTyped
<1>6. ComputedFor(a)'
  BY <1>3, <1>4, <1>5 DEF ComputedFor, ExpressionOf, ScheduleNext
<1> QED
  BY <1>3, <1>4, <1>6, LocksInv

LEMMA UpdateInv ==
  ASSUME Typed, Typed', Inv, NEW s \in ScheduleId, NEW enabled \in BOOLEAN,
         UpdateSchedule(s, enabled)
  PROVE  Inv'
<1>5. PICK a \in Agent : a = schedule[s].agent
  BY RowTyped
<1> DEFINE h == [Idle EXCEPT !.pc = "update", !.schedule = s, !.enabled = enabled,
                             !.next = NextIf(enabled, s), !.from = now]
<1>1. schedule[s].expression \in Expression /\ now \in Nat /\ s \in Nat
  BY RowTyped DEF Typed, RowsTyped, ScheduleId
<1>2. NextIf(enabled, s) \in Times
  BY <1>1, ScheduleNextTyped DEF NextIf, Times
<1>3. h \in Handler /\ h.pc = "update" /\ h.from = now /\ h.schedule = s
      /\ (h.enabled => h.next = ScheduleNext(schedule[s].expression, now))
  BY <1>1, <1>2, IdleTyped DEF Handler, Idle, NextIf
<1>4. Locks(a, h) /\ UNCHANGED <<now, table, run, agents, scheduler>>
  BY <1>5 DEF UpdateSchedule
<1> HIDE DEF h
<1>6. op'[a] = h /\ now <= now
  BY <1>1, <1>4 DEF Locks, Typed, HandlersTyped
<1>7. \A r \in RunId' : run'[r].for <= now
  BY <1>4 DEF Inv, RunsPast, RunId
<1>8. ComputedFor(a)'
  BY <1>3, <1>4, <1>5, <1>6, <1>7 DEF ComputedFor, ExpressionOf, ScheduleNext, table
<1> QED
  BY <1>1, <1>3, <1>4, <1>8, LocksInv

\* A handler has written what it had to, and unlocks.
LEMMA UnlocksInv ==
  ASSUME Typed, Typed', Inv, NEW a \in Agent, op[a].pc # "idle", Unlocks(a), RowsGrow, SameRuns,
         UNCHANGED <<now, scheduler>>, archived' \subseteq archived \cup {a},
         \A b \in Agent : b # a /\ human'[b] => human[b], RowsRight'
  PROVE  Inv'
<1>1. now <= now'
  BY NowKept
<1>2. op' = [op EXCEPT ![a] = Idle] /\ \A b \in Agent : b # a => op'[b] = op[b]
  BY DEF Unlocks, Typed, HandlersTyped
<1>3. op'[a].pc = "idle" /\ Idle.pc = "idle"
  BY IdleTyped DEF Unlocks, Typed, HandlersTyped
<1>4. LocksExclude'
  <2>1. ASSUME NEW b \in Agent, op'[b].pc # "idle"
        PROVE  b \notin archived' /\ ~HeldByScheduler(b)
    BY <1>2, <1>3, <2>1 DEF Inv, LocksExclude
  <2>2. \A b \in Agent : HeldByScheduler(b)' <=> HeldByScheduler(b)
    BY HeldKept
  <2> QED
    BY <2>1, <2>2 DEF LocksExclude
<1>5. Computed'
  BY <1>1, <1>2, <1>3, ComputedMoves DEF Inv
<1>6. ~HeldByScheduler(a)
  BY DEF Inv, LocksExclude
<1>7. Decided'
  BY <1>1, <1>6, DecidedKept DEF Inv
<1>8. Listed' /\ RunsPast'
  BY <1>1, ListedKept, RunsPastKept DEF Inv
<1> QED
  BY <1>4, <1>5, <1>7, <1>8 DEF Inv

LEMMA MessageInv ==
  ASSUME Typed, Typed', Inv, NEW a \in Agent, Message(a)
  PROVE  Inv'
<1>1. RowsGrow /\ SameRuns
  BY TableRowsGrow, RunSameRuns DEF Message
<1>2. RowsRight'
  BY <1>1, RowsKeptRight DEF Message, Inv
<1> QED
  BY <1>1, <1>2, UnlocksInv DEF Message

LEMMA InterruptedRuns == ASSUME Typed, NEW a \in Agent, Interrupted(a) PROVE SameRuns
BY DEF Interrupted, SameRuns, SameRun, RunId

LEMMA TakeoverInv ==
  ASSUME Typed, Typed', Inv, NEW a \in Agent, Takeover(a)
  PROVE  Inv'
<1>1. RowsGrow /\ SameRuns
  BY TableRowsGrow, InterruptedRuns DEF Takeover
<1>2. RowsRight'
  BY <1>1, RowsKeptRight DEF Takeover, Inv
<1>3. \A b \in Agent : b # a /\ human'[b] => human[b]
  BY DEF Takeover, TakesDesktop, Typed, AgentsTyped
<1> QED
  BY <1>1, <1>2, <1>3, UnlocksInv DEF Takeover

LEMMA ArchiveInv ==
  ASSUME Typed, Typed', Inv, NEW a \in Agent, ArchiveAgent(a)
  PROVE  Inv'
<1>1. /\ ScheduleId' = ScheduleId
      /\ \A s \in ScheduleId : IF schedule[s].agent = a
                                THEN schedule'[s] = Disabled(schedule[s])
                                ELSE schedule'[s] = schedule[s]
  BY DEF ArchiveAgent, ScheduleId
<1>2. \A s \in ScheduleId : /\ Disabled(schedule[s]).agent = schedule[s].agent
                            /\ Disabled(schedule[s]).expression = schedule[s].expression
                            /\ ~Disabled(schedule[s]).enabled
  BY RowTyped DEF Disabled, Schedule
<1>3. RowsGrow /\ SameRuns
  BY <1>1, <1>2, InterruptedRuns DEF RowsGrow, ArchiveAgent
<1>4. ASSUME NEW s \in ScheduleId PROVE RowRight(s)'
  <2>1. CASE schedule[s].agent = a
    BY <1>1, <1>2, <1>3, <2>1, RowOff DEF Inv, RowsRight
  <2>2. CASE schedule[s].agent # a
    BY <1>1, <1>3, <2>2, RowKept DEF Inv, RowsRight, ArchiveAgent
  <2> QED
    BY <2>1, <2>2
<1>5. RowsRight'
  BY <1>1, <1>4 DEF RowsRight
<1>6. \A b \in Agent : b # a /\ human'[b] => human[b]
  BY DEF ArchiveAgent, Typed, AgentsTyped
<1> QED
  BY <1>3, <1>5, <1>6, UnlocksInv DEF ArchiveAgent
\* A row is given the time that was computed for it.
LEMMA RowComputed ==
  ASSUME Typed', NEW s \in ScheduleId', NEW e \in Expression, NEW from \in Nat,
         schedule'[s].expression = e, since'[s] = from, schedule'[s].agent \notin archived',
         schedule'[s].enabled => schedule'[s].next = ScheduleNext(e, from),
         \A r \in RunId' : run'[r].schedule = s => run'[r].for <= from,
         ~Dated(e) => \A r \in RunId' : run'[r].schedule = s => run'[r].for = ZeroTime
  PROVE  RowRight(s)'
<1>1. /\ schedule'[s].enabled => schedule'[s].next # NoTime
      /\ \A r \in RunId' : run'[r].for \in Nat
  <2>1. \A t \in ScheduleId' : schedule'[t].enabled => schedule'[t].next # NoTime
    BY DEF Typed, RowsTyped
  <2>2. run' \in Seq(Run)
    BY DEF Typed, RunsTyped
  <2>3. \A r \in RunId' : run'[r] \in Run
    BY <2>2 DEF RunId
  <2> QED
    BY <2>1, <2>3 DEF Run
<1>2. ASSUME schedule'[s].enabled, Dated(e)
      PROVE  Accounted(s)'
  <2> DEFINE next == ScheduleNext(e, from)
  <2>1. schedule'[s].next = next /\ next # NoTime
    BY <1>1, <1>2
  <2>2. /\ next \in Nat /\ from < next /\ Named(e, next)
        /\ \A t \in Nat : Named(e, t) /\ from < t => next <= t
    BY <1>2, <2>1, NextTime
  <2> HIDE DEF next
  <2>3. \A r \in RunId' : run'[r].schedule = s =>
          run'[r].for < next /\ ~(from < run'[r].for)
    BY <1>1, <2>2
  <2>4. ASSUME NEW t \in (from + 1)..(next - 1) PROVE ~Named(e, t)
    BY <2>2
  <2> QED
    BY <2>1, <2>2, <2>3, <2>4 DEF Accounted
<1>3. ASSUME ~Dated(e)
      PROVE  Undated(s)'
  <2>1. schedule'[s].enabled => schedule'[s].next = ZeroTime
    BY <1>1, <1>3, NextTime
  <2> QED
    BY <1>3, <2>1 DEF Undated
<1> QED
  BY <1>2, <1>3 DEF RowRight

LEMMA InsertInv ==
  ASSUME Typed, Typed', Inv, NEW a \in Agent, Insert(a)
  PROVE  Inv'
<1> DEFINE row == [agent |-> a, expression |-> op[a].expression, exists |-> TRUE,
                   enabled |-> op[a].enabled, next |-> op[a].next]
<1>1. op[a] \in Handler /\ op[a].pc = "insert"
  BY DEF Typed, HandlersTyped, Insert
<1>2. row \in Schedule /\ op[a].from \in Nat /\ op[a].expression \in Expression
  BY <1>1 DEF Schedule, Handler
<1>3. schedule' = Append(schedule, row) /\ since' = Append(since, op[a].from)
  BY DEF Insert
<1>4. row.agent = a /\ row.expression = op[a].expression /\ row.enabled = op[a].enabled
      /\ row.next = op[a].next
  OBVIOUS
<1> HIDE DEF row
<1>5. schedule \in Seq(Schedule) /\ since \in Seq(Nat) /\ Len(since) = Len(schedule)
      /\ ScheduleId = 1..Len(schedule) /\ Len(schedule) \in Nat
  BY DEF Typed, RowsTyped, ScheduleId
<1>6. PICK new \in Nat : new = Len(schedule) + 1
  BY <1>5
<1>7. /\ ScheduleId' = 1..new /\ schedule'[new] = row /\ since'[new] = op[a].from
      /\ \A s \in ScheduleId : schedule'[s] = schedule[s] /\ since'[s] = since[s]
      /\ \A s \in 1..new : s \in ScheduleId \/ s = new
      /\ new \notin ScheduleId /\ new \in 1..new
  <2>1. /\ DOMAIN schedule' = 1..(Len(schedule) + 1) /\ schedule'[Len(schedule) + 1] = row
        /\ \A s \in 1..Len(schedule) : schedule'[s] = schedule[s]
        /\ \A s \in 1..(Len(schedule) + 1) : s \in 1..Len(schedule) \/ s = Len(schedule) + 1
    BY <1>2, <1>3, <1>5, Appended
  <2>2. /\ since'[Len(schedule) + 1] = op[a].from
        /\ \A s \in 1..Len(schedule) : since'[s] = since[s]
    BY <1>2, <1>3, <1>5, Appended
  <2>3. new \notin 1..Len(schedule) /\ new \in 1..new
    BY <1>5, <1>6
  <2> QED
    BY <1>5, <1>6, <2>1, <2>2, <2>3 DEF ScheduleId
<1>8. SameRuns
  BY RunSameRuns DEF Insert
<1>9. RowsGrow
  <2>1. ScheduleId \subseteq 1..new
    BY <1>5, <1>6
  <2> QED
    BY <1>7, <2>1 DEF RowsGrow
<1>10. a \notin archived' /\ archived' = archived
  BY <1>1 DEF Insert, agents, Inv, LocksExclude
<1>11. op[a].enabled => op[a].next = ScheduleNext(op[a].expression, op[a].from)
  BY <1>1 DEF Inv, Computed, ComputedFor, ExpressionOf
<1>12. \A r \in RunId' : run'[r].schedule # new
  BY <1>7, <1>8, RunTyped DEF SameRuns, SameRun
<1>13. RowRight(new)'
  <2>1. /\ new \in ScheduleId' /\ schedule'[new].expression = op[a].expression
        /\ schedule'[new].agent \notin archived'
        /\ schedule'[new].enabled => schedule'[new].next = ScheduleNext(op[a].expression, op[a].from)
    BY <1>4, <1>7, <1>10, <1>11
  <2> QED
    BY <1>2, <1>7, <1>12, <2>1, RowComputed
<1>14. RowsRight'
  <2>1. \A s \in ScheduleId : RowRight(s)'
    BY <1>7, <1>8, <1>10, RowKept DEF Inv, RowsRight
  <2> QED
    BY <1>7, <1>13, <2>1 DEF RowsRight
<1>15. op[a].pc # "idle" /\ Unlocks(a) /\ UNCHANGED <<now, scheduler, human>>
  BY <1>1 DEF Insert, agents
<1> QED
  BY <1>8, <1>9, <1>10, <1>14, <1>15, UnlocksInv

LEMMA SetEnabledInv ==
  ASSUME Typed, Typed', Inv, NEW a \in Agent, SetScheduleEnabled(a)
  PROVE  Inv'
<1>1. PICK s \in ScheduleId : s = op[a].schedule
  BY DEF Typed, HandlersTyped, SetScheduleEnabled
<1>2. op[a] \in Handler /\ op[a].pc = "update" /\ op[a].from \in Nat
  BY DEF Typed, HandlersTyped, SetScheduleEnabled, Handler
<1>3. SameRuns /\ archived' = archived /\ op[a].pc # "idle" /\ Unlocks(a)
      /\ UNCHANGED <<now, scheduler, human>>
  BY <1>2, RunSameRuns DEF SetScheduleEnabled, agents
<1>4. schedule \in Seq(Schedule) /\ schedule[s] \in Schedule /\ since \in [ScheduleId -> Nat]
  BY RowTyped DEF Typed, RowsTyped
<1>5. CASE ~schedule[s].exists
  <2>1. UNCHANGED table
    BY <1>1, <1>5 DEF SetScheduleEnabled
  <2> QED
    BY <1>3, <2>1, TableRowsGrow, RowsKeptRight, UnlocksInv DEF Inv
<1>6. CASE schedule[s].exists
  <2> DEFINE row == [schedule[s] EXCEPT !.enabled = op[a].enabled, !.next = op[a].next]
  <2>1. row.agent = schedule[s].agent /\ row.expression = schedule[s].expression
        /\ row.enabled = op[a].enabled /\ row.next = op[a].next
    BY <1>4 DEF Schedule
  <2>2. schedule' = [schedule EXCEPT ![s] = row] /\ since' = [since EXCEPT ![s] = op[a].from]
    BY <1>1, <1>6 DEF SetScheduleEnabled
  <2> HIDE DEF row
  <2>3. /\ ScheduleId' = ScheduleId /\ schedule'[s] = row /\ since'[s] = op[a].from
        /\ \A t \in ScheduleId : t # s => schedule'[t] = schedule[t] /\ since'[t] = since[t]
    BY <1>4, <2>2 DEF ScheduleId
  <2>4. RowsGrow
    BY <2>1, <2>3 DEF RowsGrow
  <2>5. /\ schedule[s].agent = a
        /\ op[a].enabled => op[a].next = ScheduleNext(schedule[s].expression, op[a].from)
        /\ \A r \in RunId : run[r].schedule = s => run[r].for <= op[a].from
    BY <1>1, <1>2 DEF Inv, Computed, ComputedFor, ExpressionOf
  <2>6. a \notin archived'
    BY <1>2, <1>3 DEF Inv, LocksExclude
  <2>7. RowRight(s)'
    <3>1. \A r \in RunId' : run'[r].schedule = s => run'[r].for <= op[a].from
      BY <1>3, <2>5 DEF SameRuns, SameRun
    <3>2. ~Dated(schedule[s].expression) =>
            \A r \in RunId' : run'[r].schedule = s => run'[r].for = ZeroTime
      BY <1>3 DEF Inv, RowsRight, RowRight, Undated, SameRuns, SameRun
    <3>3. schedule[s].expression \in Expression
      BY RowTyped
    <3> QED
      BY <1>2, <2>1, <2>3, <2>5, <2>6, <3>1, <3>2, <3>3, RowComputed
  <2>8. RowsRight'
    <3>1. \A t \in ScheduleId : t # s => RowRight(t)'
      BY <1>3, <2>3, RowKept DEF Inv, RowsRight
    <3> QED
      BY <2>3, <2>7, <3>1 DEF RowsRight
  <2> QED
    BY <1>3, <2>4, <2>8, UnlocksInv
<1> QED
  BY <1>5, <1>6
\* The scheduler moves, and writes nothing.
LEMMA SchedulerInv ==
  ASSUME Typed, Typed', Inv, UNCHANGED <<now, table, run, agents, op>>,
         \A a \in Agent : HeldByScheduler(a)' => op[a].pc = "idle" \/ HeldByScheduler(a),
         Listed', Decided'
  PROVE  Inv'
<1>1. RowsGrow /\ SameRuns /\ now <= now'
  BY TableRowsGrow, RunSameRuns, NowKept
<1>2. LocksExclude'
  BY DEF Inv, LocksExclude, agents
<1>3. Computed' /\ RunsPast'
  BY <1>1, ComputedKept, RunsPastKept DEF Inv
<1>4. RowsRight'
  BY <1>1, RowsKeptRight DEF Inv, agents
<1> QED
  BY <1>2, <1>3, <1>4 DEF Inv

LEMMA HeldNoMore ==
  ASSUME scheduler'.pc \in {"asleep", "next"}, NEW a PROVE ~HeldByScheduler(a)'
BY DEF HeldByScheduler

LEMMA ScanInv == ASSUME Typed, Typed', Inv, Scan PROVE Inv'
<1>1. PICK q \in ByTime(DueSchedules) : scheduler' = [Asleep EXCEPT !.pc = "next", !.todo = q]
  BY DEF Scan
<1>2. scheduler'.todo = q /\ scheduler'.pc = "next"
  BY <1>1 DEF Asleep
<1>3. \A k \in DOMAIN q : q[k].next <= now
  BY <1>1, DueTyped DEF Scan
<1>4. Listed' /\ Decided'
  BY <1>2, <1>3, DecidedElsewhere DEF Listed, Scan
<1> QED
  BY <1>2, <1>4, HeldNoMore, SchedulerInv DEF Scan

LEMMA LockAgentInv == ASSUME Typed, Typed', Inv, LockAgent PROVE Inv'
<1>1. scheduler'.pc = "decide" /\ scheduler'.todo = scheduler.todo
  BY DEF LockAgent, Typed, SchedulerTyped, Scheduler
<1>2. Listed' /\ Decided'
  BY <1>1, NowKept, ListedKept, DecidedElsewhere DEF Inv, LockAgent
<1>3. AgentOfCurrent' = AgentOfCurrent
  BY <1>1 DEF AgentOfCurrent, Current, LockAgent, table
<1>4. \A a \in Agent : HeldByScheduler(a)' => op[a].pc = "idle"
  BY <1>3 DEF HeldByScheduler, LockAgent
<1> QED
  BY <1>2, <1>4, SchedulerInv DEF LockAgent

LEMMA DecideInv == ASSUME Typed, Typed', Inv, Decide PROVE Inv'
<1>1. CASE Returns
  <2>1. scheduler'.pc \in {"asleep", "next"}
    BY <1>1, ReturnsTyped DEF Decide, Typed, table, ScheduleId
  <2>2. Listed' /\ Decided'
    BY <1>1, <2>1, ListedReturns, DecidedElsewhere DEF Inv, Decide, table, ScheduleId
  <2> QED
    BY <2>1, <2>2, HeldNoMore, SchedulerInv DEF Decide
<1>2. CASE ~Returns
  <2>1. ~Waits /\ scheduler' = [scheduler EXCEPT !.pc = "claim", !.busy = Occupied(AgentOfCurrent)]
    BY <1>2 DEF Decide
  <2>2. scheduler'.todo = scheduler.todo /\ scheduler'.busy = Occupied(AgentOfCurrent)
    BY <2>1 DEF Typed, SchedulerTyped, Scheduler
  <2>3. Listed'
    BY <2>2, NowKept, ListedKept DEF Inv, Decide
  <2>4. AgentOfCurrent' = AgentOfCurrent /\ Current' = Current
    BY <2>2 DEF AgentOfCurrent, Current, Decide, table
  <2>5. Decided'
    <3>1. Current.next \in Nat /\ now \in Nat /\ Grace \in Nat
      BY CurrentTyped, SchedulesAssumption DEF Decide, Typed
    <3>2. Occupied(AgentOfCurrent) => now - Current.next >= Grace
      BY <2>1, <3>1 DEF Waits
    <3>3. ~Occupied(AgentOfCurrent) => ~human[AgentOfCurrent]
      BY DEF Occupied
    <3> QED
      BY <2>2, <2>4, <3>2, <3>3 DEF Decided, Decide, agents
  <2>6. \A a \in Agent : HeldByScheduler(a)' => HeldByScheduler(a)
    BY <2>4 DEF HeldByScheduler, Decide
  <2> QED
    BY <2>3, <2>5, <2>6, SchedulerInv DEF Decide
<1> QED
  BY <1>1, <1>2

LEMMA RestartInv == ASSUME Typed, Typed', Inv, Restart PROVE Inv'
<1>1. scheduler'.pc = "asleep" /\ DOMAIN scheduler'.todo = {}
  BY DEF Restart, Asleep
<1>2. \A a \in Agent : op'[a].pc = "idle"
  BY IdleTyped DEF Restart
<1>3. LocksExclude' /\ Computed' /\ Listed' /\ Decided'
  BY <1>1, <1>2 DEF LocksExclude, Computed, Listed, Decided
<1>4. SameRuns /\ now <= now'
  BY RunSameRuns, NowKept DEF Restart
<1>5. RunsPast'
  BY <1>4, RunsPastKept DEF Inv
<1>6. RowsRight'
  BY <1>4, RowsKeptRight DEF Inv, Restart, agents
<1> QED
  BY <1>3, <1>5, <1>6 DEF Inv

LEMMA StartInv == ASSUME Typed, Typed', Inv, Start PROVE Inv'
<1>1. SameRuns /\ RowsGrow /\ now <= now' /\ ScheduleId' = ScheduleId
  BY StartKeeps, TableRowsGrow, NowKept DEF SameRuns, SameRun, Start
<1>2. scheduler'.pc \in {"asleep", "next"}
  BY <1>1, ReturnsTyped DEF Start, Typed
<1>3. Listed' /\ Decided'
  BY <1>1, <1>2, ListedReturns, DecidedElsewhere DEF Inv, Start
<1>4. LocksExclude'
  BY <1>2, HeldNoMore DEF Inv, LocksExclude, Start, agents
<1>5. Computed' /\ RunsPast'
  BY <1>1, ComputedKept, RunsPastKept DEF Inv, Start
<1>6. RowsRight'
  BY <1>1, RowsKeptRight DEF Inv, Start, agents
<1> QED
  BY <1>3, <1>4, <1>5, <1>6 DEF Inv

\* An occurrence is recorded: the row that the scheduler has read is the present one, and no
\* handler is about to write it.
LEMMA RecordedInv ==
  ASSUME Typed, Typed', Inv, Claim, Unchanged(Current), Admitted(Current),
         NEW status, NEW row, NEW claim, Claimed(status, row, claim)
  PROVE  Computed' /\ RunsPast' /\ RowsRight' /\ RowsGrow
<1>1. PICK s \in ScheduleId : s = Current.schedule
  BY CurrentTyped DEF Claim
<1>2. PICK n \in Nat : n = Current.next
  BY CurrentTyped DEF Claim
<1>3. n <= now /\ now \in Nat /\ now' = now /\ archived' = archived /\ op' = op /\ since' = since
  BY <1>2, CurrentTyped DEF Claim, Inv, Listed, Typed, agents
<1>4. schedule[s].enabled /\ schedule[s].next = n /\ schedule[s] \in Schedule
      /\ schedule[s].expression \in Expression /\ schedule[s].agent = AgentOfCurrent
  BY <1>1, <1>2, RowTyped DEF Unchanged, AgentOfCurrent
<1>5. row.agent = schedule[s].agent /\ row.expression = schedule[s].expression
  BY <1>1 DEF Claimed
<1>6. /\ row.enabled => schedule[s].expression.kind = "cron"
      /\ schedule[s].expression.kind = "cron" => row.next = ScheduleNext(schedule[s].expression, n)
  BY <1>1, <1>2, <1>4 DEF Claimed, Schedule, Following
<1>7. /\ ScheduleId' = ScheduleId /\ schedule'[s] = row
      /\ \A t \in ScheduleId : t # s => schedule'[t] = schedule[t]
  BY <1>1 DEF Claimed, ScheduleId, Typed, RowsTyped
<1>8. RowsGrow
  BY <1>5, <1>7 DEF RowsGrow
<1>9. /\ RunId' = RunId \cup {Len(run) + 1}
      /\ \A r \in RunId : run'[r] = run[r]
      /\ run'[Len(run) + 1].schedule = s /\ run'[Len(run) + 1].for = n
  <2>1. claim \in Run /\ claim.schedule = s /\ claim.for = n /\ run' = Append(run, claim)
    BY <1>1, <1>2 DEF Claimed
  <2> QED
    BY <1>7, <2>1, RunAppended DEF Typed
<1>10. PICK new : new = Len(run) + 1
  OBVIOUS
<1>11. /\ RunId' = RunId \cup {new} /\ \A r \in RunId : run'[r] = run[r]
       /\ run'[new].schedule = s /\ run'[new].for = n
  BY <1>9, <1>10
<1>12. RunsPast'
  BY <1>3, <1>11 DEF Inv, RunsPast
<1>13. Computed'
  <2>1. ASSUME NEW a \in Agent, op[a].pc \in {"insert", "update"}
        PROVE  ComputedFor(a)'
    <3>1. a # AgentOfCurrent
      BY <2>1 DEF Inv, LocksExclude, HeldByScheduler, Claim
    <3>2. NoRunFor(a)
      BY <1>4, <1>11, <3>1 DEF NoRunFor, SameRun
    <3>3. now <= now'
      BY <1>3
    <3> QED
      BY <1>3, <1>8, <2>1, <3>2, <3>3, ComputedKeptFor DEF Inv, Computed
  <2> QED
    BY <1>3, <2>1 DEF Computed
<1>14. ASSUME NEW t \in ScheduleId, t # s PROVE RowRight(t)'
  <2>1. RowRight(t)
    BY DEF Inv, RowsRight
  <2>2. schedule'[t] = schedule[t] /\ since'[t] = since[t]
    BY <1>3, <1>7, <1>14
  <2>3. Accounted(t) => Accounted(t)'
    BY <1>11, <1>14, <2>2 DEF Accounted
  <2>4. Undated(t) => Undated(t)'
    BY <1>11, <1>14, <2>2 DEF Undated
  <2> QED
    BY <1>3, <2>1, <2>2, <2>3, <2>4 DEF RowRight
<1>15. RowRight(s)'
  <2> DEFINE e == schedule[s].expression
  <2>1. RowRight(s)
    BY DEF Inv, RowsRight
  <2>2. schedule'[s].expression = e /\ schedule'[s].agent = schedule[s].agent
        /\ schedule'[s].enabled = row.enabled /\ schedule'[s].next = row.next
        /\ since'[s] = since[s]
    BY <1>3, <1>5, <1>7
  <2>3. schedule[s].agent \notin archived'
    BY <1>3, <1>4, <2>1 DEF RowRight
  <2>4. ASSUME row.enabled, Dated(e) PROVE Accounted(s)'
    <3> DEFINE next == ScheduleNext(e, n)
    <3>1. row.next = next /\ next # NoTime
      BY <1>6, <2>4 DEF Claimed
    <3>2. /\ next \in Nat /\ n < next /\ Named(e, next)
          /\ \A t \in Nat : Named(e, t) /\ n < t => next <= t
      BY <1>4, <2>4, <3>1, NextTime
    <3> HIDE DEF next
    <3>3. Accounted(s)
      BY <1>4, <2>1, <2>4 DEF RowRight
    <3>4. /\ Named(e, n) /\ since[s] < n /\ since[s] \in Nat
          /\ \A r \in RunId : run[r].schedule = s =>
               run[r].for < n /\ (since[s] < run[r].for => Named(e, run[r].for))
          /\ \A t \in (since[s] + 1)..(n - 1) :
               Named(e, t) => \E r \in RunId : run[r].schedule = s /\ run[r].for = t
      BY <1>4, <3>3, RowTyped DEF Accounted
    <3> HIDE DEF e
    <3>5. since[s] < next
      BY <3>2, <3>4
    <3>6. \A r \in RunId' : run'[r].schedule = s =>
            run'[r].for < next /\ (since[s] < run'[r].for => Named(e, run'[r].for))
      <4>1. ASSUME NEW r \in RunId, run'[r].schedule = s
            PROVE  run'[r].for < next /\ (since[s] < run'[r].for => Named(e, run'[r].for))
        BY <1>11, <3>2, <3>4, <4>1, RunTyped
      <4> QED
        BY <1>11, <3>2, <3>4, <4>1
    <3>7. ASSUME NEW t \in (since[s] + 1)..(next - 1), Named(e, t)
          PROVE  \E r \in RunId' : run'[r].schedule = s /\ run'[r].for = t
      <4>1. t \in Nat /\ (t \in (since[s] + 1)..(n - 1) \/ t = n)
        BY <3>2, <3>4, <3>7
      <4> QED
        BY <1>11, <3>4, <3>7, <4>1
    <3> QED
      BY <2>2, <3>1, <3>2, <3>5, <3>6, <3>7 DEF Accounted
  <2>5. ASSUME ~Dated(e) PROVE Undated(s)'
    <3>1. Undated(s) /\ n = ZeroTime
      BY <1>4, <2>1, <2>5 DEF RowRight, Undated
    <3>2. row.enabled => row.next = ZeroTime
      BY <1>4, <1>6, <2>5, NextTime DEF Claimed
    <3> QED
      BY <1>11, <2>2, <3>1, <3>2 DEF Undated
  <2> QED
    BY <2>2, <2>3, <2>4, <2>5 DEF RowRight
<1>16. RowsRight'
  BY <1>7, <1>14, <1>15 DEF RowsRight
<1> QED
  BY <1>8, <1>12, <1>13, <1>16
LEMMA ClaimInv == ASSUME Typed, Typed', Inv, Claim PROVE Inv'
<1>1. Computed' /\ RunsPast' /\ RowsRight' /\ RowsGrow
  <2>1. CASE /\ Unchanged(Current) /\ Admitted(Current)
             /\ \E status, row, claim : Claimed(status, row, claim)
    BY <2>1, RecordedInv
  <2>2. CASE UNCHANGED <<schedule, run>>
    <3>1. SameRuns /\ RowsGrow /\ now <= now' /\ UNCHANGED table
      BY <2>2, RunSameRuns, TableRowsGrow, NowKept DEF Claim, table
    <3> QED
      BY <3>1, ComputedKept, RunsPastKept, RowsKeptRight DEF Inv, Claim, agents
  <2> QED
    BY <2>1, <2>2, ClaimCases
<1>2. LocksExclude' /\ Listed' /\ Decided'
  <2>1. CASE Returns
    <3>1. scheduler'.pc \in {"asleep", "next"} /\ ScheduleId \subseteq ScheduleId'
      BY <1>1, <2>1, ReturnsTyped DEF RowsGrow, Claim, Typed
    <3>2. Listed'
      BY <2>1, <3>1, ListedReturns DEF Inv, Claim
    <3> QED
      BY <3>1, <3>2, HeldNoMore, DecidedElsewhere DEF LocksExclude, Inv, Claim, agents
  <2>2. CASE scheduler' = [scheduler EXCEPT !.pc = "start"]
    <3>1. scheduler'.pc = "start" /\ scheduler'.todo = scheduler.todo
      BY <2>2 DEF Typed, SchedulerTyped, Scheduler
    <3>2. Listed'
      BY <3>1, NowKept, ListedKept DEF Inv, Claim
    <3>3. AgentOfCurrent' = AgentOfCurrent
      <4>1. Current' = Current /\ Current.schedule \in ScheduleId
        BY <3>1, CurrentTyped DEF Current, Claim
      <4> QED
        BY <1>1, <4>1 DEF AgentOfCurrent, RowsGrow
    <3>4. \A a \in Agent : HeldByScheduler(a)' => HeldByScheduler(a)
      BY <3>3 DEF HeldByScheduler, Claim
    <3> QED
      BY <3>1, <3>2, <3>4, DecidedElsewhere DEF LocksExclude, Inv, Claim, agents
  <2> QED
    BY <2>1, <2>2, ClaimCases
<1> QED
  BY <1>1, <1>2 DEF Inv

LEMMA HandlerStepInv ==
  ASSUME Typed, Typed', Inv, NEW a \in Agent, HandlerStep(a)
  PROVE  Inv'
BY InsertInv, SetEnabledInv, MessageInv, TakeoverInv, ArchiveInv, Zenon DEF HandlerStep

LEMMA RequestInv ==
  ASSUME Typed, Typed', Inv, NEW a \in Agent, Request(a)
  PROVE  Inv'
BY CreateInv, BeginInv, Zenon DEF Request

LEMMA EditInv ==
  ASSUME Typed, Typed', Inv, NEW s \in ScheduleId, Edit(s)
  PROVE  Inv'
BY DeleteInv, UpdateInv, Zenon DEF Edit

LEMMA SchedulerStepInv == ASSUME Typed, Typed', Inv, SchedulerStep PROVE Inv'
BY ScanInv, DecideInv, ClaimInv, StartInv, Zenon DEF SchedulerStep

LEMMA NextInv == ASSUME Typed, Typed', Inv, [Next]_vars PROVE Inv'
<1>1. CASE \E a \in Agent : Request(a) \/ HandlerStep(a) \/ DesktopReturns(a) \/ ChatEnds(a)
  BY <1>1, RequestInv, HandlerStepInv, AgentReturnsInv, Zenon
<1>2. CASE \E s \in ScheduleId : Edit(s) \/ FirstPage(s)
  BY <1>2, EditInv, PagesInv, Zenon
<1>3. CASE \E r \in RunId : RunEnds(r)
  BY <1>3, RunEndsInv, Zenon
<1>4. CASE Tick \/ SchedulerStep \/ LockAgent \/ Restart \/ NextPage
  BY <1>4, TickInv, SchedulerStepInv, LockAgentInv, RestartInv, PagesInv, Zenon
<1>5. CASE UNCHANGED vars
  BY <1>5, PagesInv
<1> QED
  BY <1>1, <1>2, <1>3, <1>4, <1>5 DEF Next

LEMMA InvHolds == Spec => [](Typed /\ Inv)
<1>1. Init => Typed /\ Inv
  BY InitTyped, InitInv
<1>2. Typed /\ Inv /\ [Next]_vars => (Typed /\ Inv)'
  BY NextTyped, NextInv
<1> QED
  BY <1>1, <1>2, PTL DEF Spec

\* While a schedule stays enabled, each of its occurrences before the next has a run or was recorded
\* as skipped, and the next is not one of them: whatever the scheduler has read, whoever switches
\* the schedule meanwhile, and however often the server restarts.
THEOREM OccurrencesAccountedFor == Spec => []OccurrencesAreAccountedFor
BY InvHolds, InvImpliesAccounted, PTL

-----------------------------------------------------------------------------
(***************************************************************************)
(* What is recorded, and when.                                             *)
(***************************************************************************)

LEMMA HandlersRecordNothing ==
  ASSUME Typed, NEW a \in Agent,
         Request(a) \/ HandlerStep(a) \/ DesktopReturns(a) \/ ChatEnds(a)
  PROVE  SameRuns
<1>1. CASE Takeover(a) \/ ArchiveAgent(a)
  BY <1>1, InterruptedRuns DEF Takeover, ArchiveAgent
<1>2. CASE ~(Takeover(a) \/ ArchiveAgent(a))
  <2>1. run' = run
    BY <1>2 DEF Request, CreateSchedule, Begin, HandlerStep, Insert, SetScheduleEnabled, Message,
                DesktopReturns, ChatEnds
  <2> QED
    BY <2>1, RunSameRuns
<1> QED
  BY <1>1, <1>2

LEMMA OnlyClaimRecords ==
  ASSUME Typed, [Next]_vars
  PROVE  SameRuns \/ Claim
<1>1. CASE \E a \in Agent : Request(a) \/ HandlerStep(a) \/ DesktopReturns(a) \/ ChatEnds(a)
  BY <1>1, HandlersRecordNothing
<1>2. CASE \E s \in ScheduleId : Edit(s) \/ FirstPage(s)
  BY <1>2, RunSameRuns DEF Edit, DeleteSchedule, UpdateSchedule, FirstPage
<1>3. CASE \E r \in RunId : RunEnds(r)
  <2>1. ScheduleId' = ScheduleId
    BY <1>3 DEF RunEnds, table, ScheduleId
  <2> QED
    BY <1>3, <2>1, StatusTyped DEF RunEnds, SameRuns, SameRun, Typed
<1>4. CASE Start
  BY <1>4, StartKeeps DEF SameRuns, SameRun
<1>5. CASE Tick \/ Scan \/ Decide \/ LockAgent \/ Restart \/ NextPage \/ UNCHANGED vars
  BY <1>5, RunSameRuns DEF Tick, Scan, Decide, LockAgent, Restart, NextPage, vars
<1> QED
  BY <1>1, <1>2, <1>3, <1>4, <1>5, Zenon DEF Next, SchedulerStep

\* A step that adds a run claims the current occurrence of an enabled schedule.
LEMMA WhatIsRecorded ==
  ASSUME Typed, [Next]_vars, NEW r \in RunId' \ RunId
  PROVE  /\ scheduler.pc = "claim" /\ Unchanged(Current) /\ Admitted(Current)
         /\ Current.schedule \in ScheduleId
         /\ run'[r].schedule = Current.schedule /\ run'[r].for = Current.next
         /\ run'[r].status = IF scheduler.busy THEN "skipped_overlap" ELSE "queued"
         /\ r = Len(run) + 1
<1>1. Claim
  BY OnlyClaimRecords DEF SameRuns
<1>2. ~UNCHANGED <<schedule, run>>
  BY DEF RunId
<1>3. PICK status, row, claim : Claimed(status, row, claim)
  BY <1>1, <1>2, ClaimCases
<1>4. Current.schedule \in ScheduleId /\ ScheduleId' = ScheduleId
  BY <1>1, <1>3, CurrentTyped, ClaimedTyped DEF Claim
<1>5. /\ claim \in Run /\ claim.schedule = Current.schedule /\ claim.for = Current.next
      /\ claim.status = IF scheduler.busy THEN "skipped_overlap" ELSE "queued"
      /\ run' = Append(run, claim)
  BY <1>3 DEF Claimed
<1>6. RunId' = RunId \cup {Len(run) + 1} /\ run'[Len(run) + 1] = claim
  BY <1>4, <1>5, RunAppended DEF Typed
<1>7. run'[r] = claim /\ r = Len(run) + 1
  BY <1>6
<1> QED
  BY <1>1, <1>2, <1>4, <1>5, <1>7, ClaimCases DEF Claim

\* A run is recorded only for a schedule that is enabled at that moment, whose agent exists, and for
\* a time that the schedule names, that has come, and that lies behind its last switching on.
THEOREM OnlyEnabledRun == Spec => OnlyEnabledOccurrencesRun
<1>1. ASSUME Typed, Inv, [Next]_vars, NEW r \in RunId' \ RunId
      PROVE  LET s == run'[r].schedule
             IN /\ schedule[s].enabled /\ schedule[s].agent \notin archived
                /\ run'[r].for <= now
                /\ HasTimes(s) => Names(s, run'[r].for) /\ since[s] < run'[r].for
  <2>1. PICK s \in ScheduleId : s = Current.schedule /\ s = run'[r].schedule
    BY <1>1, WhatIsRecorded
  <2>2. /\ scheduler.pc = "claim" /\ run'[r].for = Current.next
        /\ schedule[s].enabled /\ schedule[s].next = Current.next
    BY <1>1, <2>1, WhatIsRecorded DEF Unchanged
  <2>3. Current.next <= now
    BY <1>1, <2>2, CurrentTyped DEF Inv, Listed
  <2>4. schedule[s].agent \notin archived
    BY <1>1, <2>2 DEF Inv, RowsRight, RowRight
  <2>5. HasTimes(s) => Names(s, Current.next) /\ since[s] < Current.next
    BY <1>1, <2>2 DEF Inv, RowsRight, RowRight, Accounted, HasTimes, Dated, Names, Named
  <2> QED
    BY <2>1, <2>2, <2>3, <2>4, <2>5
<1>2. ASSUME Typed, Inv, [Next]_vars
      PROVE  \A r \in DOMAIN run' \ RunId :
               LET s == run'[r].schedule
               IN /\ schedule[s].enabled /\ schedule[s].agent \notin archived
                  /\ run'[r].for <= now
                  /\ HasTimes(s) => Names(s, run'[r].for) /\ since[s] < run'[r].for
  BY <1>1, <1>2 DEF RunId
<1> QED
  BY <1>2, InvHolds, PTL DEF Spec, OnlyEnabledOccurrencesRun

\* A run starts only for an agent without an active run and without a human at its desktop, although
\* that was looked up before the claim; one that is skipped has waited for the whole grace.
THEOREM WaitTheirTurn == Spec => OccurrencesWaitTheirTurn
<1>1. ASSUME Typed, Inv, [Next]_vars, NEW r \in RunId' \ RunId
      PROVE  IF run'[r].status = "queued"
             THEN LET a == schedule[run'[r].schedule].agent IN ~Busy(a) /\ ~human[a]
             ELSE now - run'[r].for >= Grace
  <2>1. /\ scheduler.pc = "claim" /\ Admitted(Current)
        /\ run'[r].schedule = Current.schedule /\ run'[r].for = Current.next
        /\ run'[r].status = IF scheduler.busy THEN "skipped_overlap" ELSE "queued"
    BY <1>1, WhatIsRecorded
  <2>2. IF scheduler.busy THEN now - Current.next >= Grace ELSE ~human[AgentOfCurrent]
    BY <1>1, <2>1 DEF Inv, Decided
  <2>3. CASE scheduler.busy
    BY <2>1, <2>2, <2>3
  <2>4. CASE ~scheduler.busy
    BY <2>1, <2>2, <2>4 DEF Admitted, AgentOfCurrent
  <2> QED
    BY <2>3, <2>4
<1>2. ASSUME Typed, Inv, [Next]_vars
      PROVE  \A r \in DOMAIN run' \ RunId :
               IF run'[r].status = "queued"
               THEN LET a == schedule[run'[r].schedule].agent IN ~Busy(a) /\ ~human[a]
               ELSE now - run'[r].for >= Grace
  BY <1>1, <1>2 DEF RunId
<1> QED
  BY <1>2, InvHolds, PTL DEF Spec, OccurrencesWaitTheirTurn
-----------------------------------------------------------------------------
(***************************************************************************)
(* The history.  The cursor is a run, and the next page begins behind its  *)
(* time: the runs of a schedule are recorded in the order of their times,  *)
(* so that a run that is added is newer than all that the client has yet   *)
(* to receive.                                                             *)
(***************************************************************************)

InOrder ==
  \A q, r \in RunId : q < r /\ run[q].schedule = run[r].schedule => run[q].for < run[r].for

Got(r) == \E k \in DOMAIN page.got : page.got[k] = r

\* The runs that there were at the first page.
Asked(r) == r \in RunsOf(page.schedule) /\ r <= page.first

Last == page.got[Len(page.got)]

PageRight ==
  /\ page.pc = "none" => page.got = <<>>
  /\ page.pc # "none" =>
       /\ page.first <= Len(run)
       /\ \A k \in DOMAIN page.got : Asked(page.got[k])
       /\ \A k, n \in DOMAIN page.got : k < n => run[page.got[n]].for < run[page.got[k]].for
  /\ page.pc = "reading" =>
       /\ page.got # <<>>
       /\ \A r \in RunId : Asked(r) /\ run[r].for >= run[Last].for => Got(r)
  /\ page.pc = "done" => \A r \in RunId : Asked(r) => Got(r)

LEMMA InitPage == Init => InOrder /\ PageRight
<1> SUFFICES ASSUME Init PROVE InOrder /\ PageRight
  OBVIOUS
<1>1. RunId = {} /\ page.pc = "none" /\ page.got = <<>>
  BY DEF Init, RunId, NoPage
<1> QED
  BY <1>1 DEF InOrder, PageRight

LEMMA PageImpliesComplete == PageRight => HistoryIsComplete
<1> SUFFICES ASSUME PageRight, page.pc = "done"
             PROVE  /\ {page.got[k] : k \in DOMAIN page.got} = {r \in RunsOf(page.schedule) : r <= page.first}
                    /\ \A k, n \in DOMAIN page.got : k < n => run[page.got[n]].for < run[page.got[k]].for
  BY DEF HistoryIsComplete
<1>1. \A k \in DOMAIN page.got : Asked(page.got[k])
  BY DEF PageRight
<1>2. \A r \in RunId : Asked(r) => Got(r)
  BY DEF PageRight
<1> QED
  BY <1>1, <1>2 DEF PageRight, Asked, Got, RunsOf

LEMMA InOrderKept ==
  ASSUME Typed, Inv, InOrder, [Next]_vars
  PROVE  InOrder'
<1>1. CASE SameRuns
  BY <1>1 DEF SameRuns, SameRun, InOrder
<1>2. ASSUME NEW r \in RunId' \ RunId, NEW q \in RunId, run[q].schedule = run'[r].schedule
      PROVE  run[q].for < run'[r].for
  <2>1. PICK s \in ScheduleId : s = Current.schedule /\ s = run'[r].schedule
    BY <1>2, WhatIsRecorded
  <2>2. /\ run'[r].for = Current.next /\ schedule[s].enabled /\ schedule[s].next = Current.next
        /\ run[q].for # Current.next
    BY <1>2, <2>1, WhatIsRecorded DEF Unchanged, Admitted
  <2>3. RowRight(s)
    BY DEF Inv, RowsRight
  <2>4. CASE Dated(schedule[s].expression)
    BY <1>2, <2>1, <2>2, <2>3, <2>4 DEF RowRight, Accounted
  <2>5. CASE ~Dated(schedule[s].expression)
    BY <1>2, <2>1, <2>2, <2>3, <2>5 DEF RowRight, Undated
  <2> QED
    BY <2>4, <2>5
<1>3. CASE ~SameRuns
  <2>1. PICK status, row, claim : Claimed(status, row, claim)
    <3>1. Claim
      BY <1>3, OnlyClaimRecords
    <3>2. ~UNCHANGED <<schedule, run>>
      BY <1>3, RunSameRuns
    <3> QED
      BY <3>1, <3>2, ClaimCases
  <2>2. Claim
    BY <1>3, OnlyClaimRecords
  <2>3. /\ RunId' = RunId \cup {Len(run) + 1} /\ Len(run) + 1 \notin RunId
        /\ \A r \in RunId : run'[r] = run[r]
    <3>1. claim \in Run /\ claim.schedule \in ScheduleId /\ run' = Append(run, claim)
      BY <2>1, <2>2, CurrentTyped DEF Claimed, Claim
    <3>2. ScheduleId' = ScheduleId
      BY <2>1, <2>2, ClaimedTyped
    <3> QED
      BY <3>1, <3>2, RunAppended DEF Typed
  <2>4. \A q \in RunId : q < Len(run) + 1
    BY DEF RunId, Typed, RunsTyped
  <2>5. \A q \in RunId : ~(Len(run) + 1 < q)
    BY DEF RunId, Typed, RunsTyped
  <2> QED
    BY <1>2, <2>3, <2>4, <2>5 DEF InOrder
<1> QED
  BY <1>1, <1>3

LEMMA RunsOnlyAdded ==
  ASSUME Typed, [Next]_vars
  PROVE  /\ \A r \in RunId : r \in RunId' /\ SameRun(r)
         /\ \A r \in RunId' : r \in RunId \/ r = Len(run) + 1
         /\ Len(run) <= Len(run')
<1>1. CASE SameRuns
  <2>1. Len(run') = Len(run)
    BY <1>1, NextTyped DEF SameRuns, RunId, Typed, RunsTyped
  <2> QED
    BY <1>1, <2>1 DEF SameRuns, Typed, RunsTyped
<1>2. CASE ~SameRuns
  <2>1. Claim /\ ~UNCHANGED <<schedule, run>>
    BY <1>2, OnlyClaimRecords, RunSameRuns
  <2>2. PICK status, row, claim : Claimed(status, row, claim)
    BY <2>1, ClaimCases
  <2>3. claim \in Run /\ claim.schedule \in ScheduleId /\ run' = Append(run, claim) /\ ScheduleId' = ScheduleId
    BY <2>1, <2>2, CurrentTyped, ClaimedTyped DEF Claimed, Claim
  <2>4. RunId' = RunId \cup {Len(run) + 1} /\ \A r \in RunId : run'[r] = run[r]
    BY <2>3, RunAppended DEF Typed
  <2>5. Len(run) <= Len(run')
    BY <2>3 DEF Typed, RunsTyped
  <2> QED
    BY <2>4, <2>5 DEF SameRun
<1> QED
  BY <1>1, <1>2

LEMMA PageKept ==
  ASSUME Typed, PageRight, [Next]_vars, page' = page
  PROVE  PageRight'
<1>1. Len(run) \in Nat /\ Len(run') \in Nat /\ page.first \in Nat
  BY NextTyped DEF Typed, RunsTyped, Page
<1>2. /\ \A r \in RunId : r \in RunId' /\ SameRun(r)
      /\ \A r \in RunId' : r \in RunId \/ r = Len(run) + 1
      /\ Len(run) <= Len(run')
  BY RunsOnlyAdded
<1>3. \A r : Got(r)' <=> Got(r)
  BY DEF Got
<1>4. CASE page.pc = "none"
  BY <1>4 DEF PageRight
<1>5. CASE page.pc # "none"
  <2>1. page.first <= Len(run)
    BY <1>5 DEF PageRight
  <2>2. \A r : Asked(r)' <=> Asked(r)
    BY <1>1, <1>2, <2>1 DEF Asked, RunsOf, SameRun
  <2>3. \A r : Asked(r) => r \in RunId /\ SameRun(r)
    BY <1>2 DEF Asked, RunsOf
  <2>4. \A k \in DOMAIN page.got : Asked(page.got[k]) /\ run'[page.got[k]].for = run[page.got[k]].for
    BY <1>5, <2>3 DEF PageRight, SameRun
  <2>5. page.first <= Len(run')
    BY <1>1, <1>2, <2>1
  <2>6. ASSUME page.pc = "reading"
        PROVE  /\ page.got # <<>>
               /\ \A r \in RunId' : Asked(r)' /\ run'[r].for >= run'[Last'].for => Got(r)'
    <3>1. page.got # <<>> /\ Last' = Last /\ run'[Last].for = run[Last].for
      <4>1. page.got # <<>> /\ page.got \in Seq(Nat)
        BY <2>6 DEF PageRight, Typed, Page
      <4>2. Len(page.got) \in DOMAIN page.got
        BY <4>1
      <4> QED
        BY <2>4, <4>1, <4>2 DEF Last
    <3> QED
      BY <1>3, <2>2, <2>3, <2>6, <3>1 DEF PageRight, SameRun
  <2>7. page.pc = "done" => \A r \in RunId' : Asked(r)' => Got(r)'
    BY <1>3, <2>2, <2>3 DEF PageRight
  <2>8. \A k, n \in DOMAIN page.got : k < n => run'[page.got[n]].for < run'[page.got[k]].for
    BY <1>5, <2>4 DEF PageRight
  <2>9. \A k \in DOMAIN page.got : /\ page.got[k] \in RunId' /\ page.got[k] <= page.first
                                   /\ run'[page.got[k]].schedule = page.schedule
    BY <2>3, <2>4, <1>2 DEF Asked, RunsOf, SameRun
  <2>10. (\A k \in DOMAIN page.got : Asked(page.got[k]))'
    BY <2>9 DEF Asked, RunsOf
  <2> QED
    BY <1>5, <2>5, <2>6, <2>7, <2>8, <2>10 DEF PageRight
<1> QED
  BY <1>4, <1>5
\* The pages of a query: in order, without a gap, and all of the rows when there are few.
LEMMA NewestAre ==
  ASSUME Typed, InOrder, NEW s, NEW rows \in SUBSET RunsOf(s), NEW q \in Newest(rows)
  PROVE  /\ \A k \in DOMAIN q : q[k] \in rows
         /\ \A i, k \in DOMAIN q : i < k => run[q[k]].for < run[q[i]].for
         /\ \A r \in rows : \A k \in DOMAIN q :
              run[r].for >= run[q[k]].for => \E i \in DOMAIN q : q[i] = r
         /\ Cardinality(rows) <= PageSize => \A r \in rows : \E i \in DOMAIN q : q[i] = r
         /\ Cardinality(rows) > PageSize => q # <<>>
<1>1. rows \in SUBSET RunId /\ \A r \in rows : run[r].schedule = s
  BY DEF RunsOf
<1>2. /\ Cardinality(rows) \in Nat /\ q \in Seq(rows) /\ PageSize \in Nat \ {0}
      /\ Len(q) = IF Cardinality(rows) < PageSize THEN Cardinality(rows) ELSE PageSize
  BY <1>1, NewestTyped, SchedulesAssumption
<1> DEFINE n == Len(q)
<1>3. n \in Nat /\ DOMAIN q = 1..n /\ \A k \in 1..n : q[k] \in rows
  BY <1>2
<1>4. \A k \in 1..n : \A r \in rows :
        run[r].for > run[q[k]].for <=> \E i \in 1..(k - 1) : q[i] = r
  BY <1>2 DEF Newest
<1> HIDE DEF n
<1>5. \A r \in rows : r \in Nat /\ run[r].for \in Nat
  BY <1>1, RunTyped, RunIdFinite
<1>6. \A r, p \in rows : run[r].for = run[p].for => r = p
  BY <1>1, <1>5 DEF InOrder
<1>7. ASSUME NEW i \in 1..n, NEW k \in 1..n, i < k
      PROVE  run[q[k]].for < run[q[i]].for
  <2>1. i \in 1..(k - 1) /\ q[i] \in rows /\ q[k] \in rows
    BY <1>3, <1>7
  <2>2. run[q[i]].for > run[q[k]].for
    BY <1>4, <2>1
  <2> QED
    BY <1>5, <2>1, <2>2
<1>8. ASSUME NEW r \in rows, NEW k \in 1..n, run[r].for >= run[q[k]].for
      PROVE  \E i \in 1..n : q[i] = r
  <2>1. CASE run[r].for = run[q[k]].for
    BY <1>3, <1>6, <2>1
  <2>2. CASE run[r].for > run[q[k]].for
    <3>1. PICK i \in 1..(k - 1) : q[i] = r
      BY <1>4, <2>2
    <3>2. i \in 1..n
      BY <1>3
    <3> QED
      BY <3>1, <3>2
  <2> QED
    BY <1>3, <1>5, <1>8, <2>1, <2>2
<1>9. ASSUME Cardinality(rows) <= PageSize
      PROVE  \A r \in rows : \E i \in 1..n : q[i] = r
  <2>1. n = Cardinality(rows)
    BY <1>2, <1>9 DEF n
  <2>2. \A i, k \in 1..n : q[i] = q[k] => i = k
    <3>1. ASSUME NEW i \in 1..n, NEW k \in 1..n, i < k PROVE q[i] # q[k]
      BY <1>3, <1>5, <1>7, <3>1
    <3> QED
      BY <1>3, <3>1
  <2>3. q \in [1..n -> rows]
    BY <1>2, <1>3
  <2>4. q \in Injection(1..n, rows)
    BY <2>2, <2>3 DEF Injection, IsInjective
  <2>5. IsFiniteSet(rows) /\ Cardinality(1..n) = n
    <3>1. IsFiniteSet(rows)
      BY <1>1, RunIdFinite, FS_Subset
    <3>2. Cardinality(1..n) = IF 1 > n THEN 0 ELSE n - 1 + 1
      BY <1>3, FS_Interval
    <3> QED
      BY <1>3, <3>1, <3>2
  <2>6. q \in Surjection(1..n, rows)
    BY <2>1, <2>4, <2>5, FS_Injection
  <2> QED
    BY <2>6 DEF Surjection
<1>10. Cardinality(rows) > PageSize => q # <<>>
  BY <1>2
<1> QED
  BY <1>3, <1>7, <1>8, <1>9, <1>10

LEMMA Joined ==
  ASSUME NEW S, NEW p \in Seq(S), NEW q \in Seq(S)
  PROVE  /\ \A k \in DOMAIN (p \o q) :
              \/ k \in DOMAIN p /\ (p \o q)[k] = p[k]
              \/ /\ k \notin DOMAIN p /\ k - Len(p) \in DOMAIN q
                 /\ (p \o q)[k] = q[k - Len(p)]
         /\ \A k \in DOMAIN p : k \in DOMAIN (p \o q) /\ (p \o q)[k] = p[k]
         /\ \A k \in DOMAIN q : k + Len(p) \in DOMAIN (p \o q) /\ (p \o q)[k + Len(p)] = q[k]
         /\ q # <<>> => /\ p \o q # <<>> /\ Len(q) \in DOMAIN q
                        /\ (p \o q)[Len(p \o q)] = q[Len(q)]
<1>1. /\ Len(p) \in Nat /\ Len(q) \in Nat /\ DOMAIN p = 1..Len(p) /\ DOMAIN q = 1..Len(q)
      /\ p \o q \in Seq(S) /\ Len(p \o q) = Len(p) + Len(q)
      /\ DOMAIN (p \o q) = 1..(Len(p) + Len(q))
  OBVIOUS
<1>2. \A k \in 1..(Len(p) + Len(q)) : (p \o q)[k] = IF k <= Len(p) THEN p[k] ELSE q[k - Len(p)]
  OBVIOUS
<1>3. q # <<>> => Len(q) # 0
  OBVIOUS
<1>4. q # <<>> => p \o q # <<>>
  BY <1>1, <1>3
<1> DEFINE m == Len(p)  n == Len(q)
<1>5. m \in Nat /\ n \in Nat
  BY <1>1
<1> HIDE DEF m, n
<1>6. \A k \in 1..(m + n) : (k \in 1..m /\ k <= m) \/ (k \notin 1..m /\ ~(k <= m) /\ k - m \in 1..n)
  BY <1>5
<1>7. \A k \in 1..m : k \in 1..(m + n) /\ k <= m
  BY <1>5
<1>8. \A k \in 1..n : k + m \in 1..(m + n) /\ ~(k + m <= m) /\ k + m - m = k
  BY <1>5
<1>9. n # 0 => n \in 1..n
  BY <1>5
<1>10. m + n = n + m
  BY <1>5
<1> QED
  BY <1>1, <1>2, <1>3, <1>4, <1>6, <1>7, <1>8, <1>9, <1>10 DEF m, n
\* What a page is made of: the cursor is behind all that was received, and before all that is left.
LEMMA CursorDivides ==
  ASSUME Typed, InOrder, PageRight, NEW s, NEW rows, NEW first,
         \/ page.pc = "none" /\ rows = RunsOf(s) /\ first = Len(run)
         \/ /\ page.pc = "reading" /\ s = page.schedule /\ first = page.first
            /\ rows = {r \in RunsOf(s) : run[r].for < run[Last].for}
  PROVE  /\ first <= Len(run)
         /\ \A k \in DOMAIN page.got : page.got[k] \in RunsOf(s) /\ page.got[k] <= first
         /\ \A r \in rows : r <= first
         /\ \A k \in DOMAIN page.got : \A r \in rows : run[r].for < run[page.got[k]].for
         /\ \A k, n \in DOMAIN page.got : k < n => run[page.got[n]].for < run[page.got[k]].for
         /\ \A r \in RunsOf(s) : r <= first => r \in rows \/ Got(r)
<1>1. page.got \in Seq(Nat) /\ Len(run) \in Nat /\ RunId = 1..Len(run) /\ page.first \in Nat
  BY DEF Typed, Page, RunsTyped, RunId
<1>2. RunsOf(s) \subseteq RunId /\ \A r \in RunsOf(s) : run[r].schedule = s
  BY DEF RunsOf
<1>3. CASE page.pc = "none"
  <2>1. DOMAIN page.got = {} /\ rows = RunsOf(s) /\ first = Len(run)
    BY <1>3 DEF PageRight
  <2> QED
    BY <1>1, <1>2, <2>1
<1>4. CASE page.pc = "reading"
  <2>1. /\ s = page.schedule /\ first = page.first
        /\ rows = {r \in RunsOf(s) : run[r].for < run[Last].for}
    BY <1>4
  <2>2. /\ page.got # <<>> /\ first <= Len(run)
        /\ \A k \in DOMAIN page.got : page.got[k] \in RunsOf(s) /\ page.got[k] <= first
        /\ \A k, n \in DOMAIN page.got : k < n => run[page.got[n]].for < run[page.got[k]].for
        /\ \A r \in RunId : Asked(r) /\ run[r].for >= run[Last].for => Got(r)
    BY <1>4, <2>1 DEF PageRight, Asked
  <2>3. /\ Len(page.got) \in DOMAIN page.got
        /\ \A k \in DOMAIN page.got : k < Len(page.got) \/ k = Len(page.got)
    BY <1>1, <2>2
  <2>4. Last \in RunsOf(s) /\ Last <= first /\ Last \in RunId /\ run[Last].for \in Nat
    BY <1>2, <2>2, <2>3, RunTyped DEF Last
  <2>5. \A k \in DOMAIN page.got : run[Last].for <= run[page.got[k]].for
    <3>1. ASSUME NEW k \in DOMAIN page.got PROVE run[Last].for <= run[page.got[k]].for
      <4>1. run[page.got[k]].for \in Nat
        BY <1>2, <2>2, RunTyped
      <4>2. CASE k = Len(page.got)
        BY <4>1, <4>2 DEF Last
      <4>3. CASE k < Len(page.got)
        <5>1. run[page.got[Len(page.got)]].for < run[page.got[k]].for
          BY <2>2, <2>3, <4>3
        <5> QED
          BY <2>4, <4>1, <5>1 DEF Last
      <4> QED
        BY <2>3, <4>2, <4>3
    <3> QED
      BY <3>1
  <2>6. \A r \in rows : r \in RunId /\ run[r].schedule = s /\ run[r].for \in Nat /\ run[r].for < run[Last].for
    BY <1>2, <2>1, RunTyped
  <2>7. ASSUME NEW r \in rows PROVE r <= first
    <3>1. ~(Last < r)
      <4>1. Last < r => run[Last].for < run[r].for
        BY <1>2, <2>4, <2>6 DEF InOrder
      <4> QED
        BY <2>4, <2>6, <4>1
    <3> QED
      BY <1>1, <2>1, <2>4, <2>6, <3>1
  <2>8. ASSUME NEW k \in DOMAIN page.got, NEW r \in rows
        PROVE  run[r].for < run[page.got[k]].for
    <3>1. run[page.got[k]].for \in Nat
      BY <1>2, <2>2, RunTyped
    <3> QED
      BY <2>4, <2>5, <2>6, <3>1
  <2>9. ASSUME NEW r \in RunsOf(s), r <= first
        PROVE  r \in rows \/ Got(r)
    <3>1. r \in RunId /\ run[r].for \in Nat /\ Asked(r)
      BY <1>2, <2>1, <2>9, RunTyped DEF Asked
    <3>2. run[r].for < run[Last].for \/ run[r].for >= run[Last].for
      BY <2>4, <3>1
    <3> QED
      BY <2>1, <2>2, <3>1, <3>2
  <2> QED
    BY <2>2, <2>7, <2>8, <2>9
<1> QED
  BY <1>3, <1>4

LEMMA PageTurns ==
  ASSUME Typed, InOrder, PageRight, run' = run, NEW s, NEW rows, NEW first,
         ScheduleRuns(s, rows), first = IF page.pc = "none" THEN Len(run) ELSE page.first,
         \/ page.pc = "none" /\ rows = RunsOf(s)
         \/ /\ page.pc = "reading" /\ s = page.schedule
            /\ rows = {r \in RunsOf(s) : run[r].for < run[Last].for}
  PROVE  PageRight'
<1>1. PICK q \in Newest(rows) :
        page' = [page EXCEPT !.pc = IF Cardinality(rows) > PageSize THEN "reading" ELSE "done",
                             !.schedule = s, !.got = @ \o q,
                             !.first = IF page.pc = "none" THEN Len(run) ELSE @]
  BY DEF ScheduleRuns
<1>2. /\ page'.pc = (IF Cardinality(rows) > PageSize THEN "reading" ELSE "done")
      /\ page'.schedule = s /\ page'.got = page.got \o q /\ page'.first = first
  BY <1>1 DEF Typed, Page
<1>3. rows \in SUBSET RunsOf(s) /\ RunsOf(s) \in SUBSET RunId
  BY DEF RunsOf
<1>4. /\ first <= Len(run)
      /\ \A k \in DOMAIN page.got : page.got[k] \in RunsOf(s) /\ page.got[k] <= first
      /\ \A r \in rows : r <= first
      /\ \A k \in DOMAIN page.got : \A r \in rows : run[r].for < run[page.got[k]].for
      /\ \A k, n \in DOMAIN page.got : k < n => run[page.got[n]].for < run[page.got[k]].for
      /\ \A r \in RunsOf(s) : r <= first => r \in rows \/ Got(r)
  BY CursorDivides
<1>5. /\ \A k \in DOMAIN q : q[k] \in rows
      /\ \A i, k \in DOMAIN q : i < k => run[q[k]].for < run[q[i]].for
      /\ \A r \in rows : \A k \in DOMAIN q :
           run[r].for >= run[q[k]].for => \E i \in DOMAIN q : q[i] = r
      /\ Cardinality(rows) <= PageSize => \A r \in rows : \E i \in DOMAIN q : q[i] = r
      /\ Cardinality(rows) > PageSize => q # <<>>
  BY <1>1, <1>3, NewestAre
<1>6. page.got \in Seq(Nat) /\ q \in Seq(Nat) /\ Cardinality(rows) \in Nat /\ PageSize \in Nat
  BY <1>1, <1>3, NewestTyped, SchedulesAssumption DEF Typed, Page
<1> DEFINE all == page.got \o q
<1>7. /\ \A k \in DOMAIN all :
           \/ k \in DOMAIN page.got /\ all[k] = page.got[k]
           \/ /\ k \notin DOMAIN page.got /\ k - Len(page.got) \in DOMAIN q
              /\ all[k] = q[k - Len(page.got)]
      /\ \A k \in DOMAIN page.got : k \in DOMAIN all /\ all[k] = page.got[k]
      /\ \A k \in DOMAIN q : k + Len(page.got) \in DOMAIN all /\ all[k + Len(page.got)] = q[k]
      /\ q # <<>> => /\ all # <<>> /\ Len(q) \in DOMAIN q /\ all[Len(all)] = q[Len(q)]
  BY <1>6, Joined
<1>8. /\ DOMAIN page.got = 1..Len(page.got) /\ Len(page.got) \in Nat
      /\ all \in Seq(Nat) /\ DOMAIN all = 1..Len(all) /\ Len(all) \in Nat
  BY <1>6
<1>9. page'.got = all
  BY <1>2
<1> HIDE DEF all
<1>10. \A k \in DOMAIN all : all[k] \in RunsOf(s) /\ all[k] <= first
  BY <1>3, <1>4, <1>5, <1>7
<1>11. ASSUME NEW k \in DOMAIN all, NEW n \in DOMAIN all, k < n
       PROVE  run[all[n]].for < run[all[k]].for
  <2>1. CASE k \in DOMAIN page.got /\ n \in DOMAIN page.got
    BY <1>4, <1>7, <1>11, <2>1
  <2>2. CASE k \in DOMAIN page.got /\ n \notin DOMAIN page.got
    BY <1>4, <1>5, <1>7, <2>2, SMTT(30)
  <2>3. CASE k \notin DOMAIN page.got
    <3>1. n \notin DOMAIN page.got
      BY <1>8, <1>11, <2>3
    <3>2. /\ k - Len(page.got) \in DOMAIN q /\ n - Len(page.got) \in DOMAIN q
          /\ all[k] = q[k - Len(page.got)] /\ all[n] = q[n - Len(page.got)]
      BY <1>7, <2>3, <3>1
    <3>3. k - Len(page.got) < n - Len(page.got)
      BY <1>8, <1>11
    <3> QED
      BY <1>5, <3>2, <3>3
  <2> QED
    BY <2>1, <2>2, <2>3
<1>12. \A r : Got(r) \/ (\E i \in DOMAIN q : q[i] = r) => \E k \in DOMAIN all : all[k] = r
  BY <1>7 DEF Got
<1>13. ASSUME Cardinality(rows) > PageSize
       PROVE  /\ all # <<>>
              /\ \A r \in RunsOf(s) : r <= first /\ run[r].for >= run[all[Len(all)]].for =>
                   \E k \in DOMAIN all : all[k] = r
  <2>1. all # <<>> /\ Len(q) \in DOMAIN q /\ all[Len(all)] = q[Len(q)]
    BY <1>5, <1>7, <1>13
  <2> QED
    BY <1>4, <1>5, <1>12, <2>1
<1>14. ASSUME ~(Cardinality(rows) > PageSize)
       PROVE  \A r \in RunsOf(s) : r <= first => \E k \in DOMAIN all : all[k] = r
  <2>1. Cardinality(rows) <= PageSize
    BY <1>6, <1>14
  <2> QED
    BY <1>4, <1>5, <1>12, <2>1
<1>15. \A r : Asked(r)' <=> r \in RunsOf(s) /\ r <= first
  BY <1>2 DEF Asked, RunsOf, RunId
<1>16. \A r : Got(r)' <=> \E k \in DOMAIN all : all[k] = r
  BY <1>9 DEF Got
<1>17. (page.pc # "none" =>
          /\ page.first <= Len(run)
          /\ \A k \in DOMAIN page.got : Asked(page.got[k])
          /\ \A k, n \in DOMAIN page.got : k < n => run[page.got[n]].for < run[page.got[k]].for)'
  <2>1. (\A k \in DOMAIN page.got : Asked(page.got[k]))'
    BY <1>2, <1>9, <1>10 DEF Asked, RunsOf, RunId
  <2> QED
    BY <1>2, <1>4, <1>9, <1>11, <2>1
<1>18. (page.pc = "reading" =>
          /\ page.got # <<>>
          /\ \A r \in RunId : Asked(r) /\ run[r].for >= run[Last].for => Got(r))'
  <2>1. Last' = all[Len(all)]
    BY <1>9 DEF Last
  <2> QED
    BY <1>2, <1>9, <1>13, <1>15, <1>16, <2>1
<1>19. (page.pc = "done" => \A r \in RunId : Asked(r) => Got(r))'
  BY <1>2, <1>14, <1>15, <1>16
<1> QED
  BY <1>2, <1>17, <1>18, <1>19 DEF PageRight

LEMMA FirstPageRight ==
  ASSUME Typed, InOrder, PageRight, NEW s \in ScheduleId, FirstPage(s)
  PROVE  PageRight'
<1>1. PICK first : first = IF page.pc = "none" THEN Len(run) ELSE page.first
  OBVIOUS
<1>2. PICK rows : rows = RunsOf(s)
  OBVIOUS
<1>3. ScheduleRuns(s, rows) /\ page.pc = "none" /\ run' = run
  BY <1>2 DEF FirstPage
<1> QED
  BY <1>1, <1>2, <1>3, PageTurns

LEMMA NextPageRight == ASSUME Typed, InOrder, PageRight, NextPage PROVE PageRight'
<1>1. PICK first : first = IF page.pc = "none" THEN Len(run) ELSE page.first
  OBVIOUS
<1>2. PICK s : s = page.schedule
  OBVIOUS
<1>3. PICK rows : rows = Remaining
  OBVIOUS
<1>4. ScheduleRuns(s, rows) /\ page.pc = "reading" /\ run' = run
  BY <1>2, <1>3 DEF NextPage
<1>5. rows = {r \in RunsOf(s) : run[r].for < run[Last].for}
  BY <1>2, <1>3, <1>4 DEF Remaining, Behind, Last, PageRight
<1> QED
  BY <1>1, <1>2, <1>4, <1>5, PageTurns

LEMMA OnlyPagesTurn ==
  ASSUME Typed, [Next]_vars
  PROVE  page' = page \/ NextPage \/ \E s \in ScheduleId : FirstPage(s)
<1>1. CASE \E a \in Agent : Request(a) \/ HandlerStep(a) \/ DesktopReturns(a) \/ ChatEnds(a)
  BY <1>1 DEF Request, CreateSchedule, Begin, HandlerStep, Insert, SetScheduleEnabled, Message,
              Takeover, ArchiveAgent, DesktopReturns, ChatEnds
<1>2. CASE \E s \in ScheduleId : Edit(s) \/ FirstPage(s)
  BY <1>2 DEF Edit, DeleteSchedule, UpdateSchedule
<1>3. CASE \E r \in RunId : RunEnds(r)
  BY <1>3 DEF RunEnds
<1>4. CASE Tick \/ Scan \/ Decide \/ Claim \/ Start \/ LockAgent \/ Restart \/ NextPage
  BY <1>4 DEF Tick, Scan, Decide, Claim, Start, LockAgent, Restart
<1>5. CASE UNCHANGED vars
  BY <1>5 DEF vars
<1> QED
  BY <1>1, <1>2, <1>3, <1>4, <1>5, Zenon DEF Next, SchedulerStep

\* A client that follows the pages to the end has every run there was when it began, once each and
\* newest first, however many are recorded meanwhile and whatever the size of a page.
THEOREM HistoryComplete == Spec => []HistoryIsComplete
<1>1. ASSUME Typed, Inv, InOrder, PageRight, [Next]_vars
      PROVE  InOrder' /\ PageRight'
  <2>1. PageRight'
    BY <1>1, OnlyPagesTurn, PageKept, FirstPageRight, NextPageRight
  <2> QED
    BY <1>1, <2>1, InOrderKept
<1>2. Spec => [](InOrder /\ PageRight)
  BY <1>1, InitPage, InvHolds, PTL DEF Spec
<1> QED
  BY <1>2, PageImpliesComplete, PTL
=============================================================================
