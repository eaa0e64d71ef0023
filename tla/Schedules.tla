----------------------------- MODULE Schedules -----------------------------
(***************************************************************************)
(* Schedules: the table of schedules and the runs they cause, the one      *)
(* scheduler goroutine, the handlers that create, switch and delete        *)
(* schedules, and the pages of a schedule's history.                       *)
(*                                                                         *)
(* The scheduler reads the due schedules without a lock, and handles them  *)
(* one by one under the lock of their agent, which may be held for long by *)
(* whoever starts a turn or takes the desktop; schedules are deleted       *)
(* without that lock.  What the scheduler has read may be out of date, and *)
(* only the transaction that claims an occurrence looks again.             *)
(***************************************************************************)
EXTENDS Integers, Sequences, FiniteSets

CONSTANTS
  Agent,
  Scenario,  \* bounds and expressions, of which a behaviour picks one record
  Grace,     \* how long an occurrence waits for a busy agent
  PageSize   \* rows of one page of the history

\* An expression is one-time at n, or a cron expression that names every n-th minute; a
\* cron expression with n = 0 names no date that exists (30 February).
Expression == [kind: {"once", "cron"}, n: Nat]

\* In a scenario: how far time goes, the expressions that are entered, and how often there is
\* a schedule, a switch or deletion, a chat message, a takeover, an archived agent, a restart.
Bounded == {"schedule", "edit", "message", "takeover", "archive", "crash"}
ASSUME SchedulesAssumption ==
  /\ Grace \in Nat \ {0} /\ PageSize \in Nat \ {0}
  /\ \A b \in Scenario : b.horizon \in Nat /\ b.entered \subseteq Expression
                         /\ \A what \in Bounded : b[what] \in Nat

\* The most of something in any scenario.
Most(n(_)) == CHOOSE m \in {n(b) : b \in Scenario} : \A b \in Scenario : n(b) <= m
MaxSchedule == Most(LAMBDA b : b.schedule)

MaxTime == Most(LAMBDA b : b.horizon)

VARIABLES
  now,       \* the time, in minutes
  schedule,  \* the table of schedules; the position is the id
  run,       \* the scheduled runs, in the order of their claims
  chat,      \* per agent: a run of another source is active
  human,     \* per agent: a human holds the desktop
  archived,  \* agents
  op,        \* per agent: the handler that holds its lock
  scheduler, \* the scheduler goroutine
  page,      \* a client that pages through the history of a schedule
  since,     \* per schedule: the time from which its present next_run_at was first computed
  used,      \* how much of each bound is used up
  bound      \* the bounds, which never change

table == <<schedule, since>>
agents == <<chat, human, archived>>
bounds == <<used, bound>>
vars == <<now, table, run, agents, op, scheduler, page, bounds>>

ScheduleId == DOMAIN schedule
RunId == DOMAIN run

NoTime == -1   \* NULL
ZeroTime == 0  \* time.Time{}: 1 January of the year 1, before every present time

Times == {NoTime} \cup Nat
Schedule == [agent: Agent, expression: Expression, exists: BOOLEAN, enabled: BOOLEAN, next: Times]
Run == [schedule: Nat, for: Nat, status: {"queued", "running", "ended", "skipped_overlap"}]
Handler == [pc: {"idle", "insert", "update", "message", "takeover", "archive"}, schedule: Nat,
            expression: Expression, enabled: BOOLEAN, next: Times, from: Nat]
Due == [schedule: Nat, next: Nat]
Scheduler == [pc: {"asleep", "next", "decide", "claim", "start"}, todo: Seq(Due), busy: BOOLEAN]
Page == [pc: {"none", "reading", "done"}, schedule: Nat, got: Seq(Nat), first: Nat]

\* Runs, handlers, the scheduler and the client refer to schedules that were created, and an
\* enabled schedule has a time for its next run.
TypeOK ==
  /\ now \in Nat \ {0} /\ schedule \in Seq(Schedule)
  /\ \A s \in ScheduleId : schedule[s].enabled => schedule[s].next # NoTime
  /\ run \in Seq(Run) /\ \A r \in RunId : run[r].schedule \in ScheduleId
  /\ chat \in [Agent -> BOOLEAN] /\ human \in [Agent -> BOOLEAN] /\ archived \subseteq Agent
  /\ op \in [Agent -> Handler]
  /\ \A a \in Agent : op[a].pc = "update" => op[a].schedule \in ScheduleId
  /\ scheduler \in Scheduler
  /\ \A k \in DOMAIN scheduler.todo : scheduler.todo[k].schedule \in ScheduleId
  /\ page \in Page /\ since \in [ScheduleId -> Nat]

Idle == [pc |-> "idle", schedule |-> 0, expression |-> [kind |-> "once", n |-> 0],
         enabled |-> FALSE, next |-> NoTime, from |-> 0]
Asleep == [pc |-> "asleep", todo |-> <<>>, busy |-> FALSE]
NoPage == [pc |-> "none", schedule |-> 0, got |-> <<>>, first |-> 0]

Init ==
  /\ now = 1 /\ schedule = <<>> /\ since = <<>> /\ run = <<>>
  /\ chat = [a \in Agent |-> FALSE] /\ human = [a \in Agent |-> FALSE] /\ archived = {}
  /\ op = [a \in Agent |-> Idle] /\ scheduler = Asleep /\ page = NoPage
  /\ bound \in Scenario /\ used = [what \in Bounded |-> 0]

Use(what) == used[what] < bound[what] /\ used' = [used EXCEPT ![what] = @ + 1]

\* Time passes, also while locks are held and while the server is down.
Tick ==
  /\ now < bound.horizon /\ now' = now + 1
  /\ UNCHANGED <<table, run, agents, op, scheduler, page, bounds>>

-----------------------------------------------------------------------------
\* scheduleNext; NoTime is its error.
ScheduleNext(e, from) ==
  IF e.kind = "once" THEN IF e.n > from THEN e.n ELSE NoTime
  ELSE IF e.n = 0 THEN ZeroTime ELSE (from \div e.n + 1) * e.n

IsLive(r) == run[r].status \in {"queued", "running"}

AgentOf(r) == schedule[run[r].schedule].agent

\* AgentBusy
Busy(a) == chat[a] \/ \E r \in RunId : AgentOf(r) = a /\ IsLive(r)

\* What the scheduler is at.
Current == Head(scheduler.todo)

AgentOfCurrent == schedule[Current.schedule].agent

HeldByScheduler(a) == scheduler.pc \in {"decide", "claim", "start"} /\ AgentOfCurrent = a

Unlocked(a) == op[a].pc = "idle" /\ ~HeldByScheduler(a)

-----------------------------------------------------------------------------
(***************************************************************************)
(* The handlers.  Each takes the agent's lock, checks, and in a later step *)
(* writes and releases.                                                    *)
(***************************************************************************)

Locks(a, handler) ==
  /\ Unlocked(a) /\ a \notin archived
  /\ op' = [op EXCEPT ![a] = handler]

Unlocks(a) == op' = [op EXCEPT ![a] = Idle]

CreateSchedule(a, e, enabled) ==
  /\ Use("schedule") /\ e \in bound.entered
  /\ ScheduleNext(e, now) # NoTime
  /\ Locks(a, [Idle EXCEPT !.pc = "insert", !.expression = e, !.enabled = enabled,
                           !.next = ScheduleNext(e, now), !.from = now])
  /\ UNCHANGED <<now, table, run, agents, scheduler, page, bound>>

Insert(a) ==
  /\ op[a].pc = "insert" /\ Unlocks(a)
  /\ schedule' = Append(schedule, [agent |-> a, expression |-> op[a].expression, exists |-> TRUE,
                                   enabled |-> op[a].enabled, next |-> op[a].next])
  /\ since' = Append(since, op[a].from)
  /\ UNCHANGED <<now, run, agents, scheduler, page, bounds>>

\* A schedule that is switched off gets no next_run_at.
NextIf(enabled, s) ==
  IF enabled THEN ScheduleNext(schedule[s].expression, now) ELSE NoTime

UpdateSchedule(s, enabled) ==
  /\ Use("edit") /\ schedule[s].exists
  /\ enabled => NextIf(TRUE, s) # NoTime
  /\ Locks(schedule[s].agent, [Idle EXCEPT !.pc = "update", !.schedule = s, !.enabled = enabled,
                                           !.next = NextIf(enabled, s), !.from = now])
  /\ UNCHANGED <<now, table, run, agents, scheduler, page, bound>>

SetScheduleEnabled(a) ==
  /\ op[a].pc = "update" /\ Unlocks(a)
  /\ LET s == op[a].schedule
     IN IF schedule[s].exists
        THEN /\ schedule' = [schedule EXCEPT ![s] = [@ EXCEPT !.enabled = op[a].enabled,
                                                              !.next = op[a].next]]
             /\ since' = [since EXCEPT ![s] = op[a].from]
        ELSE UNCHANGED table
  /\ UNCHANGED <<now, run, agents, scheduler, page, bounds>>

\* deleteSchedule takes no lock.
DeleteSchedule(s) ==
  /\ Use("edit") /\ schedule[s].exists
  /\ schedule' = [schedule EXCEPT ![s] = [@ EXCEPT !.exists = FALSE, !.enabled = FALSE]]
  /\ UNCHANGED <<now, since, run, agents, op, scheduler, page, bound>>

\* Whoever else holds the lock: a chat message, a takeover, the deletion of the agent.
Begin(a, pc) ==
  /\ Use(pc) /\ Locks(a, [Idle EXCEPT !.pc = pc])
  /\ UNCHANGED <<now, table, run, agents, scheduler, page, bound>>

\* A message starts a run unless one is active or a human has the desktop.
Message(a) ==
  /\ op[a].pc = "message" /\ Unlocks(a)
  /\ chat' = [chat EXCEPT ![a] = @ \/ ~(Busy(a) \/ human[a])]
  /\ UNCHANGED <<now, table, run, human, archived, scheduler, page, bounds>>

\* The active run of the agent is interrupted.
Interrupted(a) ==
  /\ chat' = [chat EXCEPT ![a] = FALSE]
  /\ run' = [r \in RunId |-> IF AgentOf(r) = a /\ IsLive(r)
                             THEN [run[r] EXCEPT !.status = "ended"] ELSE run[r]]

TakesDesktop(a) == human' = [human EXCEPT ![a] = TRUE]

Takeover(a) ==
  /\ op[a].pc = "takeover" /\ Unlocks(a)
  /\ Interrupted(a) /\ TakesDesktop(a)
  /\ UNCHANGED <<now, table, archived, scheduler, page, bounds>>

Disabled(row) == [row EXCEPT !.enabled = FALSE, !.next = NoTime]

\* stopAgentRuntime and ArchiveAgent
ArchiveAgent(a) ==
  /\ op[a].pc = "archive" /\ Unlocks(a)
  /\ Interrupted(a)
  /\ archived' = archived \cup {a} /\ human' = [human EXCEPT ![a] = FALSE]
  /\ schedule' = [s \in ScheduleId |->
       IF schedule[s].agent = a THEN Disabled(schedule[s]) ELSE schedule[s]]
  /\ UNCHANGED <<now, since, scheduler, page, bounds>>

\* A human's lease ends, by release or by time.
DesktopReturns(a) ==
  /\ human[a] /\ human' = [human EXCEPT ![a] = FALSE]
  /\ UNCHANGED <<now, table, run, chat, archived, op, scheduler, page, bounds>>

\* Relays end runs without the agent's lock; before a run's start is known, nobody does.
ChatEnds(a) ==
  /\ chat[a] /\ chat' = [chat EXCEPT ![a] = FALSE]
  /\ UNCHANGED <<now, table, run, human, archived, op, scheduler, page, bounds>>

RunEnds(r) ==
  /\ IsLive(r) /\ ~(scheduler.pc = "start" /\ r = Len(run))
  /\ run' = [run EXCEPT ![r].status = "ended"]
  /\ UNCHANGED <<now, table, agents, op, scheduler, page, bounds>>

-----------------------------------------------------------------------------
(***************************************************************************)
(* The scheduler.                                                          *)
(***************************************************************************)

DueSchedules ==
  {d \in {[schedule |-> s, next |-> schedule[s].next] : s \in ScheduleId} :
     schedule[d.schedule].enabled /\ d.next <= now}

\* Ordered by time; rows of the same time come in any order.
ByTime(due) ==
  {q \in [1..Cardinality(due) -> due] :
     /\ \A d \in due : \E k \in DOMAIN q : q[k] = d
     /\ \A k, n \in DOMAIN q : k < n => q[k].next <= q[n].next}

Scan ==
  /\ scheduler.pc = "asleep" /\ DueSchedules # {}
  /\ \E q \in ByTime(DueSchedules) : scheduler' = [Asleep EXCEPT !.pc = "next", !.todo = q]
  /\ UNCHANGED <<now, table, run, agents, op, page, bounds>>

\* runDueSchedule returns: the next one of the list, or sleep.
Returns ==
  scheduler' = IF Len(scheduler.todo) = 1 THEN Asleep
               ELSE [Asleep EXCEPT !.pc = "next", !.todo = Tail(scheduler.todo)]

LockAgent ==
  /\ scheduler.pc = "next" /\ op[AgentOfCurrent].pc = "idle"
  /\ scheduler' = [scheduler EXCEPT !.pc = "decide"]
  /\ UNCHANGED <<now, table, run, agents, op, page, bounds>>

Occupied(a) == Busy(a) \/ human[a]

\* However late.
WaitsAlways == Occupied(AgentOfCurrent)

\* A human is no reason to wait.
WaitsForRuns == Busy(AgentOfCurrent) /\ now - Current.next < Grace

\* A busy agent makes its occurrence wait for a later scan, but not beyond the grace.
Waits == Occupied(AgentOfCurrent) /\ now - Current.next < Grace

Decide ==
  /\ scheduler.pc = "decide"
  /\ IF Waits \/ AgentOfCurrent \in archived
     THEN Returns
     ELSE scheduler' = [scheduler EXCEPT !.pc = "claim", !.busy = Occupied(AgentOfCurrent)]
  /\ UNCHANGED <<now, table, run, agents, op, page, bounds>>

\* What was missed is not made up for.
FollowingNow(s, scheduled) ==
  IF schedule[s].expression.kind = "cron" THEN ScheduleNext(schedule[s].expression, now)
  ELSE NoTime

\* The occurrence after this one; a one-time schedule has none.
Following(s, scheduled) ==
  IF schedule[s].expression.kind = "cron" THEN ScheduleNext(schedule[s].expression, scheduled)
  ELSE NoTime

\* It is enabled, perhaps again.
EnabledStill(d) == schedule[d.schedule].enabled

\* The row is still the one that was read.
Unchanged(d) == schedule[d.schedule].enabled /\ schedule[d.schedule].next = d.next

\* UNIQUE(source, scheduled_for) and runs_one_active_per_agent_idx
Admitted(d) ==
  /\ \A r \in RunId : ~(run[r].schedule = d.schedule /\ run[r].for = d.next)
  /\ scheduler.busy \/ ~Busy(schedule[d.schedule].agent)

\* ClaimScheduleRun, one transaction.
Claim ==
  /\ scheduler.pc = "claim"
  /\ LET s == Current.schedule
         scheduled == Current.next
         status == IF scheduler.busy THEN "skipped_overlap" ELSE "queued"
     IN IF Unchanged(Current) /\ Admitted(Current)
        THEN /\ schedule' = [schedule EXCEPT ![s] =
                  [schedule[s] EXCEPT !.enabled = @ /\ schedule[s].expression.kind = "cron",
                                      !.next = Following(s, scheduled)]]
             /\ run' = Append(run, [schedule |-> s, for |-> scheduled, status |-> status])
             /\ IF scheduler.busy THEN Returns
                ELSE scheduler' = [scheduler EXCEPT !.pc = "start"]
        ELSE Returns /\ UNCHANGED <<schedule, run>>
  /\ UNCHANGED <<now, since, agents, op, page, bounds>>

\* ensureAgent and StartTurn: the run is started, or one of them has failed.
Start ==
  /\ scheduler.pc = "start" /\ Returns
  /\ \E status \in {"running", "ended"} : run' = [run EXCEPT ![Len(run)].status = status]
  /\ UNCHANGED <<now, table, agents, op, page, bounds>>

\* The server dies and starts again.  Relays watch the active runs; one that was claimed
\* and not started becomes unknown (RunEnds).
Restart ==
  /\ Use("crash")
  /\ op' = [a \in Agent |-> Idle] /\ scheduler' = Asleep
  /\ UNCHANGED <<now, table, run, agents, page, bound>>

-----------------------------------------------------------------------------
(***************************************************************************)
(* The history: pages of runs, newest first, from behind the last one that *)
(* was received.                                                           *)
(***************************************************************************)

RunsOf(s) == {r \in RunId : run[r].schedule = s}

\* The cursor counts rows.
OffsetBehind(r) ==
  {q \in RunsOf(page.schedule) :
     Cardinality({p \in RunsOf(page.schedule) : run[p].for > run[q].for}) >= Len(page.got)}

\* What comes behind the cursor.
Behind(r) == {q \in RunsOf(page.schedule) : run[q].for < run[r].for}

Remaining ==
  IF page.got = <<>> THEN RunsOf(page.schedule) ELSE Behind(page.got[Len(page.got)])

\* The first rows, newest first: what is newer than a row stands before it.
Newest(rows) ==
  LET n == IF Cardinality(rows) < PageSize THEN Cardinality(rows) ELSE PageSize
  IN {q \in [1..n -> rows] :
        \A k \in 1..n : \A r \in rows :
          run[r].for > run[q[k]].for <=> \E i \in 1..(k - 1) : q[i] = r}

ScheduleRuns(s, rows) ==
  \E q \in Newest(rows) :
    page' = [page EXCEPT !.pc = IF Cardinality(rows) > PageSize THEN "reading" ELSE "done",
                         !.schedule = s, !.got = @ \o q,
                         !.first = IF page.pc = "none" THEN Len(run) ELSE @]

FirstPage(s) ==
  /\ bound.pages /\ page.pc = "none" /\ schedule[s].exists
  /\ ScheduleRuns(s, RunsOf(s))
  /\ UNCHANGED <<now, table, run, agents, op, scheduler, bounds>>

NextPage ==
  /\ page.pc = "reading" /\ schedule[page.schedule].exists
  /\ ScheduleRuns(page.schedule, Remaining)
  /\ UNCHANGED <<now, table, run, agents, op, scheduler, bounds>>

-----------------------------------------------------------------------------
SchedulerStep == Scan \/ Decide \/ Claim \/ Start

HandlerStep(a) == Insert(a) \/ SetScheduleEnabled(a) \/ Message(a) \/ Takeover(a) \/ ArchiveAgent(a)

Request(a) ==
  \/ \E e \in bound.entered, enabled \in BOOLEAN : CreateSchedule(a, e, enabled)
  \/ \E pc \in {"message", "takeover", "archive"} : Begin(a, pc)

Edit(s) == DeleteSchedule(s) \/ \E enabled \in BOOLEAN : UpdateSchedule(s, enabled)

Next ==
  \/ Tick \/ SchedulerStep \/ LockAgent \/ Restart \/ NextPage
  \/ \E a \in Agent : Request(a) \/ HandlerStep(a) \/ DesktopReturns(a) \/ ChatEnds(a)
  \/ \E s \in ScheduleId : Edit(s) \/ FirstPage(s)
  \/ \E r \in RunId : RunEnds(r)

Spec == Init /\ [][Next]_vars

\* Time passes, goroutines run, handlers return, and a lock that is waited for is handed over
\* at last.  No run needs to end, and no desktop to be given back.
Fairness ==
  /\ WF_vars(Tick) /\ WF_vars(SchedulerStep) /\ SF_vars(LockAgent)
  /\ \A a \in Agent : WF_vars(HandlerStep(a))

FairSpec == Spec /\ Fairness

-----------------------------------------------------------------------------
\* The times a schedule names.
Names(s, t) ==
  IF schedule[s].expression.kind = "once" THEN t = schedule[s].expression.n
  ELSE \E k \in 1..t : t = k * schedule[s].expression.n

HasTimes(s) == schedule[s].expression.kind = "once" \/ schedule[s].expression.n # 0

\* The occurrences of an enabled schedule from when it was last enabled to its next_run_at.
Passed(s) == {t \in (since[s] + 1)..(schedule[s].next - 1) : Names(s, t)}

Recorded(s) == {run[r].for : r \in RunsOf(s)}

\* While a cron schedule stays enabled, every occurrence before the next has a run or was recorded
\* as skipped, also those that came due while the server was down or the agent was busy, and
\* next_run_at is never a time that was recorded already, for which the index would refuse the
\* claim forever.
OccurrencesAreAccountedFor ==
  \A s \in ScheduleId :
    schedule[s].enabled /\ HasTimes(s)
    => /\ {t \in Recorded(s) : t > since[s]} = Passed(s)
       /\ \A t \in Recorded(s) : t < schedule[s].next

\* Whatever the scheduler has read before: a run is recorded for a schedule that is enabled at this
\* moment, for a time it names, which has come, and which lies behind the moment when it was last
\* enabled; and never for an agent that was deleted.
OnlyEnabledOccurrencesRun ==
  [][\A r \in DOMAIN run' \ RunId :
       LET s == run'[r].schedule
       IN /\ schedule[s].enabled /\ schedule[s].agent \notin archived
          /\ run'[r].for <= now
          /\ HasTimes(s) => Names(s, run'[r].for) /\ since[s] < run'[r].for]_vars

\* A run is only started for an agent that is free and whose desktop no human holds; one that is
\* skipped has waited for the whole grace.
OccurrencesWaitTheirTurn ==
  [][\A r \in DOMAIN run' \ RunId :
       IF run'[r].status = "queued"
       THEN LET a == schedule[run'[r].schedule].agent IN ~Busy(a) /\ ~human[a]
       ELSE now - run'[r].for >= Grace]_vars

\* A client that pages to the end has seen every run there was when it began, once each and the
\* newest first, although runs are added and change their status meanwhile.
HistoryIsComplete ==
  page.pc = "done" =>
    /\ {page.got[k] : k \in DOMAIN page.got} = {r \in RunsOf(page.schedule) : r <= page.first}
    /\ \A k, n \in DOMAIN page.got : k < n => run[page.got[n]].for < run[page.got[k]].for

IsDue(s, t) ==
  t + Grace <= bound.horizon /\ s \in ScheduleId /\ schedule[s].enabled /\ HasTimes(s) /\ schedule[s].next = t

\* No occurrence waits forever for an agent that stays busy, nor for the occurrences before it.
DueOccurrencesAreSettled ==
  \A s \in 1..MaxSchedule : \A t \in 1..MaxTime : IsDue(s, t) ~> ~IsDue(s, t)

\* "if !next.After(from) { t.Fatalf("next=%v", next) }" (internal/httpapi/schedule_test.go): the
\* time of an enabled schedule lies behind the moment when it was enabled.
TimesLieAhead == \A s \in ScheduleId : schedule[s].enabled => schedule[s].next > since[s]
=============================================================================
