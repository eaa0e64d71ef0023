------------------------------ MODULE Timeline ------------------------------
(***************************************************************************)
(* The agent timeline: what the relay, the runs and the delegations write  *)
(* into agent_timeline, and what a browser that polls it shows.            *)
(*                                                                         *)
(* A worker appends events to the outbox of a run.  The server's relay     *)
(* copies them, in batches, to the events table and in the same            *)
(* transaction to the timeline of the run's agent.  Inputs, outcomes, New  *)
(* chat and the states of delegated tasks become rows of the timeline too. *)
(* The browser loads the latest page, then polls behind its cursor, loads  *)
(* earlier pages on request, and starts over when another agent is chosen. *)
(* SQLite runs one writing transaction at a time; each is one step here.   *)
(***************************************************************************)
EXTENDS Integers, Sequences, FiniteSets

CONSTANTS
  Agent,
  Limit,        \* rows of a page (100 in the browser)
  Scenario      \* bounds, of which a behaviour picks one record

Sources == {"manual", "schedule"}

\* source: which runs occur besides those of tasks; watched: whether a browser shows
\* the panel; how often there is what: runs, events of a run, delegated tasks, New
\* chat, selections of another agent, failing transactions of a relay and lost
\* answers to the browser, restarts of the server.
ASSUME TimelineAssumption ==
  /\ Limit \in Nat \ {0} /\ Agent # {}
  /\ \A b \in Scenario :
       /\ b.source \subseteq Sources /\ b.watched \in BOOLEAN
       /\ {b.run, b.event, b.task, b.reset, b.select, b.fault, b.crash} \subseteq Nat

VARIABLES
  run,       \* rows of runs
  outbox,    \* per run: the worker's file of events and its status
  events,    \* per run: sequences in the events table
  relay,     \* per run: the goroutine that copies its outbox
  task,      \* rows of collaboration_tasks
  timeline,  \* rows of agent_timeline; the position is the sequence
  conv,      \* number of each agent's current conversation, 0: none yet
  calls,     \* requests for the timeline in flight
  browser,   \* the chat panel
  used,      \* how much of each bound is used up
  bound      \* the bounds, which never change

vars == <<run, outbox, events, relay, task, timeline, conv, calls, browser, used, bound>>

RunId == DOMAIN run
TaskId == DOMAIN task
Position == DOMAIN timeline

RunStatus == {"active", "completed", "interrupted"}
TaskStatus == {"queued", "running", "completed", "interrupted"}
RelayPC == {"new", "polling", "storing", "off"}
CallPC == {"ensure", "sync", "query", "inspect", "reply"}

\* dedup_key of a row: its kind, the id in it, and the sequence, status or version.
Key == [kind: {"input", "worker", "terminal", "reset", "receipt", "status"},
        of: Nat, n: Nat, status: RunStatus \cup {"none"}]
Row == [agent: Agent, run: Nat, key: Key]
Run == [agent: Agent, source: Sources \cup {"task"}, status: RunStatus]
Task == [sender: Agent, senderRun: Nat, target: Agent, run: Nat,
         status: TaskStatus, version: Nat]
Outbox == [log: SUBSET Nat, status: {"running", "completed"}, final: SUBSET Nat]
Relay == [pc: RelayPC, after: Nat, batch: SUBSET Nat, status: {"running", "completed"}]
Call == [kind: {"refresh", "earlier"}, selection: Nat, agent: Agent, cursor: Nat,
         incremental: BOOLEAN, revision: Nat, context: Nat, rows: SUBSET Nat,
         more: BOOLEAN, active: Nat, pc: CallPC]
Browser == [agent: Agent, selection: Nat, revision: Nat, loaded: BOOLEAN, cursor: Nat,
            shown: SUBSET Nat,
            context: Nat, known: Nat, active: Nat, earlier: BOOLEAN, loading: BOOLEAN,
            resetting: Nat]

\* Every reference points at a row that exists, and nobody runs ahead of what
\* was written: neither a relay of its outbox nor the screen of the timeline.
TypeOK ==
  /\ bound \in Scenario
  /\ run \in Seq(Run) /\ task \in Seq(Task) /\ timeline \in Seq(Row)
  /\ outbox \in [RunId -> Outbox] /\ events \in [RunId -> SUBSET (1..bound.event)]
  /\ relay \in [RunId -> Relay]
  /\ \A r \in RunId : /\ events[r] \subseteq outbox[r].log
                      /\ relay[r].batch \subseteq outbox[r].log
                      /\ outbox[r].final \subseteq outbox[r].log
  /\ \A t \in TaskId : task[t].run \in RunId \cup {0} /\ task[t].senderRun \in RunId \cup {0}
  /\ conv \in [Agent -> Nat]
  /\ calls \subseteq Call /\ \A c \in calls : c.rows \subseteq Position /\ c.active \in RunId \cup {0}
  /\ browser \in Browser /\ browser.shown \subseteq Position
  /\ browser.cursor \in Position \cup {0}

-----------------------------------------------------------------------------
\* Rows of the timeline

Scheduled(r) == r # 0 /\ run[r].source = "schedule"

InputKey(r) == [kind |-> "input", of |-> r, n |-> 0, status |-> "none"]
WorkerKey(r, s) == [kind |-> "worker", of |-> r, n |-> s, status |-> "none"]
TerminalKey(r, status) == [kind |-> "terminal", of |-> r, n |-> 0, status |-> status]
ResetKey(c) == [kind |-> "reset", of |-> c, n |-> 0, status |-> "none"]
ReceiptKey(t) == [kind |-> "receipt", of |-> t, n |-> 0, status |-> "none"]
StatusKey(t) == [kind |-> "status", of |-> t, n |-> task[t].version, status |-> "none"]

Has(a, key) == \E p \in Position : timeline[p].agent = a /\ timeline[p].key = key

\* The timeline with a row, unless the agent has one with the key or the run is
\* that of a schedule.
Appended(a, r, key, isScheduled) ==
  IF isScheduled \/ Has(a, key)
  THEN timeline
  ELSE Append(timeline, [agent |-> a, run |-> r, key |-> key])

Visible(a) == {p \in Position : timeline[p].agent = a /\ ~Scheduled(timeline[p].run)}

-----------------------------------------------------------------------------
\* Runs and relays

ActiveRuns(a) == {r \in RunId : run[r].agent = a /\ run[r].status = "active"}
ActiveRun(a) == IF ActiveRuns(a) = {} THEN 0 ELSE CHOOSE r \in ActiveRuns(a) : TRUE

\* A run is inserted together with its input.
NewRun(a, source) ==
  /\ ActiveRuns(a) = {} /\ Len(run) < bound.run
  /\ LET r == Len(run) + 1
     IN  /\ run' = Append(run, [agent |-> a, source |-> source, status |-> "active"])
         /\ outbox' = Append(outbox, [log |-> {}, status |-> "running", final |-> {}])
         /\ events' = Append(events, {})
         /\ relay' = Append(relay, [pc |-> "new", after |-> 0, batch |-> {}, status |-> "running"])
         /\ timeline' = Appended(a, r, InputKey(r), source = "schedule")

\* The first use of an agent selects its conversation.
Ensured(a) == [conv EXCEPT ![a] = IF @ = 0 THEN 1 ELSE @]

\* A message or a due schedule starts a run; a schedule has a conversation of its own.
CreateRun(a, source) ==
  /\ NewRun(a, source)
  /\ conv' = IF source = "schedule" THEN conv ELSE Ensured(a)
  /\ UNCHANGED <<task, calls, browser, used, bound>>

\* The worker writes an event; a sequence whose write failed is left out.
WorkerAppends(r) ==
  /\ \E s \in 1..bound.event :
       /\ \A old \in outbox[r].log : old < s
       /\ outbox' = [outbox EXCEPT ![r].log = @ \cup {s}]
  /\ UNCHANGED <<run, events, relay, task, timeline, conv, calls, browser, used, bound>>

\* The turn ends; some notifications may still follow.
WorkerFinishes(r) ==
  /\ outbox[r].status = "running"
  /\ outbox' = [outbox EXCEPT ![r].status = "completed", ![r].final = outbox[r].log]
  /\ UNCHANGED <<run, events, relay, task, timeline, conv, calls, browser, used, bound>>

SetMax(s) == CHOOSE x \in s : \A y \in s : y <= x
MaxEventSequence(r) == IF events[r] = {} THEN 0 ELSE SetMax(events[r])

\* A relay begins behind the last event that was stored.
RelayRun(r) ==
  /\ relay[r].pc = "new"
  /\ relay' = [relay EXCEPT ![r] = [pc |-> "polling", after |-> MaxEventSequence(r),
                                    batch |-> {}, status |-> "running"]]
  /\ UNCHANGED <<run, outbox, events, task, timeline, conv, calls, browser, used, bound>>

\* It asks the worker for the events behind the last one it stored; a poll that
\* finds none of a running turn changes nothing.
RelayPolls(r) ==
  LET batch == {s \in outbox[r].log : s > relay[r].after}
  IN  /\ relay[r].pc = "polling" /\ (batch # {} \/ outbox[r].status # "running")
      /\ relay' = [relay EXCEPT ![r].pc = "storing", ![r].status = outbox[r].status,
                                ![r].batch = batch]
      /\ UNCHANGED <<run, outbox, events, task, timeline, conv, calls, browser, used, bound>>

\* Mutant: the newest event first.
LastOf(s) == CHOOSE x \in s : \A y \in s : y <= x

FirstOf(s) == CHOOSE x \in s : \A y \in s : x <= y

\* Event and row of the timeline are written in one transaction; an event that
\* is stored already is only acknowledged.  Behind the last event of a batch the
\* relay polls again, unless the batch came with the status of a finished turn.
AppendWorkerEvent(r) ==
  LET s == FirstOf(relay[r].batch)
  IN  /\ relay[r].pc = "storing" /\ relay[r].batch # {}
      /\ relay' = [relay EXCEPT ![r].batch = @ \ {s}, ![r].after = s,
           ![r].pc = IF relay[r].batch = {s} /\ relay[r].status = "running" THEN "polling" ELSE @]
      /\ IF s \in events[r]
         THEN UNCHANGED <<events, timeline>>
         ELSE /\ events' = [events EXCEPT ![r] = @ \cup {s}]
              /\ timeline' = Appended(run[r].agent, r, WorkerKey(r, s), Scheduled(r))
      /\ UNCHANGED <<run, outbox, task, conv, calls, browser, used, bound>>

\* The transaction fails: the rest of the batch is left for the next poll.
StoreFails(r) ==
  /\ relay[r].pc = "storing" /\ relay[r].batch # {} /\ used.fault < bound.fault
  /\ relay' = [relay EXCEPT ![r].pc = "polling", ![r].batch = {}]
  /\ used' = [used EXCEPT !.fault = @ + 1]
  /\ UNCHANGED <<run, outbox, events, task, timeline, conv, calls, browser, bound>>

FinishRun(r, status) ==
  /\ run' = [run EXCEPT ![r].status = status]
  /\ timeline' = Appended(run[r].agent, r, TerminalKey(r, status), Scheduled(r))

\* Mutant: the status counts although the batch was not stored.
FinishingEarly(r) == relay[r].pc = "storing" /\ relay[r].status # "running"

\* The batch of a finished turn is stored: the run ends.  The result is ignored: a
\* failure leaves the run active until the server restarts.
Finishing(r) == relay[r].pc = "storing" /\ relay[r].batch = {}

RelayFinishes(r) ==
  /\ Finishing(r)
  /\ relay' = [relay EXCEPT ![r].pc = "off"]
  /\ \/ FinishRun(r, relay[r].status) /\ UNCHANGED used
     \/ /\ used.fault < bound.fault /\ used' = [used EXCEPT !.fault = @ + 1]
        /\ UNCHANGED <<run, timeline>>
  /\ UNCHANGED <<outbox, events, task, conv, calls, browser, bound>>

\* Stop run ends the run, and only then cancels its relay.
StopRun(r) ==
  /\ run[r].status = "active"
  /\ FinishRun(r, "interrupted")
  /\ UNCHANGED <<outbox, events, relay, task, conv, calls, browser, used, bound>>

\* A cancelled relay stores nothing more, but may be past its last look at the
\* cancellation.
CancelRelay(r) ==
  /\ run[r].status = "interrupted" /\ relay[r].pc # "off" /\ ~Finishing(r)
  /\ relay' = [relay EXCEPT ![r].pc = "off", ![r].batch = {}]
  /\ UNCHANGED <<run, outbox, events, task, timeline, conv, calls, browser, used, bound>>

-----------------------------------------------------------------------------
\* Delegated tasks and their projection

\* A task is accepted.
EnqueueTask(sender, target) ==
  /\ sender # target /\ Len(task) < bound.task
  /\ task' = Append(task, [sender |-> sender, senderRun |-> ActiveRun(sender), target |-> target,
                           run |-> 0, status |-> "queued", version |-> 1])
  /\ UNCHANGED <<run, outbox, events, relay, timeline, conv, calls, browser, used, bound>>

\* The dispatcher starts it as a run of the target.
StartCollaboration(t) ==
  /\ task[t].status = "queued"
  /\ NewRun(task[t].target, "task")
  /\ task' = [task EXCEPT ![t].status = "running", ![t].run = Len(run) + 1, ![t].version = @ + 1]
  /\ conv' = Ensured(task[t].target)
  /\ UNCHANGED <<calls, browser, used, bound>>

\* Running tasks take over the outcome of their run.
Reconciled ==
  [t \in TaskId |->
     IF task[t].status = "running" /\ run[task[t].run].status # "active"
     THEN [task[t] EXCEPT !.status = run[task[t].run].status, !.version = @ + 1]
     ELSE task[t]]

\* The row about a task for its sender or target: its receipt or its state.
TaskRow(side, kind, t) ==
  [agent |-> IF side = "sender" THEN task[t].sender ELSE task[t].target,
   run |-> IF side = "sender" THEN task[t].senderRun ELSE task[t].run,
   key |-> IF kind = "receipt" THEN ReceiptKey(t) ELSE StatusKey(t)]

\* The tasks a projection lacks, and their rows in the order of the tasks.
Lacking(side, kind) ==
  {t \in TaskId : LET row == TaskRow(side, kind, t)
                  IN  ~Scheduled(row.run) /\ ~Has(row.agent, row.key)}

Missing(side, kind) ==
  LET lacking == Lacking(side, kind)
      nth(i) == CHOOSE t \in lacking : Cardinality({u \in lacking : u <= t}) = i
  IN  [i \in 1..Cardinality(lacking) |-> TaskRow(side, kind, nth(i))]

\* Mutant: states before receipts.
StatusFirst ==
  timeline \o Missing("sender", "status") \o Missing("target", "status")
           \o Missing("sender", "receipt") \o Missing("target", "receipt")

\* Receipts and current states of all tasks for both participants.
Synced ==
  timeline \o Missing("sender", "receipt") \o Missing("target", "receipt")
           \o Missing("sender", "status") \o Missing("target", "status")

\* The collaboration loop does both all the time.
ReconcileCollaborationTasks ==
  /\ Reconciled # task /\ task' = Reconciled
  /\ UNCHANGED <<run, outbox, events, relay, timeline, conv, calls, browser, used, bound>>

SyncCollaborationTimeline ==
  /\ Synced # timeline /\ timeline' = Synced
  /\ UNCHANGED <<run, outbox, events, relay, task, conv, calls, browser, used, bound>>

\* New chat: refused while the agent is busy, else a new context and its marker.
ResetAgentConversation(a) ==
  /\ ActiveRuns(a) = {}
  /\ conv' = [conv EXCEPT ![a] = @ + 1]
  /\ timeline' = Appended(a, 0, ResetKey(used.reset + 1), FALSE)

\* Another browser asks for it, or this one, which has no second request in flight.
OtherResets(a) ==
  /\ used.reset < bound.reset /\ used' = [used EXCEPT !.reset = @ + 1]
  /\ ResetAgentConversation(a)
  /\ UNCHANGED <<run, outbox, events, relay, task, calls, browser, bound>>

BrowserResets ==
  /\ used.reset < bound.reset /\ used' = [used EXCEPT !.reset = @ + 1]
  /\ browser.loaded /\ browser.resetting = 0
  /\ ResetAgentConversation(browser.agent)
  /\ browser' = [browser EXCEPT !.resetting = conv'[browser.agent]]
  /\ UNCHANGED <<run, outbox, events, relay, task, calls, bound>>

\* Its answer names the new context and starts a new revision of the view.
ReceiveReset ==
  /\ browser.resetting # 0
  /\ browser' = [browser EXCEPT !.resetting = 0, !.context = browser.resetting,
                                !.revision = @ + 1]
  /\ UNCHANGED <<run, outbox, events, relay, task, timeline, conv, calls, used, bound>>

-----------------------------------------------------------------------------
\* GET /timeline

FirstRows(S, n) == {p \in S : Cardinality({q \in S : q <= p}) <= n}
LastRows(S, n) == {p \in S : Cardinality({q \in S : q >= p}) <= n}

\* Mutant: a page is asked for without the row that tells of more.
WithoutProbe(c) ==
  LET visible == Visible(c.agent)
  IN  IF c.incremental
      THEN FirstRows({p \in visible : p > c.cursor}, Limit)
      ELSE LastRows({p \in visible : c.cursor = 0 \/ p < c.cursor}, Limit)

\* Mutant: the row right behind the cursor is left out.
SkipsOne(c) ==
  LET visible == Visible(c.agent)
  IN  IF c.incremental
      THEN FirstRows({p \in visible : p > c.cursor + 1}, Limit + 1)
      ELSE LastRows({p \in visible : c.cursor = 0 \/ p < c.cursor}, Limit + 1)

\* The next rows behind a cursor, zero included, or the latest ones, before a
\* cursor if there is one.
AgentTimeline(c) ==
  LET visible == Visible(c.agent)
  IN  IF c.incremental
      THEN FirstRows({p \in visible : p > c.cursor}, Limit + 1)
      ELSE LastRows({p \in visible : c.cursor = 0 \/ p < c.cursor}, Limit + 1)

\* One row more than a page was asked for: it only tells that there are more.
Page(c) ==
  LET found == AgentTimeline(c)
  IN  [more |-> Cardinality(found) > Limit,
       rows |-> IF c.incremental THEN FirstRows(found, Limit) ELSE LastRows(found, Limit)]

Advance(c, new) == calls' = (calls \ {c}) \cup {new}

\* The context is ensured and the tasks are reconciled: two transactions of which
\* the second changes nothing that happens in between could not let the loop change.
HandlerEnsures(c) ==
  /\ c.pc = "ensure"
  /\ conv' = Ensured(c.agent) /\ task' = Reconciled
  /\ Advance(c, [c EXCEPT !.context = conv'[c.agent], !.pc = "sync"])
  /\ UNCHANGED <<run, outbox, events, relay, timeline, browser, used, bound>>

HandlerSyncs(c) ==
  /\ c.pc = "sync"
  /\ timeline' = Synced
  /\ Advance(c, [c EXCEPT !.pc = "query"])
  /\ UNCHANGED <<run, outbox, events, relay, task, conv, browser, used, bound>>

HandlerQueries(c) ==
  /\ c.pc = "query"
  /\ LET page == Page(c)
     IN  Advance(c, [c EXCEPT !.rows = page.rows, !.more = page.more, !.pc = "inspect"])
  /\ UNCHANGED <<run, outbox, events, relay, task, timeline, conv, browser, used, bound>>

\* The run of a schedule is not shown as the agent's active run.
HandlerInspects(c) ==
  /\ c.pc = "inspect"
  /\ LET r == ActiveRun(c.agent)
     IN  Advance(c, [c EXCEPT !.active = IF Scheduled(r) THEN 0 ELSE r, !.pc = "reply"])
  /\ UNCHANGED <<run, outbox, events, relay, task, timeline, conv, browser, used, bound>>

-----------------------------------------------------------------------------
\* The chat panel

Requested(kind, incremental, cursor) ==
  [kind |-> kind, selection |-> browser.selection, agent |-> browser.agent, cursor |-> cursor,
   incremental |-> incremental, revision |-> browser.revision, context |-> 0, rows |-> {},
   more |-> FALSE, active |-> 0, pc |-> "ensure"]

Current(c) == c.selection = browser.selection

\* Mutant: the revision is not compared.
FreshSelection(c) == Current(c)

\* A response begun before New chat is out of date.
Fresh(c) == Current(c) /\ c.revision = browser.revision

\* Polling: the latest page first, then what follows the cursor.
Refresh ==
  /\ bound.watched /\ ~\E c \in calls : c.kind = "refresh" /\ Current(c)
  /\ calls' = calls \cup {Requested("refresh", browser.loaded, browser.cursor)}
  /\ UNCHANGED <<run, outbox, events, relay, task, timeline, conv, browser, used, bound>>

\* Mutants: the highest row there is; the row behind the last one returned.
HighWaterMark(c) == Len(timeline)
NextSequence(c) == IF c.rows = {} THEN c.cursor ELSE SetMax(c.rows) + 1

\* The cursor is the last row returned, never the highest there is.
LastSequence(c) == IF c.rows = {} THEN c.cursor ELSE SetMax(c.rows)

\* An answer is ignored when another agent was selected, and asked for again when
\* New chat was answered in the meantime.  The context for the next message is
\* replaced only when the answer brings news of the context or the active run.
ReceiveRefresh(c) ==
  /\ c.kind = "refresh" /\ c.pc = "reply"
  /\ calls' = calls \ {c}
  /\ IF Fresh(c)
     THEN browser' = [browser EXCEPT !.shown = @ \cup c.rows, !.cursor = LastSequence(c),
                        !.loaded = TRUE, !.earlier = IF c.incremental THEN @ ELSE c.more,
                        !.known = c.context, !.active = c.active,
                        !.context = IF c.context # browser.known \/ c.active # browser.active
                                    THEN c.context ELSE @]
     ELSE UNCHANGED browser
  /\ UNCHANGED <<run, outbox, events, relay, task, timeline, conv, used, bound>>

LoadEarlier ==
  /\ browser.earlier /\ ~browser.loading /\ browser.shown # {}
  /\ browser' = [browser EXCEPT !.loading = TRUE]
  /\ calls' = calls \cup {Requested("earlier", FALSE, FirstOf(browser.shown))}
  /\ UNCHANGED <<run, outbox, events, relay, task, timeline, conv, used, bound>>

ReceiveEarlier(c) ==
  /\ c.kind = "earlier" /\ c.pc = "reply"
  /\ calls' = calls \ {c}
  /\ IF Current(c)
     THEN browser' = [browser EXCEPT !.shown = @ \cup c.rows, !.earlier = c.more, !.loading = FALSE]
     ELSE UNCHANGED browser
  /\ UNCHANGED <<run, outbox, events, relay, task, timeline, conv, used, bound>>

\* Requests fail; an earlier page may be asked for again.
Failed(failed, reset) ==
  /\ calls' = calls \ failed
  /\ browser' = [browser EXCEPT
       !.loading = @ /\ ~\E c \in failed : c.kind = "earlier" /\ Current(c),
       !.resetting = IF reset THEN 0 ELSE @]

RequestFails ==
  /\ used.fault < bound.fault /\ used' = [used EXCEPT !.fault = @ + 1]
  /\ \/ \E c \in calls : Failed({c}, FALSE)
     \/ browser.resetting # 0 /\ Failed({}, TRUE)
  /\ UNCHANGED <<run, outbox, events, relay, task, timeline, conv, bound>>

Opened(a, selection, revision) ==
  [agent |-> a, selection |-> selection, revision |-> revision, loaded |-> FALSE, cursor |-> 0,
   shown |-> {}, context |-> 0, known |-> 0, active |-> 0, earlier |-> FALSE, loading |-> FALSE,
   resetting |-> 0]

\* Another agent is selected: the panel starts over, answers under way are ignored.
SelectAgent(a) ==
  /\ used.select < bound.select /\ used' = [used EXCEPT !.select = @ + 1]
  /\ bound.watched /\ a # browser.agent
  /\ browser' = Opened(a, browser.selection + 1, browser.revision)
  /\ UNCHANGED <<run, outbox, events, relay, task, timeline, conv, calls, bound>>

\* The server restarts: requests fail, and the relays of active runs begin anew.
Restart ==
  /\ used.crash < bound.crash /\ used' = [used EXCEPT !.crash = @ + 1]
  /\ Failed(calls, TRUE)
  /\ relay' = [r \in RunId |-> [relay[r] EXCEPT !.batch = {},
                                 !.pc = IF run[r].status = "active" THEN "new" ELSE "off"]]
  /\ UNCHANGED <<run, outbox, events, task, timeline, conv, bound>>

-----------------------------------------------------------------------------
Init ==
  /\ run = <<>> /\ outbox = <<>> /\ events = <<>> /\ relay = <<>>
  /\ task = <<>> /\ timeline = <<>>
  /\ conv = [a \in Agent |-> 0]
  /\ calls = {}
  /\ browser = Opened(CHOOSE a \in Agent : TRUE, 0, 0)   \* the panel opens with one agent
  /\ bound \in Scenario
  /\ used = [reset |-> 0, select |-> 0, fault |-> 0, crash |-> 0]

RelayStep ==
  \E r \in RunId : \/ RelayRun(r) \/ RelayPolls(r) \/ AppendWorkerEvent(r)
                   \/ RelayFinishes(r)

HandlerStep ==
  \E c \in calls : \/ HandlerEnsures(c) \/ HandlerSyncs(c)
                   \/ HandlerQueries(c) \/ HandlerInspects(c)

Receive == \E c \in calls : ReceiveRefresh(c) \/ ReceiveEarlier(c)

Next ==
  \/ \E a \in Agent, source \in bound.source : CreateRun(a, source)
  \/ \E a, b \in Agent : EnqueueTask(a, b)
  \/ \E t \in TaskId : StartCollaboration(t)
  \/ \E r \in RunId : \/ WorkerAppends(r) \/ WorkerFinishes(r) \/ StoreFails(r)
                      \/ StopRun(r) \/ CancelRelay(r)
  \/ RelayStep
  \/ ReconcileCollaborationTasks \/ SyncCollaborationTimeline
  \/ \E a \in Agent : OtherResets(a) \/ SelectAgent(a)
  \/ BrowserResets \/ ReceiveReset
  \/ HandlerStep
  \/ Refresh \/ Receive \/ LoadEarlier
  \/ RequestFails \/ Restart

Spec == Init /\ [][Next]_vars

\* Workers, people and other agents need not act.  The server's goroutines go on
\* (no relay has work without end that could keep another one waiting),
\* and the browser polls 750 ms after every answer or error.
Fairness ==
  /\ WF_vars(RelayStep) /\ WF_vars(ReconcileCollaborationTasks) /\ WF_vars(SyncCollaborationTimeline)
  /\ WF_vars(HandlerStep) /\ WF_vars(Receive) /\ WF_vars(Refresh)

FairSpec == Spec /\ Fairness

-----------------------------------------------------------------------------
\* Correctness

Before(p, q) == p < q /\ timeline[p].agent = timeline[q].agent

\* The story of a run is told once and in order: no row twice, its input first,
\* then the worker's events in the order of its outbox, as many as the events
\* table has.  Runs of a schedule have none (store/timeline.go AppendWorkerEvent,
\* appendTimelineEvent; server.go relayRun).
RunStoryInOrder ==
  /\ \A p, q \in Position : Before(p, q) =>
       LET first == timeline[p].key
           second == timeline[q].key
       IN  /\ first # second
           /\ first.of = second.of => /\ second.kind # "input" \/ first.kind # "worker"
                                      /\ first.kind = "worker" /\ second.kind = "worker"
                                           => first.n < second.n
  /\ \A p \in Position : ~Scheduled(timeline[p].run)
  /\ \A r \in RunId : ~Scheduled(r) =>
       /\ Has(run[r].agent, InputKey(r))
       /\ \A s \in 1..bound.event : Has(run[r].agent, WorkerKey(r, s)) <=> s \in events[r]

\* The sender and the target of a task read its receipt first and then its states
\* in the order they were entered (SyncCollaborationTimeline).
TaskStoryInOrder ==
  \A p, q \in Position : Before(p, q) =>
    LET first == timeline[p].key
        second == timeline[q].key
    IN  first.kind = "status" /\ first.of = second.of =>
          /\ second.kind # "receipt"
          /\ second.kind = "status" => first.n < second.n

\* Runs and tasks, as the panel tells them.
StoriesInOrder == RunStoryInOrder /\ TaskStoryInOrder

\* Nothing the worker wrote before its turn ended is missing once the run is
\* recorded as completed, whatever failed or restarted on the way: the status of a
\* batch counts only when the batch is stored (server.go relayRun).
FinishedRunIsComplete ==
  \A r \in RunId : run[r].status = "completed" => outbox[r].final \subseteq events[r]

\* A panel that offers no earlier messages hides none: all rows up to its cursor
\* are on the screen (agentTimeline hasMore, useAgentTimeline.ts hasEarlier).
NoHiddenHistory ==
  browser.loaded /\ ~browser.earlier =>
    \A p \in Visible(browser.agent) : p <= browser.cursor => p \in browser.shown

\* The context named with the next message is never an older one again because an
\* answer begun before New chat arrives late (useAgentTimeline.ts 43).
ContextIsNeverRestored ==
  [][browser'.selection = browser.selection /\ browser'.revision = browser.revision
       => browser'.context >= browser.context]_vars

Feed == INSTANCE Feed WITH rows <- Visible(browser.agent), shown <- browser.shown,
                           selection <- browser.selection

\* What the panel shows is an unbroken stretch of the agent's rows, which are only
\* added behind all others: cursors by position lose nothing and repeat nothing
\* (timeline.go, useAgentTimeline.ts mergeEvents).
FeedSpec == Feed!Spec

UpToDate ==
  /\ browser.loaded
  /\ \A p \in Visible(browser.agent) : (\E q \in browser.shown : q <= p) => p \in browser.shown
  /\ Visible(browser.agent) # {} => browser.shown # {}
  /\ browser.known = conv[browser.agent]
  /\ browser.active = LET r == ActiveRun(browser.agent) IN IF Scheduled(r) THEN 0 ELSE r

\* The panel catches up with the timeline, the run and the context of its agent,
\* and the timeline with the tasks, whatever fails or restarts on the way.
TimelineCatchesUp ==
  []<>((bound.watched => UpToDate) /\ Synced = timeline /\ Reconciled = task)

=============================================================================
