--------------------------- MODULE DesktopLease ---------------------------
(***************************************************************************)
(* Control of one agent's desktop: takeover by a human, release, the       *)
(* heartbeat, expiry by the scheduler, and the continuation of the work    *)
(* that a takeover interrupted.  Agents share nothing here but the         *)
(* scheduler goroutine, so one agent is enough.                            *)
(*                                                                         *)
(* The lease exists twice: as a row of the database and as the file in the *)
(* agent's container that its desktop tools obey.  A handler writes them   *)
(* one after the other under the agent's operation lock.                   *)
(***************************************************************************)
EXTENDS Integers, Sequences, FiniteSets

CONSTANTS
  UserOp,        \* operations that occur, see UserOps
  Ttl,           \* heartbeat periods until a human lease expires
  RetryTtl,      \* the same for the lease an unsuccessful expiry falls back to
  Disconnects,   \* whether browsers may go away while they wait
  MaxTakeover, MaxRelease, MaxHeartbeat,   \* bounds: requests of each kind
  MaxRun,        \* bound: runs started by messages, delegations and schedules
  MaxReset,      \* bound: New chat
  MaxFault,      \* bound: failing calls to the worker
  MaxCrash       \* bound: server restarts

UserOps == {"release", "heartbeat", "chat", "schedule", "reset"}

ASSUME LeaseAssumption ==
  /\ UserOp \subseteq UserOps
  /\ Ttl \in Nat \ {0} /\ RetryTtl \in 1..Ttl
  /\ Disconnects \in BOOLEAN
  /\ MaxTakeover \in Nat /\ MaxRelease \in Nat /\ MaxHeartbeat \in Nat
  /\ MaxRun \in Nat /\ MaxReset \in Nat /\ MaxFault \in Nat /\ MaxCrash \in Nat

VARIABLES
  lease,         \* the row of desktop_leases, with the time that is left; generation 0: none
  file,          \* desktop-lease.json in the container
  calls,         \* lease calls on their way to the worker
  continuation,  \* row of desktop_continuations: the interrupted run, 0 if there is none
  conv,          \* number of the agent's current conversation
  run,           \* the agent's runs in creation order
  op,            \* the handler that holds the agent's operation lock
  scanned,       \* whether the scheduler has the lease on its list of expired ones
  control,       \* history: who was last told to be in control
  used           \* how much of each bound is used up

vars == <<lease, file, calls, continuation, conv, run, op, scanned, control, used>>
rows == <<lease, continuation, conv, run>>
world == <<file, calls, scanned, control>>

Holder == {"agent", "human"}
Lease == [holder: Holder, generation: Nat]
Kind == {"none", "takeover", "release", "expire", "chat", "schedule"}
Run == [source: {"chat", "schedule"}, conversation: Nat, active: BOOLEAN,
        watched: BOOLEAN, continues: Nat]

PC == {"idle",
       "inspect", "preserve", "interrupt", "finish",  \* takeover
       "acquire", "send", "wait", "retry",            \* lease row, lease call
       "take", "continue", "create", "turn"}          \* continuation, new run

Operation == [kind: Kind, run: Nat, gone: BOOLEAN, pc: PC]

Idle == [kind |-> "none", run |-> 0, gone |-> FALSE, pc |-> "idle"]

RunId == DOMAIN run

\* Neither the file nor a call runs ahead of the row.
LeaseTyped ==
  /\ lease \in [holder: Holder, generation: Nat, left: 0..Ttl]
  /\ file \in Lease /\ (file.generation <= lease.generation \/ file.generation = 1)
  /\ calls \subseteq Lease /\ \A c \in calls : c.generation <= lease.generation

\* A run continues an earlier one.
RunsTyped ==
  /\ run \in Seq(Run)
  /\ \A r \in RunId : run[r].continues \in 0..(r - 1)

\* Types; what the other rows and the handler refer to are runs that exist.
TypeOK ==
  /\ LeaseTyped
  /\ RunsTyped
  /\ op \in Operation /\ op.run \in RunId \cup {0}
  /\ continuation \in RunId \cup {0}
  /\ conv \in Nat
  /\ scanned \in BOOLEAN
  /\ control \in Holder
  /\ used \in [{"takeover", "release", "heartbeat", "run", "fault", "crash"} -> Nat]

\* An agent whose desktop nobody has taken yet: the first file of its container, no row.
Init ==
  /\ lease = [holder |-> "agent", generation |-> 0, left |-> 0]
  /\ file = [holder |-> "agent", generation |-> 1]
  /\ calls = {}
  /\ continuation = 0
  /\ conv = 1
  /\ run = <<>>
  /\ op = Idle
  /\ scanned = FALSE
  /\ control = "agent"
  /\ used = [k \in {"takeover", "release", "heartbeat", "run", "fault", "crash"} |-> 0]
-----------------------------------------------------------------------------
HumanControlsDesktop == lease.holder = "human" /\ lease.left > 0

\* The row that ExpiredHumanDesktopLeases selects.
Expired == lease.holder = "human" /\ lease.left = 0

ActiveRuns == {r \in RunId : run[r].active}

\* The unique partial index leaves at most one; 0 stands for ErrNotFound.
ActiveRun == IF ActiveRuns = {} THEN 0 ELSE CHOOSE r \in ActiveRuns : TRUE

\* The desktop tools of the agent accept actions.
AgentMayAct == file.holder = "agent"

Use(k) == used' = [used EXCEPT ![k] = @ + 1]
Step(pc) == op' = [op EXCEPT !.pc = pc]
Return == op' = Idle

\* The upsert increments the generation; what is left of an agent's lease is never read.
AcquireDesktopLease(holder, left) ==
  [holder |-> holder, generation |-> lease.generation + 1, left |-> left]

\* Mutant: the fallback of an expiry is left out.
NoRetryLease == lease

RetryLease == AcquireDesktopLease("human", RetryTtl)

\* Mutant: whatever the lease's state is.
MayRenewAny == lease.holder = "human"

\* Only a lease that has not expired is renewed.
MayRenew == HumanControlsDesktop

NewRun(source, continues) ==
  [source |-> source, conversation |-> IF source = "schedule" THEN 0 ELSE conv,
   active |-> TRUE, watched |-> FALSE, continues |-> continues]
-----------------------------------------------------------------------------
(* takeover                                                                *)

Takeover ==
  /\ op = Idle
  /\ used["takeover"] < MaxTakeover
  /\ op' = [Idle EXCEPT !.kind = "takeover", !.pc = "inspect"]
  /\ Use("takeover")
  /\ UNCHANGED <<rows, world>>

InspectActiveRun ==
  /\ op.pc = "inspect"
  /\ IF op.gone THEN Return ELSE op' = [op EXCEPT !.pc = "preserve", !.run = ActiveRun]
  /\ UNCHANGED <<rows, world, used>>

\* What SetDesktopContinuation stores: nothing for scheduled work.
Preserved(r) == IF r # 0 /\ run[r].source = "chat" THEN r ELSE 0

SetDesktopContinuation ==
  /\ op.pc = "preserve"
  /\ IF op.gone THEN Return /\ UNCHANGED continuation
     ELSE /\ continuation' = Preserved(op.run)
          /\ Step(IF op.run = 0 THEN "acquire" ELSE "interrupt")
  /\ UNCHANGED <<lease, conv, run, world, used>>

\* The call's error is ignored; the relay ends a run whose turn was interrupted.
InterruptTurn ==
  /\ op.pc = "interrupt"
  /\ Step("finish")
  /\ UNCHANGED <<rows, world, used>>

\* FinishRun's error is ignored, then cancelRelay.
FinishRun ==
  /\ op.pc = "finish"
  /\ IF op.gone THEN run' = [run EXCEPT ![op.run].watched = FALSE]
     ELSE run' = [run EXCEPT ![op.run].watched = FALSE, ![op.run].active = FALSE]
  /\ Step("acquire")
  /\ UNCHANGED <<lease, continuation, conv, world, used>>
-----------------------------------------------------------------------------
(* releaseDesktop, and what takeover, release and expiry have in common:   *)
(* the row, then the file.                                                 *)

ReleaseDesktop ==
  /\ "release" \in UserOp
  /\ op = Idle
  /\ used["release"] < MaxRelease
  /\ op' = [Idle EXCEPT !.kind = "release", !.pc = "acquire"]
  /\ Use("release")
  /\ UNCHANGED <<rows, world>>

Acquire ==
  /\ op.pc = "acquire"
  /\ IF op.gone THEN Return /\ UNCHANGED <<lease, control>>
     ELSE /\ Step("send")
          /\ IF op.kind = "takeover"
             THEN lease' = AcquireDesktopLease("human", Ttl) /\ UNCHANGED control
             ELSE lease' = AcquireDesktopLease("agent", 0) /\ control' = "agent"
  /\ UNCHANGED <<continuation, conv, run, file, calls, scanned, used>>

Call == [holder |-> lease.holder, generation |-> lease.generation]

SendLease ==
  /\ op.pc = "send"
  /\ calls' = calls \cup {Call}
  /\ Step("wait")
  /\ UNCHANGED <<rows, file, scanned, control, used>>

\* The worker replaces the file, whatever generation it holds.
WorkerWritesLease ==
  /\ \E c \in calls : file' = c /\ calls' = calls \ {c}
  /\ UNCHANGED <<rows, op, scanned, control, used>>

\* Mutant: the reply is not waited for.
AnsweredAtOnce == TRUE

Answered == Call \notin calls

LeaseSet ==
  /\ op.pc = "wait"
  /\ Answered /\ ~op.gone
  /\ IF op.kind = "takeover" THEN control' = "human" /\ Return
                             ELSE Step("take") /\ UNCHANGED control
  /\ UNCHANGED <<rows, file, calls, scanned, used>>

\* The call fails, its time is over, or the browser has left.
LeaseCallFails ==
  /\ op.pc = "wait"
  /\ \/ op.gone /\ UNCHANGED used
     \/ used["fault"] < MaxFault /\ Use("fault")
  /\ calls' = calls \ {Call}
  /\ IF op.kind = "expire" THEN Step("retry") ELSE Return
  /\ UNCHANGED <<rows, file, scanned, control>>
-----------------------------------------------------------------------------
(* The continuation, after a release or an expiry.                         *)

\* Mutant: the row is read and not deleted.
KeptContinuation == continuation

\* What is left of the row once it has been taken.
TakenContinuation == 0

TakeDesktopContinuation ==
  /\ op.pc = "take"
  /\ IF op.gone THEN Return /\ UNCHANGED continuation
     ELSE /\ continuation' = TakenContinuation
          /\ IF continuation = 0 THEN Return
             ELSE op' = [op EXCEPT !.pc = "continue", !.run = continuation]
  /\ UNCHANGED <<lease, conv, run, world, used>>

\* A busy agent is not continued; the error is only reported.
StartContinuation ==
  /\ op.pc = "continue"
  /\ IF ActiveRun # 0 \/ op.gone THEN Return /\ UNCHANGED run
     ELSE /\ run' = Append(run, NewRun("chat", op.run))
          /\ op' = [op EXCEPT !.pc = "turn", !.run = Len(run) + 1]
  /\ UNCHANGED <<lease, continuation, conv, world, used>>

\* The turn starts and gets its relay, or FinishRun ends the run.  A browser
\* that has left cancels both the call and the update.
StartTurn ==
  /\ op.pc = "turn"
  /\ \/ ~op.gone /\ run' = [run EXCEPT ![op.run].watched = TRUE] /\ UNCHANGED used
     \/ op.gone /\ UNCHANGED <<run, used>>
     \/ /\ ~op.gone /\ used["fault"] < MaxFault /\ Use("fault")
        /\ run' = [run EXCEPT ![op.run].active = FALSE]
  /\ Return
  /\ UNCHANGED <<lease, continuation, conv, world>>
-----------------------------------------------------------------------------
(* message, dispatchCollaboration and runDueSchedule to an idle agent.     *)

\* The checks under the lock.  Schedules run on the goroutine of the expiry.
StartRun(source) ==
  /\ source \in UserOp
  /\ source = "schedule" => ~scanned
  /\ op = Idle
  /\ used["run"] < MaxRun
  /\ ~HumanControlsDesktop
  /\ ActiveRun = 0
  /\ op' = [Idle EXCEPT !.kind = source, !.pc = "create"]
  /\ Use("run")
  /\ UNCHANGED <<rows, world>>

CreateRun ==
  /\ op.pc = "create"
  /\ IF op.gone THEN Return /\ UNCHANGED run
     ELSE /\ run' = Append(run, NewRun(op.kind, 0))
          /\ op' = [op EXCEPT !.pc = "turn", !.run = Len(run) + 1]
  /\ UNCHANGED <<lease, continuation, conv, world, used>>

\* The relay stores the outcome of a run it watches.
RunEnds(r) ==
  /\ run[r].active /\ run[r].watched
  /\ run' = [run EXCEPT ![r].active = FALSE, ![r].watched = FALSE]
  /\ UNCHANGED <<lease, continuation, conv, world, op, used>>

\* Mutant: New chat leaves the continuation.
ContinuationAfterResetKept == continuation

ContinuationAfterReset == 0

\* New chat: refused while a run is active or a human is in control.
ResetAgentConversation ==
  /\ "reset" \in UserOp
  /\ op = Idle
  /\ conv <= MaxReset
  /\ ActiveRun = 0 /\ ~HumanControlsDesktop
  /\ conv' = conv + 1
  /\ continuation' = ContinuationAfterReset
  /\ UNCHANGED <<lease, run, world, op, used>>
-----------------------------------------------------------------------------
(* Time.                                                                   *)

Tick ==
  /\ HumanControlsDesktop
  /\ lease' = [lease EXCEPT !.left = @ - 1]
  /\ UNCHANGED <<continuation, conv, run, world, op, used>>

\* desktopHeartbeat takes no lock.
DesktopHeartbeat ==
  /\ "heartbeat" \in UserOp
  /\ used["heartbeat"] < MaxHeartbeat
  /\ MayRenew
  /\ lease' = [lease EXCEPT !.left = Ttl]
  /\ Use("heartbeat")
  /\ UNCHANGED <<continuation, conv, run, world, op>>

\* The scheduler lists the expired leases, then waits for one lock after the other.
ExpiredHumanDesktopLeases ==
  /\ Expired /\ ~scanned /\ op.kind \notin {"expire", "schedule"}
  /\ scanned' = TRUE
  /\ UNCHANGED <<rows, file, calls, control, op, used>>

ExpireDesktopLease ==
  /\ scanned
  /\ op = Idle
  /\ scanned' = FALSE
  /\ op' = [Idle EXCEPT !.kind = "expire", !.pc = "acquire"]
  /\ UNCHANGED <<rows, file, calls, control, used>>

\* An expiry that could not reach the worker leaves the lease to the human for a while.
RetryExpiry ==
  /\ op.pc = "retry"
  /\ lease' = RetryLease
  /\ Return
  /\ UNCHANGED <<continuation, conv, run, world, used>>
-----------------------------------------------------------------------------
ClientGone ==
  /\ Disconnects
  /\ op.kind \in {"takeover", "release", "chat"} /\ ~op.gone
  /\ op' = [op EXCEPT !.gone = TRUE]
  /\ UNCHANGED <<rows, world, used>>

\* The server ends and starts again; active runs get their relay back.
Restart ==
  /\ used["crash"] < MaxCrash
  /\ Use("crash")
  /\ op' = Idle
  /\ scanned' = FALSE
  /\ calls' = {}
  /\ run' = [r \in RunId |-> [run[r] EXCEPT !.watched = run[r].active]]
  /\ UNCHANGED <<lease, continuation, conv, file, control>>

\* Nothing is left to do: no handler, no human lease, and no run that will end.
Settled ==
  /\ op = Idle /\ lease.holder = "agent" /\ calls = {}
  /\ \A r \in ActiveRuns : ~run[r].watched
  /\ UNCHANGED vars

Handler ==
  \/ InspectActiveRun \/ SetDesktopContinuation \/ InterruptTurn \/ FinishRun
  \/ Acquire \/ SendLease \/ LeaseSet \/ LeaseCallFails \/ RetryExpiry
  \/ TakeDesktopContinuation \/ StartContinuation \/ StartTurn \/ CreateRun

Scheduler == ExpiredHumanDesktopLeases \/ ExpireDesktopLease

Request ==
  \/ Takeover \/ ReleaseDesktop \/ DesktopHeartbeat \/ ResetAgentConversation
  \/ \E source \in {"chat", "schedule"} : StartRun(source)

Next ==
  \/ Handler \/ Request \/ Scheduler \/ Tick \/ WorkerWritesLease
  \/ \E r \in RunId : RunEnds(r)
  \/ ClientGone \/ Restart \/ Settled

Spec == Init /\ [][Next]_vars

\* Handlers go on, calls arrive, time passes, runs end.  A scheduler that waits
\* for the lock gets it: sync.Mutex hands it to a waiter that starves.
Fairness ==
  /\ WF_vars(Handler) /\ WF_vars(WorkerWritesLease) /\ WF_vars(Tick)
  /\ WF_vars(ExpiredHumanDesktopLeases) /\ SF_vars(ExpireDesktopLease)
  /\ WF_vars(\E r \in RunId : RunEnds(r))

FairSpec == Spec /\ Fairness
-----------------------------------------------------------------------------
(* Properties.                                                             *)

\* A human who was told to be in control shares the desktop with no tool of the
\* agent until control is given up or has expired.
AcknowledgedControlIsExclusive == control = "human" => ~AgentMayAct

\* No run is created while a human lease is live, although the handlers check
\* it several steps earlier and heartbeats take no lock.
NoRunStartsUnderHuman == [][RunId' # RunId => ~HumanControlsDesktop]_vars

\* The work a takeover has interrupted is continued at most once.
ContinuedOnce ==
  \A c, d \in RunId : run[c].continues = run[d].continues /\ run[c].continues # 0 => c = d

\* It is continued in the conversation it was interrupted in: never after New
\* chat, never scheduled work in the chat.
ContinuedInItsConversation ==
  \A c \in RunId : run[c].continues # 0 =>
    run[run[c].continues].conversation = run[c].conversation

\* An abandoned desktop, that nobody has released, returns to the agent, even when the
\* worker cannot be reached for a while, unless the server ends meanwhile.
AbandonedDesktopReturns ==
  file.holder = "human"
    ~> (file.holder = "agent" \/ used["release"] > 0 \/ used["crash"] > 0)

\* As documented, without exception.
EveryDesktopReturns == file.holder = "human" ~> file.holder = "agent"

\* As documented: a live human lease and an active run exclude each other.
OneOwner == HumanControlsDesktop => ActiveRuns = {}
=============================================================================
