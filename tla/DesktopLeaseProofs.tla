------------------------ MODULE DesktopLeaseProofs ------------------------
(***************************************************************************)
(* The safety properties of DesktopLease, for all values of its constants. *)
(* None of them is inductive.  HandlerInv and LeaseInv say what a handler  *)
(* may rely on between its transactions, RunInv and ContinuationInv what   *)
(* the rows of runs and continuations say about each other.                *)
(***************************************************************************)
EXTENDS DesktopLease, SequenceTheorems, TLAPS

\* Which handlers come to which steps.
HandlerInv ==
  /\ op.pc \in {"inspect", "preserve", "interrupt", "finish"} => op.kind = "takeover"
  /\ op.pc = "create" => op.kind \in {"chat", "schedule"}
  /\ op.pc \in {"acquire", "send", "wait"} => op.kind \in {"takeover", "release", "expire"}

\* Between the row and the file the row does not change hands, and only the
\* handler's own call is under way.
LeaseInv ==
  /\ op.pc \in {"send", "wait"} =>
       lease.holder = IF op.kind = "takeover" THEN "human" ELSE "agent"
  /\ op.pc \in {"take", "continue"} => lease.holder = "agent"
  /\ op.pc = "create" => ~HumanControlsDesktop
  /\ op.pc = "wait" => calls \subseteq {Call} /\ (Call \notin calls => file = Call)
  /\ op.pc # "wait" => calls = {}

\* A human who was told to be in control has the file until another handler
\* than a takeover has changed the row and told so.
ControlInv ==
  control = "human" =>
    /\ file.holder = "human"
    /\ op.pc \in {"send", "wait"} => op.kind = "takeover"

\* A run is continued after its end, and chat is active in the current conversation only.
RunInv ==
  /\ \A c \in RunId : run[c].continues # 0 => ~run[run[c].continues].active
  /\ \A r \in RunId : run[r].active /\ run[r].source = "chat" => run[r].conversation = conv

\* Run r may be continued: it belongs to the current conversation, and nothing continues it.
MayContinue(r) ==
  r # 0 => /\ run[r].conversation = conv
           /\ \A c \in RunId : run[c].continues # r

\* Whatever is, or is about to be, the row of desktop_continuations may be continued.
ContinuationInv ==
  /\ MayContinue(continuation)
  /\ op.pc = "preserve" /\ op.run # 0 /\ run[op.run].source = "chat" => MayContinue(op.run)
  /\ op.pc = "continue" => op.run # 0 /\ MayContinue(op.run) /\ continuation = 0

\* What a continued run is, stays as it is.
LinksInv == RunInv /\ ContinuationInv /\ ContinuedOnce /\ ContinuedInItsConversation

Inv == TypeOK /\ HandlerInv /\ LeaseInv /\ ControlInv /\ LinksInv
-----------------------------------------------------------------------------
(* The table of runs under an UPDATE or an INSERT.                         *)

\* A step rewrites runs, none of which starts, moves or changes its origin.
RunsEdited ==
  /\ RunId' = RunId
  /\ \A r \in RunId :
       /\ run'[r].source = run[r].source
       /\ run'[r].conversation = run[r].conversation
       /\ run'[r].continues = run[r].continues
       /\ run'[r].active => run[r].active

\* A step adds one run.
RunAdded(new) ==
  /\ RunId' = RunId \cup {Len(run) + 1}
  /\ run'[Len(run) + 1] = new
  /\ \A r \in RunId : run'[r] = run[r] /\ r # Len(run) + 1

\* The table of runs as a function on row numbers.
LEMMA RunTable ==
  ASSUME RunsTyped
  PROVE  Len(run) \in Nat /\ RunId = 1..Len(run) /\ run \in [RunId -> Run]
BY LenProperties DEF RunsTyped, RunId

\* An UPDATE of runs keeps the table typed.
LEMMA EditedRunsTyped ==
  ASSUME RunsTyped, run' \in [RunId -> Run],
         \A r \in RunId :
           /\ run'[r].source = run[r].source
           /\ run'[r].conversation = run[r].conversation
           /\ run'[r].continues = run[r].continues
           /\ run'[r].active => run[r].active
  PROVE  RunsTyped' /\ RunsEdited
<1>1. run' \in Seq(Run)
  BY RunTable, SeqDef
<1>2. RunId' = RunId
  BY RunTable DEF RunId
<1> QED
  BY <1>1, <1>2 DEF RunsTyped, RunsEdited

\* An INSERT keeps the table typed when the new row refers to an earlier one.
LEMMA AddedRunTyped ==
  ASSUME RunsTyped, NEW new \in Run, new.continues \in 0..Len(run),
         run' = Append(run, new)
  PROVE  RunsTyped' /\ RunAdded(new)
<1>1. /\ run' \in Seq(Run) /\ Len(run') = Len(run) + 1
      /\ \A r \in 1..Len(run) : run'[r] = run[r]
      /\ run'[Len(run) + 1] = new
  BY AppendProperties DEF RunsTyped
<1>2. RunId' = 1..(Len(run) + 1) /\ RunId = 1..Len(run) /\ Len(run) \in Nat
  BY <1>1, RunTable, LenProperties DEF RunId
<1>3. RunAdded(new)
  BY <1>1, <1>2 DEF RunAdded
<1>4. ASSUME NEW r \in RunId' PROVE run'[r].continues \in 0..(r - 1)
  <2>1. CASE r \in RunId
    BY <1>1, <1>2, <2>1 DEF RunsTyped
  <2>2. CASE r = Len(run) + 1
    BY <1>1, <1>2, <2>2
  <2> QED
    BY <1>2, <2>1, <2>2
<1> QED
  BY <1>1, <1>3, <1>4 DEF RunsTyped

\* The number of an inserted run.
LEMMA InsertedRun ==
  ASSUME RunsTyped, RunsTyped', NEW new, run' = Append(run, new)
  PROVE  Len(run) + 1 \in RunId'
<1>1. Len(run') = Len(run) + 1
  BY RunTable DEF RunsTyped
<1> QED
  BY <1>1, RunTable, LenProperties DEF RunsTyped, RunId

\* ActiveRun is the number of an active run, or there is none.
LEMMA ActiveRunProperties ==
  ASSUME RunsTyped
  PROVE  /\ ActiveRun \in RunId \cup {0}
         /\ ActiveRun # 0 => run[ActiveRun].active
         /\ ActiveRun = 0 => \A r \in RunId : ~run[r].active
<1>1. CASE ActiveRuns = {}
  <2>1. ActiveRun = 0
    BY <1>1 DEF ActiveRun
  <2>2. \A r \in RunId : ~run[r].active
    BY <1>1 DEF ActiveRuns
  <2> QED
    BY <2>1, <2>2
<1>2. CASE ActiveRuns # {}
  <2>1. ActiveRun \in ActiveRuns
    BY <1>2 DEF ActiveRun
  <2>2. ActiveRun \in RunId /\ run[ActiveRun].active
    BY <2>1 DEF ActiveRuns
  <2> QED
    BY <2>2, RunTable
<1> QED
  BY <1>1, <1>2
-----------------------------------------------------------------------------
(* TypeOK.                                                                 *)

\* The initial state is typed.
LEMMA InitTypes == Init => TypeOK
<1> SUFFICES ASSUME Init PROVE TypeOK
  OBVIOUS
<1>1. run \in Seq(Run) /\ RunId = {}
  BY EmptySeq DEF Init, RunId
<1>2. LeaseTyped
  BY LeaseAssumption DEF Init, LeaseTyped, Lease, Holder
<1>3. op \in Operation /\ op.run = 0
  BY DEF Init, Idle, Operation, Kind, PC
<1> QED
  BY <1>1, <1>2, <1>3 DEF Init, TypeOK, RunsTyped, Holder

\* Every change of the row, the file and the calls.
LEMMA LeaseTypes ==
  ASSUME TypeOK, Next
  PROVE  LeaseTyped'
<1> USE LeaseAssumption DEF TypeOK, LeaseTyped, Lease, Holder, rows, world
<1>1. CASE Acquire
  BY <1>1 DEF Acquire, AcquireDesktopLease
<1>2. CASE SendLease
  BY <1>2 DEF SendLease, Call
<1>3. CASE WorkerWritesLease
  BY <1>3 DEF WorkerWritesLease
<1>4. CASE LeaseCallFails
  BY <1>4 DEF LeaseCallFails
<1>5. CASE RetryExpiry
  BY <1>5 DEF RetryExpiry, RetryLease, AcquireDesktopLease
<1>6. CASE Tick
  BY <1>6 DEF Tick, HumanControlsDesktop
<1>7. CASE DesktopHeartbeat
  BY <1>7 DEF DesktopHeartbeat
<1>8. CASE Restart
  BY <1>8 DEF Restart
<1>9. CASE UNCHANGED <<lease, file, calls>>
  BY <1>9
<1>10. Acquire \/ SendLease \/ WorkerWritesLease \/ LeaseCallFails \/ RetryExpiry \/ Tick
         \/ DesktopHeartbeat \/ Restart \/ UNCHANGED <<lease, file, calls>>
  BY Zenon DEF Next, Handler, Request, Scheduler, InspectActiveRun, SetDesktopContinuation,
    InterruptTurn, FinishRun, LeaseSet, TakeDesktopContinuation, StartContinuation, StartTurn,
    CreateRun, ExpiredHumanDesktopLeases, ExpireDesktopLease, Takeover, ReleaseDesktop,
    ResetAgentConversation, StartRun, RunEnds, ClientGone, Settled, vars
<1> QED
  BY <1>1, <1>2, <1>3, <1>4, <1>5, <1>6, <1>7, <1>8, <1>9, <1>10

\* The runs a handler or the scheduler adds.
AddsRun ==
  \/ StartContinuation /\ ActiveRun = 0 /\ ~op.gone /\ RunAdded(NewRun("chat", op.run))
  \/ CreateRun /\ ~op.gone /\ RunAdded(NewRun(op.kind, 0))

\* Every change of the runs.
LEMMA RunTypes ==
  ASSUME TypeOK, HandlerInv, Next
  PROVE  RunsTyped' /\ (UNCHANGED run \/ RunsEdited \/ AddsRun)
<1> USE RunTable DEF TypeOK, rows, world
<1>1. CASE FinishRun
  <2>1. CASE run' = [run EXCEPT ![op.run].watched = FALSE]
    <3>1. run' \in [RunId -> Run]
      BY <2>1 DEF Run
    <3> QED
      BY <2>1, <3>1, EditedRunsTyped DEF Run
  <2>2. CASE run' = [run EXCEPT ![op.run].watched = FALSE, ![op.run].active = FALSE]
    <3> DEFINE Ended(r) == [run[r] EXCEPT !.watched = FALSE, !.active = FALSE]
    <3>1. \A r \in RunId :
            /\ Ended(r) \in Run /\ Ended(r).source = run[r].source
            /\ Ended(r).conversation = run[r].conversation
            /\ Ended(r).continues = run[r].continues /\ ~Ended(r).active
      BY DEF Run
    <3>2. run' = [r \in RunId |-> IF r = op.run THEN Ended(r) ELSE run[r]]
      BY <2>2 DEF Run
    <3> HIDE DEF Ended
    <3>3. run' \in [RunId -> Run]
      BY <3>1, <3>2
    <3> QED
      BY <3>1, <3>2, <3>3, EditedRunsTyped
  <2> QED
    BY <1>1, <2>1, <2>2, Zenon DEF FinishRun
<1>2. CASE StartContinuation
  <2>1. CASE UNCHANGED run
    BY <2>1, Zenon DEF RunsTyped, RunId
  <2>2. CASE ~(ActiveRun # 0 \/ op.gone)
    <3>1. run' = Append(run, NewRun("chat", op.run))
      BY <1>2, <2>2 DEF StartContinuation
    <3>2. NewRun("chat", op.run) \in Run /\ NewRun("chat", op.run).continues \in 0..Len(run)
      BY DEF NewRun, Run
    <3> QED
      BY <1>2, <2>2, <3>1, <3>2, AddedRunTyped DEF AddsRun
  <2> QED
    BY <1>2, <2>1, <2>2 DEF StartContinuation
<1>3. CASE StartTurn
  <2>1. CASE UNCHANGED run
    BY <2>1 DEF RunsTyped, RunId
  <2>2. CASE run' = [run EXCEPT ![op.run].watched = TRUE]
    <3>1. run' \in [RunId -> Run]
      BY <2>2 DEF Run
    <3> QED
      BY <2>2, <3>1, EditedRunsTyped DEF Run
  <2>3. CASE run' = [run EXCEPT ![op.run].active = FALSE]
    <3>1. run' \in [RunId -> Run]
      BY <2>3 DEF Run
    <3> QED
      BY <2>3, <3>1, EditedRunsTyped DEF Run
  <2> QED
    BY <1>3, <2>1, <2>2, <2>3 DEF StartTurn
<1>4. CASE CreateRun
  <2>1. CASE op.gone
    BY <1>4, <2>1 DEF CreateRun, RunsTyped, RunId
  <2>2. CASE ~op.gone
    <3>1. run' = Append(run, NewRun(op.kind, 0))
      BY <1>4, <2>2 DEF CreateRun
    <3>2. op.kind \in {"chat", "schedule"}
      BY <1>4 DEF CreateRun, HandlerInv
    <3>3. NewRun(op.kind, 0) \in Run /\ NewRun(op.kind, 0).continues \in 0..Len(run)
      BY <3>2 DEF NewRun, Run
    <3> QED
      BY <1>4, <2>2, <3>1, <3>3, AddedRunTyped DEF AddsRun
  <2> QED
    BY <2>1, <2>2, Zenon
<1>5. CASE \E r \in RunId : RunEnds(r)
  <2>1. PICK r \in RunId : RunEnds(r)
    BY <1>5
  <2>2. run' \in [RunId -> Run]
    BY <2>1, ZenonT(60) DEF RunEnds, Run
  <2> QED
    BY <2>1, <2>2, EditedRunsTyped DEF RunEnds, Run
<1>6. CASE Restart
  <2>1. run' \in [RunId -> Run]
    BY <1>6 DEF Restart, Run
  <2> QED
    BY <1>6, <2>1, EditedRunsTyped, ZenonT(60) DEF Restart, Run
<1>7. CASE UNCHANGED run
  BY <1>7 DEF RunsTyped, RunId
<1>8. FinishRun \/ StartContinuation \/ StartTurn \/ CreateRun \/ (\E r \in RunId : RunEnds(r))
        \/ Restart \/ UNCHANGED run
  BY Zenon DEF Next, Handler, Request, Scheduler, InspectActiveRun, SetDesktopContinuation,
    InterruptTurn, Acquire, SendLease, LeaseSet, LeaseCallFails, RetryExpiry,
    TakeDesktopContinuation, ExpiredHumanDesktopLeases, ExpireDesktopLease, Takeover,
    ReleaseDesktop, DesktopHeartbeat, ResetAgentConversation, StartRun, Tick,
    WorkerWritesLease, ClientGone, Settled, vars
<1> QED
  BY <1>1, <1>2, <1>3, <1>4, <1>5, <1>6, <1>7, <1>8

\* No step deletes a run.
LEMMA RunsGrow ==
  ASSUME RunsTyped, UNCHANGED run \/ RunsEdited \/ AddsRun
  PROVE  RunId \subseteq RunId'
BY DEF RunsEdited, AddsRun, RunAdded, RunId

\* Steps and kinds of handlers, for leaves that need not see all of them.
LEMMA Names ==
  /\ "idle" \in PC /\ "inspect" \in PC /\ "preserve" \in PC /\ "interrupt" \in PC
  /\ "finish" \in PC /\ "acquire" \in PC /\ "send" \in PC /\ "wait" \in PC /\ "retry" \in PC
  /\ "take" \in PC /\ "continue" \in PC /\ "create" \in PC /\ "turn" \in PC
  /\ "none" \in Kind /\ "takeover" \in Kind /\ "release" \in Kind /\ "expire" \in Kind
  /\ "chat" \in Kind /\ "schedule" \in Kind
BY DEF PC, Kind

\* A handler of some kind begins or goes on, with a run that exists.
LEMMA HandlerMoves ==
  ASSUME TypeOK, RunsTyped', RunId \subseteq RunId', NEW pc \in PC, NEW k \in Kind, NEW r \in RunId' \cup {0}
  PROVE  /\ op' = Idle => op' \in Operation /\ op'.run \in RunId' \cup {0}
         /\ op' = [Idle EXCEPT !.kind = k, !.pc = pc] => op' \in Operation /\ op'.run \in RunId' \cup {0}
         /\ op' = [op EXCEPT !.pc = pc] => op' \in Operation /\ op'.run \in RunId' \cup {0}
         /\ op' = [op EXCEPT !.pc = pc, !.run = r] => op' \in Operation /\ op'.run \in RunId' \cup {0}
         /\ op' = [op EXCEPT !.gone = TRUE] => op' \in Operation /\ op'.run \in RunId' \cup {0}
<1>1. RunId' \cup {0} \subseteq Nat
  BY LenProperties DEF RunsTyped, RunId
<1>2. op \in Operation /\ op.run \in RunId' \cup {0}
  BY DEF TypeOK
<1>3. Idle \in Operation /\ Idle.run = 0
  BY Names DEF Idle, Operation
<1> QED
  BY <1>1, <1>2, <1>3 DEF Operation, Idle

\* The handler and what it refers to.
LEMMA HandlerTypes ==
  ASSUME TypeOK, HandlerInv, Next
  PROVE  op' \in Operation /\ op'.run \in RunId' \cup {0}
<1>1. RunsTyped /\ RunsTyped' /\ RunId \subseteq RunId' /\ (UNCHANGED run \/ RunsEdited \/ AddsRun)
  BY RunTypes, RunsGrow DEF TypeOK
<1> USE <1>1, Names, HandlerMoves DEF Step, Return
<1>2. CASE StartContinuation
  <2>1. CASE ActiveRun # 0 \/ op.gone
    BY <1>2, <2>1 DEF StartContinuation
  <2>2. CASE ~(ActiveRun # 0 \/ op.gone)
    <3>1. run' = Append(run, NewRun("chat", op.run))
      BY <1>2, <2>2 DEF StartContinuation
    <3>2. Len(run) + 1 \in RunId'
      BY <3>1, InsertedRun
    <3> QED
      BY <1>2, <2>2, <3>2 DEF StartContinuation
  <2> QED
    BY <2>1, <2>2
<1>3. CASE CreateRun
  <2>1. CASE op.gone
    BY <1>3, <2>1 DEF CreateRun
  <2>2. CASE ~op.gone
    <3>1. run' = Append(run, NewRun(op.kind, 0))
      BY <1>3, <2>2 DEF CreateRun
    <3>3. Len(run) + 1 \in RunId'
      BY <3>1, InsertedRun
    <3> QED
      BY <1>3, <2>2, <3>3 DEF CreateRun
  <2> QED
    BY <2>1, <2>2
<1>4. CASE Takeover
  BY <1>4 DEF Takeover
<1>5. CASE InspectActiveRun
  <2>1. ActiveRun \in RunId' \cup {0}
    BY ActiveRunProperties
  <2> QED
    BY <1>5, <2>1 DEF InspectActiveRun
<1>6. CASE SetDesktopContinuation
  BY <1>6 DEF SetDesktopContinuation
<1>7. CASE InterruptTurn \/ FinishRun
  BY <1>7 DEF InterruptTurn, FinishRun
<1>8. CASE ReleaseDesktop
  BY <1>8 DEF ReleaseDesktop
<1>9. CASE Acquire
  BY <1>9 DEF Acquire
<1>10. CASE SendLease
  BY <1>10 DEF SendLease
<1>11. CASE LeaseSet
  BY <1>11 DEF LeaseSet
<1>12. CASE LeaseCallFails
  BY <1>12 DEF LeaseCallFails
<1>13. CASE TakeDesktopContinuation
  <2>1. continuation \in RunId' \cup {0}
    BY DEF TypeOK
  <2> QED
    BY <1>13, <2>1 DEF TakeDesktopContinuation
<1>14. CASE StartTurn \/ RetryExpiry \/ Restart
  BY <1>14 DEF StartTurn, RetryExpiry, Restart
<1>15. CASE \E source \in {"chat", "schedule"} : StartRun(source)
  BY <1>15 DEF StartRun
<1>16. CASE ExpireDesktopLease
  BY <1>16 DEF ExpireDesktopLease
<1>17. CASE ClientGone
  BY <1>17 DEF ClientGone
<1>18. CASE \/ ResetAgentConversation \/ DesktopHeartbeat \/ ExpiredHumanDesktopLeases \/ Tick
            \/ WorkerWritesLease \/ (\E r \in RunId : RunEnds(r)) \/ UNCHANGED vars
  <2>1. UNCHANGED op
    BY <1>18, Zenon DEF ResetAgentConversation, DesktopHeartbeat, ExpiredHumanDesktopLeases, Tick,
      WorkerWritesLease, RunEnds, vars
  <2> QED
    BY <2>1 DEF TypeOK
<1> QED
  BY <1>2, <1>3, <1>4, <1>5, <1>6, <1>7, <1>8, <1>9, <1>10, <1>11, <1>12, <1>13, <1>14,
    <1>15, <1>16, <1>17, <1>18, Zenon DEF Next, Handler, Request, Scheduler, Settled

\* Every step keeps TypeOK.
LEMMA TypeSteps ==
  ASSUME TypeOK, HandlerInv, Next
  PROVE  TypeOK'
<1>1. LeaseTyped' /\ RunsTyped' /\ op' \in Operation /\ op'.run \in RunId' \cup {0}
  BY LeaseTypes, RunTypes, HandlerTypes
<1>2. RunId \subseteq RunId'
  BY RunTypes, RunsGrow DEF TypeOK
<1> USE DEF TypeOK, rows, world
<1>3. continuation' \in RunId' \cup {0}
  <2>1. CASE SetDesktopContinuation
    BY <1>2, <2>1 DEF SetDesktopContinuation, Preserved
  <2>2. continuation' \in {0, continuation} \/ SetDesktopContinuation
    BY Zenon DEF Next, Handler, Request, Scheduler, InspectActiveRun, InterruptTurn, FinishRun,
      Acquire, SendLease, LeaseSet, LeaseCallFails, RetryExpiry, TakeDesktopContinuation,
      TakenContinuation, StartContinuation, StartTurn, CreateRun, ExpiredHumanDesktopLeases,
      ExpireDesktopLease, Takeover, ReleaseDesktop, DesktopHeartbeat, ResetAgentConversation,
      ContinuationAfterReset, StartRun, Tick, WorkerWritesLease, RunEnds, ClientGone, Restart,
      Settled, vars
  <2> QED
    BY <1>2, <2>1, <2>2
<1>4. conv' \in Nat
  <2>1. CASE ResetAgentConversation
    BY <2>1 DEF ResetAgentConversation
  <2>2. UNCHANGED conv \/ ResetAgentConversation
    BY Zenon DEF Next, Handler, Request, Scheduler, InspectActiveRun, SetDesktopContinuation,
      InterruptTurn, FinishRun, Acquire, SendLease, LeaseSet, LeaseCallFails, RetryExpiry,
      TakeDesktopContinuation, StartContinuation, StartTurn, CreateRun,
      ExpiredHumanDesktopLeases, ExpireDesktopLease, Takeover, ReleaseDesktop,
      DesktopHeartbeat, StartRun, Tick, WorkerWritesLease, RunEnds, ClientGone, Restart,
      Settled, vars
  <2> QED
    BY <2>1, <2>2
<1>5. scanned' \in BOOLEAN /\ control' \in Holder
  BY DEF Holder, Next, Handler, Request, Scheduler, InspectActiveRun, SetDesktopContinuation,
    InterruptTurn, FinishRun, Acquire, SendLease, LeaseSet, LeaseCallFails, RetryExpiry,
    TakeDesktopContinuation, StartContinuation, StartTurn, CreateRun,
    ExpiredHumanDesktopLeases, ExpireDesktopLease, Takeover, ReleaseDesktop,
    DesktopHeartbeat, ResetAgentConversation, StartRun, Tick, WorkerWritesLease, RunEnds,
    ClientGone, Restart, Settled, vars
<1>6. used' \in [{"takeover", "release", "heartbeat", "run", "fault", "crash"} -> Nat]
  <2>1. UNCHANGED used \/ Use("takeover") \/ Use("release") \/ Use("heartbeat") \/ Use("run")
          \/ Use("fault") \/ Use("crash")
    BY Zenon DEF Next, Handler, Request, Scheduler, InspectActiveRun, SetDesktopContinuation,
      InterruptTurn, FinishRun, Acquire, SendLease, LeaseSet, LeaseCallFails, RetryExpiry,
      TakeDesktopContinuation, StartContinuation, StartTurn, CreateRun,
      ExpiredHumanDesktopLeases, ExpireDesktopLease, Takeover, ReleaseDesktop,
      DesktopHeartbeat, ResetAgentConversation, StartRun, Tick, WorkerWritesLease, RunEnds,
      ClientGone, Restart, Settled, vars
  <2> QED
    BY <2>1 DEF Use
<1> QED
  BY <1>1, <1>3, <1>4, <1>5, <1>6
-----------------------------------------------------------------------------
(* What a handler may rely on between the row and the file.                *)

\* A handler's next step, written without the record.
Moves(pc, r) == op'.pc = pc /\ op'.kind = op.kind /\ op'.run = r
Ends == op'.pc = "idle" /\ op'.kind = "none" /\ op'.run = 0

\* What the three ways to write op' say of its fields.
LEMMA MovedHandler ==
  ASSUME TypeOK, NEW pc, NEW r
  PROVE  /\ op' = [op EXCEPT !.pc = pc, !.run = r] => Moves(pc, r)
         /\ op' = [op EXCEPT !.pc = pc] => Moves(pc, op.run)
         /\ op' = Idle => Ends
<1>1. op \in Operation
  BY DEF TypeOK
<1>2. ASSUME op' = [op EXCEPT !.pc = pc, !.run = r] PROVE Moves(pc, r)
  BY <1>1, <1>2 DEF Operation, Moves
<1>3. ASSUME op' = [op EXCEPT !.pc = pc] PROVE Moves(pc, op.run)
  BY <1>1, <1>3 DEF Operation, Moves
<1>4. ASSUME op' = Idle PROVE Ends
  BY <1>4 DEF Idle, Ends
<1> QED
  BY <1>2, <1>3, <1>4

\* Every step keeps what handlers rely on.
LEMMA LeaseSteps ==
  ASSUME TypeOK, HandlerInv, LeaseInv, ControlInv, Next
  PROVE  HandlerInv' /\ LeaseInv' /\ ControlInv'
<1> USE DEF HandlerInv, LeaseInv, ControlInv, HumanControlsDesktop, rows, world
<1> op \in Operation /\ lease \in [holder: Holder, generation: Nat, left: 0..Ttl]
  BY DEF TypeOK, LeaseTyped
<1>1. CASE Takeover
  BY <1>1 DEF Takeover, Operation, Idle, Step, Return
<1>2. CASE InspectActiveRun
  <2>1. op.pc = "inspect" /\ UNCHANGED <<lease, file, calls, control>>
    BY <1>2, Zenon DEF InspectActiveRun
  <2>2. Ends \/ Moves("preserve", ActiveRun)
    BY <1>2, MovedHandler, Zenon DEF InspectActiveRun, Step, Return
  <2> QED
    BY <2>1, <2>2 DEF Moves, Ends
<1>3. CASE SetDesktopContinuation
  <2>1. op.pc = "preserve" /\ UNCHANGED <<lease, file, calls, control>>
    BY <1>3, Zenon DEF SetDesktopContinuation
  <2>2. Ends \/ Moves("acquire", op.run) \/ Moves("interrupt", op.run)
    BY <1>3, MovedHandler, Zenon DEF SetDesktopContinuation, Step, Return
  <2> QED
    BY <2>1, <2>2 DEF Moves, Ends
<1>4. CASE InterruptTurn \/ FinishRun
  <2>1. op.pc \in {"interrupt", "finish"} /\ UNCHANGED <<lease, file, calls, control>>
    BY <1>4, Zenon DEF InterruptTurn, FinishRun
  <2>2. Moves("finish", op.run) \/ Moves("acquire", op.run)
    BY <1>4, MovedHandler, Zenon DEF InterruptTurn, FinishRun, Step, Return
  <2> QED
    BY <2>1, <2>2 DEF Moves, Ends
<1>5. CASE ReleaseDesktop
  BY <1>5 DEF ReleaseDesktop, Operation, Idle, Step, Return
<1>6. CASE Acquire
  BY <1>6 DEF Acquire, AcquireDesktopLease, Operation, Idle, Step, Return
<1>7. CASE SendLease
  BY <1>7 DEF SendLease, Call, Operation, Idle, Step, Return
<1>8. CASE WorkerWritesLease
  BY <1>8 DEF WorkerWritesLease, Call, Operation, Idle, Step, Return
<1>9. CASE LeaseSet
  BY <1>9 DEF LeaseSet, Call, Answered, Operation, Idle, Step, Return
<1>10. CASE LeaseCallFails
  BY <1>10 DEF LeaseCallFails, Call, Operation, Idle, Step, Return
<1>11. CASE RetryExpiry
  BY <1>11 DEF RetryExpiry, RetryLease, AcquireDesktopLease, Operation, Idle, Step, Return
<1>12. CASE TakeDesktopContinuation
  <2>1. op.pc = "take" /\ UNCHANGED <<lease, file, calls, control>>
    BY <1>12, Zenon DEF TakeDesktopContinuation
  <2>2. Ends \/ Moves("continue", continuation)
    BY <1>12, MovedHandler, Zenon DEF TakeDesktopContinuation, Step, Return
  <2> QED
    BY <2>1, <2>2 DEF Moves, Ends
<1>13. CASE StartContinuation
  <2>1. op.pc = "continue" /\ UNCHANGED <<lease, file, calls, control>>
    BY <1>13, Zenon DEF StartContinuation
  <2>2. Ends \/ Moves("turn", Len(run) + 1)
    BY <1>13, MovedHandler, Zenon DEF StartContinuation, Step, Return
  <2> QED
    BY <2>1, <2>2 DEF Moves, Ends
<1>14. CASE StartTurn
  BY <1>14 DEF StartTurn, Operation, Idle, Step, Return
<1>15. CASE CreateRun
  <2>1. op.pc = "create" /\ UNCHANGED <<lease, file, calls, control>>
    BY <1>15, Zenon DEF CreateRun
  <2>2. Ends \/ Moves("turn", Len(run) + 1)
    BY <1>15, MovedHandler, Zenon DEF CreateRun, Step, Return
  <2> QED
    BY <2>1, <2>2 DEF Moves, Ends
<1>16. CASE \E source \in {"chat", "schedule"} : StartRun(source)
  BY <1>16 DEF StartRun, Operation, Idle, Step, Return
<1>17. CASE Tick
  BY <1>17 DEF Tick, Call, Operation, Idle, Step, Return
<1>18. CASE DesktopHeartbeat
  BY <1>18 DEF DesktopHeartbeat, MayRenew, Call, Operation, Idle, Step, Return
<1>19. CASE ExpireDesktopLease
  BY <1>19 DEF ExpireDesktopLease, Operation, Idle, Step, Return
<1>20. CASE ClientGone
  BY <1>20 DEF ClientGone, Call, Operation, Idle, Step, Return
<1>21. CASE Restart
  BY <1>21 DEF Restart, Operation, Idle, Step, Return
<1>22. CASE ResetAgentConversation \/ ExpiredHumanDesktopLeases \/ (\E r \in RunId : RunEnds(r))
         \/ UNCHANGED vars
  <2>1. UNCHANGED <<lease, file, calls, control, op>>
    BY <1>22, Zenon DEF ResetAgentConversation, ExpiredHumanDesktopLeases, RunEnds, vars
  <2> QED
    BY <2>1 DEF Call
<1> QED
  BY <1>1, <1>2, <1>3, <1>4, <1>5, <1>6, <1>7, <1>8, <1>9, <1>10, <1>11, <1>12, <1>13, <1>14, <1>15, <1>16, <1>17, <1>18, <1>19, <1>20, <1>21, <1>22, Zenon
    DEF Next, Handler, Request, Scheduler, Settled
-----------------------------------------------------------------------------
(* Runs and what continues them.                                           *)

\* MayContinue after the step, of a run named before it.
MayContinueNext(r) ==
  r # 0 => /\ run'[r].conversation = conv'
           /\ \A c \in RunId' : run'[c].continues # r

\* The two forms of MayContinue after a step agree.
LEMMA MayContinuePrimed ==
  /\ MayContinue(continuation)' <=> MayContinueNext(continuation')
  /\ MayContinue(op.run)' <=> MayContinueNext(op'.run)
BY DEF MayContinue, MayContinueNext

\* Whatever is continued is an earlier run.
LEMMA ContinuesExisting ==
  ASSUME RunsTyped, NEW c \in RunId, run[c].continues # 0
  PROVE  run[c].continues \in RunId
BY RunTable DEF RunsTyped

\* Rewriting runs within a conversation keeps all links.
LEMMA EditedRunLinks ==
  ASSUME RunsTyped, LinksInv, RunsEdited, UNCHANGED conv
  PROVE  /\ RunInv' /\ ContinuedOnce' /\ ContinuedInItsConversation'
         /\ \A r \in RunId \cup {0} : MayContinue(r) => MayContinueNext(r)
<1>1. RunInv'
  BY ContinuesExisting DEF LinksInv, RunInv, RunsEdited
<1>2. ContinuedOnce'
  BY DEF LinksInv, ContinuedOnce, RunsEdited
<1>3. ContinuedInItsConversation'
  BY ContinuesExisting DEF LinksInv, ContinuedInItsConversation, RunsEdited
<1>4. \A r \in RunId \cup {0} : MayContinue(r) => MayContinueNext(r)
  BY DEF MayContinue, MayContinueNext, RunsEdited
<1> QED
  BY <1>1, <1>2, <1>3, <1>4

\* A new run keeps them when it continues nothing, or what may be continued.
LEMMA AddedRunLinks ==
  ASSUME RunsTyped, LinksInv, NEW source, NEW r \in RunId \cup {0}, UNCHANGED conv,
         RunAdded(NewRun(source, r)), MayContinue(r),
         r # 0 => source = "chat" /\ ~run[r].active
  PROVE  /\ RunInv' /\ ContinuedOnce' /\ ContinuedInItsConversation'
         /\ \A s \in RunId \cup {0} : s # r /\ MayContinue(s) => MayContinueNext(s)
<1> DEFINE n == Len(run) + 1
<1>1. /\ RunId' = RunId \cup {n} /\ \A s \in RunId : run'[s] = run[s] /\ s # n
      /\ run'[n].continues = r /\ run'[n].source = source
      /\ source = "chat" => run'[n].conversation = conv
  BY DEF RunAdded, NewRun
<1>2. 0 \notin RunId
  BY RunTable
<1> HIDE DEF n
<1>3. RunInv'
  BY <1>1, <1>2, ContinuesExisting DEF LinksInv, RunInv
<1>4. ContinuedOnce'
  BY <1>1, <1>2 DEF LinksInv, ContinuedOnce, MayContinue
<1>5. ContinuedInItsConversation'
  BY <1>1, <1>2, ContinuesExisting DEF LinksInv, ContinuedInItsConversation, MayContinue
<1>6. \A s \in RunId \cup {0} : s # r /\ MayContinue(s) => MayContinueNext(s)
  BY <1>1, <1>2 DEF MayContinue, MayContinueNext
<1> QED
  BY <1>3, <1>4, <1>5, <1>6

\* The handler is not about to use a continuation it was not about to use before.
OpQuiet == op'.pc \in {"preserve", "continue"} => op'.pc = op.pc /\ op'.run = op.run

\* The steps that neither add a run nor concern conversations and continuations.
LEMMA QuietSteps ==
  ASSUME TypeOK, Next, ~StartContinuation, ~CreateRun, ~ResetAgentConversation,
         ~InspectActiveRun, ~SetDesktopContinuation, ~TakeDesktopContinuation
  PROVE  UNCHANGED <<continuation, conv>> /\ OpQuiet
<1>1. UNCHANGED <<continuation, conv>>
  BY Zenon DEF Next, Handler, Request, Scheduler, InterruptTurn, FinishRun, Acquire, SendLease,
    LeaseSet, LeaseCallFails, RetryExpiry, StartTurn, ExpiredHumanDesktopLeases,
    ExpireDesktopLease, Takeover, ReleaseDesktop, DesktopHeartbeat, StartRun, Tick,
    WorkerWritesLease, RunEnds, ClientGone, Restart, Settled, rows, world, vars
<1>2. CASE UNCHANGED op
  BY <1>1, <1>2, Zenon DEF OpQuiet
<1>3. CASE ClientGone
  <2>1. op' = [op EXCEPT !.gone = TRUE] /\ op \in Operation
    BY <1>3 DEF ClientGone, TypeOK
  <2>2. op'.pc = op.pc /\ op'.run = op.run
    BY <2>1 DEF Operation
  <2> QED
    BY <1>1, <2>2, Zenon DEF OpQuiet
<1>4. CASE op' = Idle \/ \E pc \in {"finish", "acquire", "send", "wait", "take", "retry"} :
                          op' = [op EXCEPT !.pc = pc]
  <2>1. Ends \/ \E pc \in {"finish", "acquire", "send", "wait", "take", "retry"} : Moves(pc, op.run)
    BY <1>4, MovedHandler, Zenon
  <2> QED
    BY <1>1, <2>1 DEF OpQuiet, Moves, Ends
<1>5. CASE \E k \in Kind, pc \in {"inspect", "acquire", "create"} :
             op' = [Idle EXCEPT !.kind = k, !.pc = pc]
  <2>1. PICK k \in Kind, pc \in {"inspect", "acquire", "create"} :
          op' = [Idle EXCEPT !.kind = k, !.pc = pc]
    BY <1>5
  <2>2. op'.pc = pc
    BY <2>1 DEF Idle
  <2> QED
    BY <1>1, <2>1, <2>2 DEF OpQuiet
<1>6. CASE InterruptTurn \/ FinishRun \/ Acquire \/ SendLease \/ LeaseSet \/ LeaseCallFails
             \/ RetryExpiry \/ StartTurn \/ Restart
  BY <1>4, <1>6, Zenon DEF InterruptTurn, FinishRun, Acquire, SendLease, LeaseSet, LeaseCallFails,
    RetryExpiry, StartTurn, Restart, Step, Return
<1>7. CASE Takeover \/ ReleaseDesktop \/ ExpireDesktopLease
             \/ \E source \in {"chat", "schedule"} : StartRun(source)
  BY <1>5, <1>7, Names DEF Takeover, ReleaseDesktop, ExpireDesktopLease, StartRun
<1>8. CASE ExpiredHumanDesktopLeases \/ DesktopHeartbeat \/ Tick \/ WorkerWritesLease
             \/ (\E r \in RunId : RunEnds(r)) \/ UNCHANGED vars
  <2>1. UNCHANGED op
    BY <1>8, Zenon DEF ExpiredHumanDesktopLeases, DesktopHeartbeat, Tick, WorkerWritesLease,
      RunEnds, vars
  <2> QED
    BY <1>2, <2>1
<1> QED
  BY <1>1, <1>3, <1>6, <1>7, <1>8, Zenon DEF Next, Handler, Request, Scheduler, Settled

\* Every step keeps the links between runs, conversations and the continuation.
LEMMA LinkSteps ==
  ASSUME TypeOK, HandlerInv, LinksInv, Next
  PROVE  LinksInv'
<1> USE RunTable DEF TypeOK
<1>1. UNCHANGED run => RunsEdited
  BY DEF RunsEdited, RunId
<1>2. SUFFICES ASSUME TRUE
               PROVE  /\ RunInv' /\ ContinuedOnce' /\ ContinuedInItsConversation'
                      /\ MayContinueNext(continuation')
                      /\ op'.pc = "preserve" /\ op'.run # 0 /\ run'[op'.run].source = "chat" =>
                           MayContinueNext(op'.run)
                      /\ op'.pc = "continue" =>
                           op'.run # 0 /\ MayContinueNext(op'.run) /\ continuation' = 0
  BY MayContinuePrimed, Zenon DEF LinksInv, ContinuationInv
<1>3. MayContinueNext(0)
  BY DEF MayContinueNext
<1>4. MayContinue(continuation)
  BY DEF LinksInv, ContinuationInv
<1>5. CASE (StartContinuation \/ CreateRun) /\ RunsEdited
  <2>1. UNCHANGED <<continuation, conv>>
    BY <1>5, Zenon DEF StartContinuation, CreateRun
  <2>2. Ends \/ Moves("turn", Len(run) + 1)
    BY <1>5, MovedHandler, Zenon DEF StartContinuation, CreateRun, Return
  <2> QED
    BY <1>4, <1>5, <2>1, <2>2, EditedRunLinks DEF Moves, Ends
<1>6. CASE StartContinuation /\ ActiveRun = 0 /\ ~op.gone /\ RunAdded(NewRun("chat", op.run))
  <2>1. UNCHANGED <<continuation, conv>> /\ op.pc = "continue"
    BY <1>6 DEF StartContinuation, world
  <2>2. op'.pc = "turn"
    BY <1>6, MovedHandler DEF StartContinuation, Moves
  <2>3. op.run \in RunId /\ ~run[op.run].active /\ MayContinue(op.run) /\ continuation = 0
    BY <1>6, <2>1, ActiveRunProperties DEF LinksInv, ContinuationInv
  <2> QED
    BY <1>3, <1>6, <2>1, <2>2, <2>3, AddedRunLinks
<1>7. CASE CreateRun /\ ~op.gone /\ RunAdded(NewRun(op.kind, 0))
  <2>1. UNCHANGED <<continuation, conv>>
    BY <1>7 DEF CreateRun
  <2>2. op'.pc = "turn"
    BY <1>7, MovedHandler DEF CreateRun, Moves
  <2>3. MayContinue(0)
    BY DEF MayContinue
  <2> QED
    BY <1>3, <1>4, <1>7, <2>1, <2>2, <2>3, AddedRunLinks
<1>9. CASE ResetAgentConversation
  <2>1. /\ UNCHANGED <<run, op>> /\ continuation' = 0 /\ op = Idle
        /\ \A r \in RunId : ~run[r].active
    BY <1>9, ActiveRunProperties DEF ResetAgentConversation, ContinuationAfterReset
  <2>2. op'.pc = "idle"
    BY <2>1 DEF Idle
  <2>3. RunInv' /\ ContinuedOnce' /\ ContinuedInItsConversation'
    BY <2>1, ContinuesExisting DEF LinksInv, RunInv, ContinuedOnce, ContinuedInItsConversation, RunId
  <2> QED
    BY <1>3, <2>1, <2>2, <2>3
<1>10. CASE InspectActiveRun
  <2>1. UNCHANGED <<run, continuation, conv>>
    BY <1>10 DEF InspectActiveRun, rows
  <2>2. Ends \/ Moves("preserve", ActiveRun)
    BY <1>10, MovedHandler, Zenon DEF InspectActiveRun, Return
  <2>3. ActiveRun # 0 /\ run[ActiveRun].source = "chat" => MayContinue(ActiveRun)
    BY ActiveRunProperties DEF LinksInv, RunInv, MayContinue
  <2>4. ActiveRun \in RunId \cup {0}
    BY ActiveRunProperties
  <2> QED
    BY <1>1, <1>4, <2>1, <2>2, <2>3, <2>4, EditedRunLinks DEF Moves, Ends
<1>11. CASE SetDesktopContinuation
  <2>1. UNCHANGED <<run, conv>> /\ op.pc = "preserve"
    BY <1>11 DEF SetDesktopContinuation, world
  <2>2. op'.pc # "preserve" /\ op'.pc # "continue"
    BY <1>11, MovedHandler DEF SetDesktopContinuation, Step, Return, Moves, Ends
  <2>3. continuation' = continuation \/ continuation' = Preserved(op.run)
    BY <1>11 DEF SetDesktopContinuation
  <2>4. MayContinue(Preserved(op.run)) /\ Preserved(op.run) \in RunId \cup {0}
    BY <2>1 DEF Preserved, LinksInv, ContinuationInv, MayContinue
  <2> QED
    BY <1>1, <1>4, <2>1, <2>2, <2>3, <2>4, EditedRunLinks
<1>12. CASE TakeDesktopContinuation
  <2>1. UNCHANGED <<run, conv>>
    BY <1>12 DEF TakeDesktopContinuation
  <2>2. \/ Ends /\ continuation' \in {0, continuation}
        \/ Moves("continue", continuation) /\ continuation # 0 /\ continuation' = 0
    BY <1>12, MovedHandler DEF TakeDesktopContinuation, TakenContinuation, Return
  <2> QED
    BY <1>1, <1>3, <1>4, <2>1, <2>2, EditedRunLinks DEF Moves, Ends
<1>13. CASE ~(StartContinuation \/ CreateRun \/ ResetAgentConversation \/ InspectActiveRun
               \/ SetDesktopContinuation \/ TakeDesktopContinuation)
  <2>1. RunsEdited
    BY <1>1, <1>13, RunTypes DEF AddsRun
  <2>2. UNCHANGED <<continuation, conv>> /\ OpQuiet
    BY <1>13, QuietSteps
  <2>3. op.run \in RunId => run'[op.run].source = run[op.run].source
    BY <2>1 DEF RunsEdited
  <2> QED
    BY <1>4, <2>1, <2>2, <2>3, EditedRunLinks DEF OpQuiet, LinksInv, ContinuationInv
<1>14. RunsEdited \/ AddsRun
  BY <1>1, RunTypes
<1> QED
  BY <1>5, <1>6, <1>7, <1>9, <1>10, <1>11, <1>12, <1>13, <1>14, Zenon DEF AddsRun
-----------------------------------------------------------------------------
(* The theorems.                                                           *)

\* The invariant holds initially.
LEMMA InitInv == Init => Inv
<1> SUFFICES ASSUME Init PROVE Inv
  OBVIOUS
<1>1. op.pc = "idle" /\ RunId = {}
  BY EmptySeq DEF Init, Idle, RunId
<1>2. HandlerInv /\ LeaseInv /\ ControlInv
  BY <1>1 DEF Init, HandlerInv, LeaseInv, ControlInv
<1>3. LinksInv
  BY <1>1 DEF Init, LinksInv, RunInv, ContinuationInv, MayContinue, ContinuedOnce,
    ContinuedInItsConversation
<1> QED
  BY <1>2, <1>3, InitTypes DEF Inv

\* Every step keeps the invariant.
LEMMA NextInv == Inv /\ [Next]_vars => Inv'
<1>1. ASSUME Inv, UNCHANGED vars PROVE Inv'
  <2> USE <1>1 DEF Inv, vars
  <2>1. TypeOK'
    BY DEF TypeOK, LeaseTyped, RunsTyped, RunId
  <2>2. HandlerInv' /\ LeaseInv' /\ ControlInv'
    BY DEF HandlerInv, LeaseInv, ControlInv, HumanControlsDesktop, Call
  <2>3. LinksInv'
    BY DEF LinksInv, RunInv, ContinuationInv, MayContinue, ContinuedOnce,
      ContinuedInItsConversation, RunId
  <2> QED
    BY <2>1, <2>2, <2>3
<1>2. ASSUME Inv, Next PROVE Inv'
  BY <1>2, TypeSteps, LeaseSteps, LinkSteps DEF Inv
<1> QED
  BY <1>1, <1>2

\* The invariant behind all of the following holds in every reachable state.
THEOREM Invariance == Spec => []Inv
BY InitInv, NextInv, PTL DEF Spec

\* Rows, file, calls and handler have the values of their columns and fields, and
\* neither the lease file nor a call runs ahead of the row (AcquireDesktopLease).
THEOREM TypeCorrect == Spec => []TypeOK
<1>1. Inv => TypeOK
  BY DEF Inv
<1> QED
  BY <1>1, Invariance, PTL

\* A human who was told to be in control is alone with the desktop (takeover,
\* releaseDesktop, expireDesktopLease and the worker's lease file).
THEOREM ControlIsExclusive == Spec => []AcknowledgedControlIsExclusive
<1>1. Inv => AcknowledgedControlIsExclusive
  BY DEF Inv, ControlInv, AcknowledgedControlIsExclusive, AgentMayAct
<1> QED
  BY <1>1, Invariance, PTL

\* What a takeover has interrupted is continued at most once (TakeDesktopContinuation,
\* startContinuation).
THEOREM InterruptedWorkContinuesOnce == Spec => []ContinuedOnce
<1>1. Inv => ContinuedOnce
  BY DEF Inv, LinksInv
<1> QED
  BY <1>1, Invariance, PTL

\* It is continued in its own conversation (SetDesktopContinuation, ResetAgentConversation).
THEOREM WorkStaysInItsConversation == Spec => []ContinuedInItsConversation
<1>1. Inv => ContinuedInItsConversation
  BY DEF Inv, LinksInv
<1> QED
  BY <1>1, Invariance, PTL

\* No run is created while a human lease is live, although message, dispatch,
\* runDueSchedule and startContinuation looked at it in an earlier transaction.
THEOREM HumansAreNotDisturbed == Spec => NoRunStartsUnderHuman
<1>1. Inv /\ [Next]_vars => [RunId' # RunId => ~HumanControlsDesktop]_vars
  <2> SUFFICES ASSUME Inv, Next, RunId' # RunId PROVE ~HumanControlsDesktop
    BY Zenon
  <2>1. AddsRun
    BY RunTypes DEF Inv, RunsEdited, RunId
  <2>2. op.pc \in {"create", "continue"}
    BY <2>1, Zenon DEF AddsRun, StartContinuation, CreateRun
  <2> QED
    BY <2>2 DEF Inv, LeaseInv, HumanControlsDesktop
<1> QED
  BY <1>1, Invariance, PTL DEF Spec, NoRunStartsUnderHuman
=============================================================================
