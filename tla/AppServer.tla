------------------------------ MODULE AppServer ------------------------------
(***************************************************************************)
(* The client of Codex App Server, a child process that talks JSON lines   *)
(* over its stdin and stdout.                                              *)
(*                                                                         *)
(* Any number of goroutines call; one reader handles every line of stdout; *)
(* two relays buffer notifications and approval requests without a limit,  *)
(* so that a slow consumer does not hold up the answers behind them.  One  *)
(* more goroutine waits for the reader to stop and the process to end, and *)
(* only then closes done, which releases everybody else.                   *)
(*                                                                         *)
(* The process itself is not part of the repository: it reads its stdin,   *)
(* answers what it read in any order, notifies, asks for approvals (with   *)
(* an id that may still be in use), and may exit at any time.              *)
(***************************************************************************)
EXTENDS Integers, Sequences, FiniteSets

CONSTANTS
  Pipe,      \* lines that fit into the pipe of stdin and into that of stdout
  Scenario   \* bounds, of which a behaviour picks one record

\* expiry: the context of a call ends; exit: the process dies; invalid: a line that is
\* not a message; long: a line of more than MaxMessageBytes; shutdown: Client.Shutdown.
Faults == {"expiry", "exit", "invalid", "long", "shutdown"}

\* How many calls, notifications, approval requests and faults there are, and which
\* faults.
ASSUME AppServerAssumption ==
  /\ Pipe \in Nat \ {0}
  /\ \A b \in Scenario : b.fault \subseteq Faults /\ {b.call, b.note, b.ask, b.faults} \subseteq Nat

\* The most of a kind in any scenario.
Most(n(_)) == CHOOSE m \in {n(b) : b \in Scenario} : \A b \in Scenario : n(b) <= m
MaxCall == Most(LAMBDA b : b.call)
MaxNote == Most(LAMBDA b : b.note)
MaxAsk == Most(LAMBDA b : b.ask)

VARIABLES
  call,        \* the calls made so far; the position is the id
  pending,     \* ids in the table of calls that wait for a response
  slot,        \* ids whose response lies in the caller's channel, which holds one
  requests,    \* ids of the approval requests that are outstanding
  handling,    \* per id: goroutines of the agent-worker that decide on a request
  answering,   \* per id: answers taken off requests and not yet written
  stdin, stdout,   \* the pipes, oldest line first
  reader,      \* readLoop: what it does and the id it does it for
  events, asks,    \* the relays of notifications and approval requests
  consumed,    \* the notifications that reached the agent-worker
  process,     \* whether the process runs, and the calls it has read but not answered
  closed,      \* which pipes the client has closed
  done,        \* the channel that says the client has ended
  noted, asked, replied, faults, \* how often: notifications; requests and replies per id
  bound        \* the bounds, which never change

stream == <<stdout, reader, events, consumed, noted>>
approvals == <<requests, handling, answering, asks, asked, replied>>
calls == <<call, pending, slot>>
life == <<process, closed, done, faults, bound>>
vars == <<calls, approvals, stdin, stream, life>>

CallId == DOMAIN call
AskId == 1..2

Call == [pc: {"registered", "waiting", "returned"},
         result: {"none", "response", "expired", "closed", "failed"}]
Line == [kind: {"note", "response", "ask", "unknown", "invalid", "long"}, id: Nat]
Request == [kind: {"call", "reply"}, id: Nat]
Reader == [pc: {"reading", "note", "response", "ask", "refusing", "stopped"}, id: Nat]
Relay == [queue: Seq(Nat), input: BOOLEAN, open: BOOLEAN]

\* Every id in a table, a channel or a pipe is that of a call that was made.
TypeOK ==
  /\ call \in Seq(Call)
  /\ pending \subseteq CallId /\ slot \subseteq CallId
  /\ requests \subseteq AskId
  /\ handling \in [AskId -> Nat] /\ answering \in [AskId -> Nat]
  /\ stdin \in Seq(Request) /\ Len(stdin) <= Pipe
  /\ stdout \in Seq(Line) /\ Len(stdout) <= Pipe
  /\ reader \in Reader
  /\ events \in Relay /\ asks \in Relay
  /\ consumed \in Seq(Nat)
  /\ process \in [running: BOOLEAN, seen: SUBSET CallId]
  /\ closed \subseteq {"stdin", "stdout"} /\ done \in BOOLEAN
  /\ noted \in Nat /\ asked \in [AskId -> Nat] /\ replied \in [AskId -> Nat]
  /\ faults \in Nat /\ bound \in Scenario

Listening == [queue |-> <<>>, input |-> TRUE, open |-> TRUE]
Reading == [pc |-> "reading", id |-> 0]
None == [i \in AskId |-> 0]

Init ==
  /\ call = <<>> /\ pending = {} /\ slot = {}
  /\ requests = {} /\ handling = None /\ answering = None /\ asked = None /\ replied = None
  /\ stdin = <<>> /\ stdout = <<>>
  /\ reader = Reading /\ events = Listening /\ asks = Listening
  /\ consumed = <<>> /\ noted = 0
  /\ process = [running |-> TRUE, seen |-> {}]
  /\ closed = {} /\ done = FALSE /\ faults = 0
  /\ bound \in Scenario

Fails(fault) == fault \in bound.fault /\ faults < bound.faults /\ faults' = faults + 1

-----------------------------------------------------------------------------
\* Writing to the process.

\* writeJSON finds done closed, or its write fails.
Broken == done \/ "stdin" \in closed \/ ~process.running

\* Otherwise a write waits until the line fits, with writeMu held.
Fits == ~Broken /\ Len(stdin) < Pipe

Terminate ==
  /\ process' = [process EXCEPT !.running = FALSE]
  /\ closed' = closed \cup {"stdout"}

-----------------------------------------------------------------------------
\* A call: registered under a fresh id, written, then waiting.  A call that finds done
\* closed at its start leaves no trace.

NextId == Len(call) + 1

Begin ==
  /\ ~done /\ Len(call) < bound.call
  /\ call' = Append(call, [pc |-> "registered", result |-> "none"])
  /\ pending' = pending \cup {NextId}
  /\ UNCHANGED <<slot, approvals, stdin, stream, life>>

WriteCall(c) ==
  /\ call[c].pc = "registered" /\ Fits
  /\ stdin' = Append(stdin, [kind |-> "call", id |-> c])
  /\ call' = [call EXCEPT ![c].pc = "waiting"]
  /\ UNCHANGED <<pending, slot, approvals, stream, life>>

Return(c, result) ==
  call' = [call EXCEPT ![c] = [pc |-> "returned", result |-> result]]

RemovePending(c) == pending \ {c}

WriteCallFails(c) ==
  /\ call[c].pc = "registered" /\ Broken
  /\ Return(c, "failed") /\ pending' = RemovePending(c)
  /\ Terminate
  /\ UNCHANGED <<slot, approvals, stdin, stream, done, faults, bound>>

\* When several channels of the select are ready, any of them is taken.
ReceiveResponse(c) ==
  /\ call[c].pc = "waiting" /\ c \in slot
  /\ Return(c, "response") /\ slot' = slot \ {c}
  /\ UNCHANGED <<pending, approvals, stdin, stream, life>>

ReceiveDone(c) ==
  /\ call[c].pc = "waiting" /\ done
  /\ Return(c, "closed") /\ pending' = RemovePending(c)
  /\ UNCHANGED <<slot, approvals, stdin, stream, life>>

Expire(c) ==
  /\ call[c].pc = "waiting"
  /\ Fails("expiry")
  /\ Return(c, "expired") /\ pending' = RemovePending(c)
  /\ UNCHANGED <<slot, approvals, stdin, stream, process, closed, done, bound>>

-----------------------------------------------------------------------------
\* The process.

Sends(line) ==
  /\ process.running /\ Len(stdout) < Pipe
  /\ stdout' = Append(stdout, line)

ProcessReads ==
  /\ process.running /\ stdin # <<>>
  /\ stdin' = Tail(stdin)
  /\ process' = IF Head(stdin).kind = "call"
                THEN [process EXCEPT !.seen = @ \cup {Head(stdin).id}] ELSE process
  /\ UNCHANGED <<calls, approvals, stream, closed, done, faults, bound>>

ProcessAnswers(c) ==
  /\ c \in process.seen
  /\ Sends([kind |-> "response", id |-> c])
  /\ process' = [process EXCEPT !.seen = @ \ {c}]
  /\ UNCHANGED <<calls, approvals, stdin, reader, events, consumed, noted, closed, done, faults, bound>>

ProcessNotifies ==
  /\ noted < bound.note /\ noted' = noted + 1
  /\ Sends([kind |-> "note", id |-> noted + 1])
  /\ UNCHANGED <<calls, approvals, stdin, reader, events, consumed, life>>

TotalAsked == asked[1] + asked[2]

ProcessAsks(i, kind) ==
  /\ TotalAsked < bound.ask
  /\ asked' = [asked EXCEPT ![i] = @ + 1]
  /\ Sends([kind |-> kind, id |-> i])
  /\ UNCHANGED <<calls, requests, handling, answering, asks, replied, stdin, reader, events,
                 consumed, noted, life>>

ProcessSendsNonsense(kind) ==
  /\ Fails(kind)
  /\ Sends([kind |-> kind, id |-> 0])
  /\ UNCHANGED <<calls, approvals, stdin, reader, events, consumed, noted, process, closed, done, bound>>

ProcessDies ==
  /\ Fails("exit")
  /\ process.running /\ process' = [process EXCEPT !.running = FALSE]
  /\ UNCHANGED <<calls, approvals, stdin, stream, closed, done, bound>>

\* It exits at the end of its stdin.
ProcessEnds ==
  /\ process.running /\ "stdin" \in closed /\ stdin = <<>>
  /\ process' = [process EXCEPT !.running = FALSE]
  /\ UNCHANGED <<calls, approvals, stdin, stream, closed, done, faults, bound>>

-----------------------------------------------------------------------------
\* The reader.  Every message is handled before the next line is read.

\* It ends: the relays get no more, and readDone is closed.
StopsReading ==
  /\ reader' = [pc |-> "stopped", id |-> 0]
  /\ events' = [events EXCEPT !.input = FALSE]
  /\ asks' = [asks EXCEPT !.input = FALSE]

\* The table is not looked at.
AdmitUnchecked(i) ==
  reader' = [pc |-> "ask", id |-> i] /\ requests' = requests \cup {i}

\* requests gains an id that is not in it yet, or the reader has to refuse the request.
Admit(i) ==
  IF i \notin requests
  THEN reader' = [pc |-> "ask", id |-> i] /\ requests' = requests \cup {i}
  ELSE reader' = [pc |-> "refusing", id |-> i] /\ requests' = requests

ReadNote(line) ==
  /\ line.kind = "note" /\ reader' = [pc |-> "note", id |-> line.id]
  /\ UNCHANGED <<pending, requests, events, asks, process, closed>>

\* The call is taken off the table; nobody waits for a call that is not in it.
ReadResponse(line) ==
  /\ line.kind = "response"
  /\ reader' = IF line.id \in pending THEN [pc |-> "response", id |-> line.id] ELSE Reading
  /\ pending' = RemovePending(line.id)
  /\ UNCHANGED <<requests, events, asks, process, closed>>

ReadAsk(line) ==
  /\ line.kind = "ask" /\ Admit(line.id)
  /\ UNCHANGED <<pending, events, asks, process, closed>>

ReadUnknownAsk(line) ==
  /\ line.kind = "unknown" /\ reader' = [pc |-> "refusing", id |-> line.id]
  /\ UNCHANGED <<pending, requests, events, asks, process, closed>>

\* The invalid line ends the reader and nothing else.
ReadQuietly(line) ==
  /\ line.kind = "invalid" /\ StopsReading
  /\ UNCHANGED <<pending, requests, process, closed>>

ReadInvalid(line) ==
  /\ line.kind = "invalid" /\ StopsReading /\ Terminate
  /\ UNCHANGED <<pending, requests>>

\* The scanner gives up: the reader ends, and nobody tells the process.
ReadLong(line) ==
  /\ line.kind = "long" /\ StopsReading
  /\ UNCHANGED <<pending, requests, process, closed>>

\* A closed stdout may still have lines in the scanner's buffer.
Read ==
  /\ reader.pc = "reading" /\ stdout # <<>>
  /\ stdout' = Tail(stdout)
  /\ LET line == Head(stdout)
     IN \/ ReadNote(line) \/ ReadResponse(line) \/ ReadAsk(line) \/ ReadUnknownAsk(line)
        \/ ReadInvalid(line) \/ ReadLong(line)
  /\ UNCHANGED <<call, slot, handling, answering, asked, replied, stdin, consumed, noted, done, faults, bound>>

ReadEnd ==
  /\ reader.pc = "reading"
  /\ "stdout" \in closed \/ (~process.running /\ stdout = <<>>)
  /\ StopsReading
  /\ UNCHANGED <<calls, requests, handling, answering, asked, replied, stdin, stdout, consumed,
                 noted, life>>

\* The channel holds none: the caller must be there to take it.
CanHandOver(c) == call[c].pc = "waiting"

\* The channel of a call holds one response, so this does not wait for the caller.
CanRespond(c) == c \notin slot

Respond ==
  /\ reader.pc = "response" /\ CanRespond(reader.id)
  /\ slot' = slot \cup {reader.id} /\ reader' = Reading
  /\ UNCHANGED <<call, pending, approvals, stdin, stdout, events, consumed, noted, life>>

Refuse ==
  /\ reader.pc = "refusing" /\ Fits
  /\ stdin' = Append(stdin, [kind |-> "reply", id |-> reader.id])
  /\ replied' = [replied EXCEPT ![reader.id] = @ + 1] /\ reader' = Reading
  /\ UNCHANGED <<calls, requests, handling, answering, asks, asked, stdout, events, consumed,
                 noted, life>>

RefuseFails ==
  /\ reader.pc = "refusing" /\ Broken
  /\ StopsReading /\ Terminate
  /\ UNCHANGED <<calls, requests, handling, answering, asked, replied, stdin, stdout, consumed,
                 noted, done, faults, bound>>

-----------------------------------------------------------------------------
\* The relays.  Until done, they take what the reader hands over and keep it until the
\* agent-worker takes it.  At done they drop what they hold.

Taken(relay) == [relay EXCEPT !.queue = Append(@, reader.id)]
Newest(relay) == relay.queue[Len(relay.queue)]
Oldest(relay) == Head(relay.queue)
Delivered(relay) == [relay EXCEPT !.queue = Tail(@)]
Ends(relay) == relay.open /\ (done \/ (~relay.input /\ relay.queue = <<>>))
Ended(relay) == [relay EXCEPT !.queue = <<>>, !.open = FALSE]

RelayTakesNote ==
  /\ reader.pc = "note" /\ events.open
  /\ events' = Taken(events) /\ reader' = Reading
  /\ UNCHANGED <<calls, approvals, stdin, stdout, consumed, noted, life>>

RelayDeliversNote ==
  /\ events.open /\ events.queue # <<>>
  /\ consumed' = Append(consumed, Oldest(events)) /\ events' = Delivered(events)
  /\ UNCHANGED <<calls, approvals, stdin, stdout, reader, noted, life>>

EventRelayEnds ==
  /\ Ends(events) /\ events' = Ended(events)
  /\ UNCHANGED <<calls, approvals, stdin, stdout, reader, consumed, noted, life>>

RelayTakesAsk ==
  /\ reader.pc = "ask" /\ asks.open
  /\ asks' = Taken(asks) /\ reader' = Reading
  /\ UNCHANGED <<calls, requests, handling, answering, asked, replied, stdin, stdout, events,
                 consumed, noted, life>>

RelayDeliversAsk ==
  /\ asks.open /\ asks.queue # <<>>
  /\ handling' = [handling EXCEPT ![Oldest(asks)] = @ + 1] /\ asks' = Delivered(asks)
  /\ UNCHANGED <<calls, requests, answering, asked, replied, stdin, stream, life>>

AskRelayEnds ==
  /\ Ends(asks) /\ asks' = Ended(asks)
  /\ UNCHANGED <<calls, requests, handling, answering, asked, replied, stdin, stream, life>>

-----------------------------------------------------------------------------
\* Answers to approval requests.  For every request that reaches the agent-worker one
\* goroutine decides and responds, if it finds the id outstanding.

\* The id stays outstanding.
Kept(i) == requests

Withdrawn(i) == requests \ {i}

RespondApproval(i) ==
  /\ handling[i] > 0 /\ handling' = [handling EXCEPT ![i] = @ - 1]
  /\ requests' = Withdrawn(i)
  /\ answering' = IF i \in requests THEN [answering EXCEPT ![i] = @ + 1] ELSE answering
  /\ UNCHANGED <<calls, asks, asked, replied, stdin, stream, life>>

WriteApproval(i) ==
  /\ answering[i] > 0 /\ Fits
  /\ answering' = [answering EXCEPT ![i] = @ - 1]
  /\ stdin' = Append(stdin, [kind |-> "reply", id |-> i])
  /\ replied' = [replied EXCEPT ![i] = @ + 1]
  /\ UNCHANGED <<calls, requests, handling, asks, asked, stream, life>>

WriteApprovalFails(i) ==
  /\ answering[i] > 0 /\ Broken
  /\ answering' = [answering EXCEPT ![i] = @ - 1]
  /\ Terminate
  /\ UNCHANGED <<calls, requests, handling, asks, asked, replied, stdin, stream, done, faults, bound>>

-----------------------------------------------------------------------------
\* The end.

\* The reader is not waited for.
AnyReader == TRUE

ReaderDone == reader.pc = "stopped"

WaitForProcess ==
  /\ ReaderDone /\ ~process.running /\ ~done
  /\ done' = TRUE
  /\ UNCHANGED <<calls, approvals, stdin, stream, process, closed, faults, bound>>

Shutdown ==
  /\ Fails("shutdown")
  /\ "stdin" \notin closed /\ closed' = closed \cup {"stdin"}
  /\ UNCHANGED <<calls, approvals, stdin, stream, process, done, bound>>

\* The context of Shutdown ends first.
ShutdownExpires ==
  /\ "stdin" \in closed /\ ~done /\ Terminate
  /\ UNCHANGED <<calls, approvals, stdin, stream, done, faults, bound>>

-----------------------------------------------------------------------------
CallStep(c) ==
  \/ WriteCall(c) \/ WriteCallFails(c) \/ ReceiveResponse(c) \/ ReceiveDone(c)

ReaderStep == Read \/ ReadEnd \/ Respond \/ Refuse \/ RefuseFails

EventRelayStep == RelayTakesNote \/ RelayDeliversNote \/ EventRelayEnds
AskRelayStep == RelayTakesAsk \/ RelayDeliversAsk \/ AskRelayEnds
ApprovalStep(i) == RespondApproval(i) \/ WriteApproval(i) \/ WriteApprovalFails(i)

ProcessStep ==
  \/ ProcessReads \/ ProcessNotifies \/ ProcessDies \/ ProcessEnds
  \/ \E c \in CallId : ProcessAnswers(c)
  \/ \E i \in AskId, kind \in {"ask", "unknown"} : ProcessAsks(i, kind)
  \/ \E kind \in {"invalid", "long"} : ProcessSendsNonsense(kind)

ClientStep ==
  \/ Begin \/ ReaderStep \/ EventRelayStep \/ AskRelayStep
  \/ WaitForProcess \/ Shutdown \/ ShutdownExpires
  \/ \E c \in CallId : CallStep(c) \/ Expire(c)
  \/ \E i \in AskId : ApprovalStep(i)

Next == ProcessStep \/ ClientStep

Spec == Init /\ [][Next]_vars

\* Goroutines get their turn; the agent-worker takes what the relays hold and decides.  Of the
\* process: it reads its stdin, answers every call it has read unless it exits, and
\* exits at the end of its stdin.
Fairness ==
  /\ WF_vars(ReaderStep) /\ WF_vars(EventRelayStep) /\ WF_vars(RelayDeliversNote)
  /\ WF_vars(AskRelayStep) /\ WF_vars(WaitForProcess)
  /\ \A c \in 1..MaxCall : WF_vars(c \in CallId /\ CallStep(c))
  /\ \A i \in AskId : WF_vars(ApprovalStep(i))
  /\ WF_vars(ProcessReads) /\ WF_vars(ProcessEnds)
  /\ \A c \in 1..MaxCall : WF_vars(ProcessAnswers(c))

FairSpec == Spec /\ Fairness

-----------------------------------------------------------------------------
\* While the reader has something for a relay, that relay is there to take it: the
\* relays end at done, and done waits for the reader.
ReaderIsHeard ==
  /\ reader.pc = "note" => events.open
  /\ reader.pc = "ask" => asks.open

Lines(kinds, i) == Cardinality({n \in DOMAIN stdout : stdout[n].kind \in kinds /\ stdout[n].id = i})
One(condition) == IF condition THEN 1 ELSE 0

\* What is known of the requests with an id: on their way, being refused, outstanding,
\* being answered, or replied to.
Known(i) ==
  Lines({"ask", "unknown"}, i) + One(reader.pc = "refusing" /\ reader.id = i)
    + One(i \in requests) + answering[i] + replied[i]

\* Each request of the process gets at most one reply, whatever ids it uses again; as
\* long as it can be written to, no request is lost.
EveryRequestIsAccountedFor ==
  \A i \in AskId :
    /\ Known(i) <= asked[i]
    /\ ~Broken => Known(i) = asked[i]

Notes == INSTANCE Stream WITH sent <- [n \in 1..noted |-> n], received <- consumed

\* Notifications reach the agent-worker once each, in order and without a gap.
NotesAreAStream == Notes!Spec

\* Every call returns, whether it is answered, its write fails or the process ends.
EveryCallReturns ==
  \A c \in 1..MaxCall : (c \in CallId) ~> (c \in CallId /\ call[c].pc = "returned")

\* A notification reaches the agent-worker unless the client ends: callers who have left
\* and approvals that are being decided do not hold it up.
NotesArrive == \A n \in 1..MaxNote : (noted = n) ~> (Len(consumed) >= n \/ done)

\* Reader, relays, callers and deciders do not wait for each other for good.
NobodyWaitsForever == EveryCallReturns /\ NotesArrive

\* The process waits for a reply to each of its requests, and gets one while it lives.
EveryRequestIsAnswered ==
  \A i \in AskId, n \in 1..MaxAsk : (asked[i] = n) ~> (replied[i] >= n \/ Broken)

\* A line the client cannot read stops it.  No run checks this: a line of more than
\* MaxMessageBytes ends the reader, but while the process lives nothing else.
UnreadableLineStopsClient == (reader.pc = "stopped") ~> done
=============================================================================
