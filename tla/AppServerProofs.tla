--------------------------- MODULE AppServerProofs ---------------------------
(***************************************************************************)
(* What the client of App Server guarantees for every size of the pipes    *)
(* and every scenario: its tables refer to calls that were made, the       *)
(* reader always finds the relay it hands something to, notifications are  *)
(* passed on as a stream, and every approval request is accounted for.     *)
(***************************************************************************)
EXTENDS AppServer, FunctionTheorems, FiniteSetTheorems, SequenceTheorems, TLAPS

\* Ids on their way are those of calls that were made and of requests that were asked.
IdsAreKnown ==
  /\ \A n \in 1..Len(stdin) : stdin[n].kind = "call" => stdin[n].id \in CallId
  /\ \A n \in 1..Len(stdout) : stdout[n].kind \in {"ask", "unknown"} => stdout[n].id \in AskId
  /\ reader.pc = "response" => reader.id \in CallId
  /\ reader.pc \in {"ask", "refusing"} => reader.id \in AskId
  /\ \A n \in 1..Len(asks.queue) : asks.queue[n] \in AskId

Typed == TypeOK /\ IdsAreKnown

\* While the reader reads, the relays do and the client has not ended.
ReaderLives ==
  reader.pc # "stopped" => /\ ~done
                           /\ events.input /\ events.open /\ asks.input /\ asks.open

\* What has been taken off stdout: passed on, buffered or in the reader's hand.
Passed == Len(consumed) + Len(events.queue)
Got == IF reader.pc = "note" THEN Passed + 1 ELSE Passed

\* What has been taken is the beginning of what was sent.
TakenInOrder ==
  /\ \A n \in 1..Len(consumed) : consumed[n] = n
  /\ \A n \in 1..Len(events.queue) : events.queue[n] = Len(consumed) + n
  /\ reader.pc = "note" => reader.id = Got
  /\ Got <= noted

IsNote(n) == stdout[n].kind = "note"

\* The rest is on its way, in order and without a gap, while somebody reads.
RestUnderWay ==
  reader.pc # "stopped" =>
    /\ \A n \in 1..Len(stdout) : IsNote(n) => stdout[n].id \in (Got + 1)..noted
    /\ \A n, m \in 1..Len(stdout) : IsNote(n) /\ IsNote(m) /\ n < m => stdout[n].id < stdout[m].id
    /\ \A i \in (Got + 1)..noted : \E n \in 1..Len(stdout) : IsNote(n) /\ stdout[n].id = i

Inv == Typed /\ ReaderLives /\ TakenInOrder /\ RestUnderWay /\ EveryRequestIsAccountedFor

-----------------------------------------------------------------------------
(* Queues.                                                                 *)

\* What taking the first element of a queue does.
LEMMA Shifted ==
  ASSUME NEW S, NEW s \in Seq(S), s # <<>>
  PROVE  /\ Len(s) \in Nat \ {0} /\ DOMAIN s = 1..Len(s)
         /\ Head(s) = s[1] /\ Head(s) \in S
         /\ Tail(s) \in Seq(S) /\ Len(Tail(s)) = Len(s) - 1
         /\ \A i \in 1..(Len(s) - 1) : Tail(s)[i] = s[i + 1]
BY HeadTailProperties, LenProperties, EmptySeq

\* What adding an element to a queue does.
LEMMA Pushed ==
  ASSUME NEW S, NEW s \in Seq(S), NEW e \in S
  PROVE  /\ Len(s) \in Nat /\ DOMAIN s = 1..Len(s)
         /\ Append(s, e) \in Seq(S) /\ Len(Append(s, e)) = Len(s) + 1
         /\ DOMAIN Append(s, e) = 1..(Len(s) + 1)
         /\ \A i \in 1..Len(s) : Append(s, e)[i] = s[i]
         /\ Append(s, e)[Len(s) + 1] = e
BY AppendProperties, LenProperties

-----------------------------------------------------------------------------
(* Types.                                                                  *)

\* A call may change, the calls do not.
LEMMA CallKept ==
  ASSUME TypeOK, NEW c \in CallId, NEW v \in Call, call' = [call EXCEPT ![c] = v]
  PROVE  call' \in Seq(Call) /\ CallId' = CallId
<1>1. call \in Seq(Call) /\ c \in 1..Len(call)
  BY LenProperties DEF TypeOK, CallId
<1>2. /\ call' \in Seq(Call) /\ Len(call') = Len(call)
  BY <1>1, ExceptSeq
<1> QED
  BY <1>1, <1>2, LenProperties DEF CallId

\* Nothing of the calls changes.
LEMMA CallsUnchanged == UNCHANGED call => CallId' = CallId
BY DEF CallId

\* A line for the process.
LEMMA Written ==
  ASSUME TypeOK, Fits, NEW r \in Request, stdin' = Append(stdin, r)
  PROVE  /\ stdin' \in Seq(Request) /\ Len(stdin') <= Pipe
         /\ Len(stdin') = Len(stdin) + 1 /\ Len(stdin) \in Nat
         /\ \A n \in 1..Len(stdin) : stdin'[n] = stdin[n]
         /\ stdin'[Len(stdin) + 1] = r
<1>1. stdin \in Seq(Request) /\ Len(stdin) < Pipe /\ Pipe \in Nat
  BY AppServerAssumption DEF TypeOK, Fits
<1> QED
  BY <1>1, Pushed

\* A line of the process.
LEMMA Sent ==
  ASSUME TypeOK, NEW line \in Line, Sends(line)
  PROVE  /\ stdout' \in Seq(Line) /\ Len(stdout') <= Pipe
         /\ Len(stdout') = Len(stdout) + 1 /\ Len(stdout) \in Nat
         /\ \A n \in 1..Len(stdout) : stdout'[n] = stdout[n]
         /\ stdout'[Len(stdout) + 1] = line
<1>1. stdout \in Seq(Line) /\ Len(stdout) < Pipe /\ Pipe \in Nat /\ stdout' = Append(stdout, line)
  BY AppServerAssumption DEF TypeOK, Sends
<1> QED
  BY <1>1, Pushed

\* The first line of stdout is taken.
LEMMA Taking ==
  ASSUME TypeOK, stdout # <<>>, stdout' = Tail(stdout)
  PROVE  /\ Head(stdout) = stdout[1] /\ Head(stdout) \in Line
         /\ Len(stdout) \in Nat \ {0} /\ Len(stdout') = Len(stdout) - 1
         /\ stdout' \in Seq(Line) /\ Len(stdout') <= Pipe
         /\ \A n \in 1..(Len(stdout) - 1) : stdout'[n] = stdout[n + 1]
<1>1. stdout \in Seq(Line) /\ Len(stdout) <= Pipe /\ Pipe \in Nat
  BY AppServerAssumption DEF TypeOK
<1> QED
  BY <1>1, Shifted

\* A call is registered, written, answered or given up.
LEMMA CallsTyped ==
  ASSUME Typed, Begin \/ \E c \in CallId : CallStep(c) \/ Expire(c)
  PROVE  Typed'
<1> USE DEF vars, calls, approvals, stream, life
<1>0. TypeOK /\ IdsAreKnown
  BY DEF Typed
<1>1. CASE Begin
  <2>1. [pc |-> "registered", result |-> "none"] \in Call
    BY DEF Call
  <2>2. call \in Seq(Call)
    BY <1>0 DEF TypeOK
  <2>3. /\ call' \in Seq(Call) /\ CallId \subseteq CallId' /\ NextId \in CallId'
    BY <1>1, <2>1, <2>2, Pushed DEF Begin, NextId, CallId
  <2>4. TypeOK'
    BY <1>0, <1>1, <2>3 DEF Begin, TypeOK
  <2>5. IdsAreKnown'
    BY <1>0, <1>1, <2>3 DEF Begin, IdsAreKnown
  <2> QED
    BY <2>4, <2>5 DEF Typed
<1>2. ASSUME NEW c \in CallId, WriteCall(c) PROVE Typed'
  <2>1. [kind |-> "call", id |-> c] \in Request
    BY <1>0, LenProperties DEF Request, CallId, TypeOK
  <2>2. /\ stdin' \in Seq(Request) /\ Len(stdin') <= Pipe
        /\ Len(stdin') = Len(stdin) + 1 /\ Len(stdin) \in Nat
        /\ \A n \in 1..Len(stdin) : stdin'[n] = stdin[n]
        /\ stdin'[Len(stdin) + 1] = [kind |-> "call", id |-> c]
    BY <1>0, <1>2, <2>1, Written DEF WriteCall
  <2>3. call' \in Seq(Call) /\ CallId' = CallId
    <3>1. call \in Seq(Call) /\ c \in 1..Len(call)
      BY <1>0, LenProperties DEF TypeOK, CallId
    <3>2. call[c] \in Call
      BY <3>1, ElementOfSeq
    <3>3. [call[c] EXCEPT !.pc = "waiting"] \in Call
      BY <3>2 DEF Call
    <3>4. call' = [call EXCEPT ![c] = [call[c] EXCEPT !.pc = "waiting"]]
      BY <1>2, <3>1 DEF WriteCall
    <3> QED
      BY <1>0, <3>3, <3>4, CallKept
  <2>4. TypeOK'
    BY <1>0, <1>2, <2>2, <2>3 DEF WriteCall, TypeOK
  <2>5. IdsAreKnown'
    BY <1>0, <1>2, <2>2, <2>3 DEF WriteCall, IdsAreKnown
  <2> QED
    BY <2>4, <2>5 DEF Typed
<1>3. ASSUME NEW c \in CallId, NEW result \in {"response", "expired", "closed", "failed"}, Return(c, result)
      PROVE  call' \in Seq(Call) /\ CallId' = CallId
  <2>1. [pc |-> "returned", result |-> result] \in Call
    BY DEF Call
  <2> QED
    BY <1>0, <1>3, <2>1, CallKept DEF Return
<1>4. ASSUME NEW c \in CallId, WriteCallFails(c) PROVE Typed'
  <2>1. call' \in Seq(Call) /\ CallId' = CallId
    BY <1>3, <1>4 DEF WriteCallFails
  <2>2. TypeOK'
    BY <1>0, <1>4, <2>1 DEF WriteCallFails, Terminate, RemovePending, TypeOK
  <2>3. IdsAreKnown'
    BY <1>0, <1>4, <2>1 DEF WriteCallFails, Terminate, IdsAreKnown
  <2> QED
    BY <2>2, <2>3 DEF Typed
<1>5. ASSUME NEW c \in CallId, ReceiveResponse(c) \/ ReceiveDone(c) \/ Expire(c) PROVE Typed'
  <2>1. call' \in Seq(Call) /\ CallId' = CallId
    BY <1>3, <1>5 DEF ReceiveResponse, ReceiveDone, Expire
  <2>2. TypeOK'
    <3>1. CASE ReceiveResponse(c)
      BY <1>0, <3>1, <2>1 DEF ReceiveResponse, TypeOK
    <3>2. CASE ReceiveDone(c)
      BY <1>0, <3>2, <2>1 DEF ReceiveDone, RemovePending, TypeOK
    <3>3. CASE Expire(c)
      BY <1>0, <3>3, <2>1 DEF Expire, Fails, RemovePending, TypeOK
    <3> QED
      BY <1>5, <3>1, <3>2, <3>3
  <2>3. IdsAreKnown'
    BY <1>0, <1>5, <2>1 DEF ReceiveResponse, ReceiveDone, Expire, IdsAreKnown
  <2> QED
    BY <2>2, <2>3 DEF Typed
<1> QED
  BY <1>1, <1>2, <1>4, <1>5 DEF CallStep

\* The process ends and leaves what it has read.
LEMMA ProcessEnded ==
  ASSUME NEW S, NEW p \in [running: BOOLEAN, seen: SUBSET S]
  PROVE  [p EXCEPT !.running = FALSE] \in [running: BOOLEAN, seen: SUBSET S]
OBVIOUS

\* The process sends lines of the kinds it can send, with ids it may use.
LEMMA ProcessTyped ==
  ASSUME Typed, ProcessStep
  PROVE  Typed'
<1> USE DEF vars, calls, approvals, stream, life
<1>0. TypeOK /\ IdsAreKnown
  BY DEF Typed
<1>1. ASSUME ProcessReads PROVE Typed'
  <2>1. stdin \in Seq(Request) /\ stdin # <<>> /\ stdin' = Tail(stdin) /\ CallId' = CallId
    BY <1>0, <1>1, CallsUnchanged DEF ProcessReads, TypeOK
  <2>2. /\ Len(stdin) \in Nat \ {0} /\ Head(stdin) = stdin[1] /\ stdin' \in Seq(Request)
        /\ Len(stdin') = Len(stdin) - 1 /\ \A n \in 1..(Len(stdin) - 1) : stdin'[n] = stdin[n + 1]
    BY <2>1, Shifted
  <2>3. Head(stdin).kind = "call" => Head(stdin).id \in CallId
    BY <1>0, <2>2 DEF IdsAreKnown
  <2>4. process' \in [running: BOOLEAN, seen: SUBSET CallId]
    BY <1>0, <1>1, <2>3 DEF ProcessReads, TypeOK
  <2>5. Len(stdin') <= Pipe
    BY <1>0, <2>2, AppServerAssumption DEF TypeOK
  <2>6. TypeOK'
    BY <1>0, <1>1, <2>1, <2>2, <2>4, <2>5 DEF ProcessReads, TypeOK
  <2>7. IdsAreKnown'
    BY <1>0, <1>1, <2>1, <2>2 DEF ProcessReads, IdsAreKnown
  <2> QED
    BY <2>6, <2>7 DEF Typed
<1>2. ASSUME NEW line \in Line, Sends(line), line.kind \in {"ask", "unknown"} => line.id \in AskId,
             UNCHANGED <<call, stdin, reader, asks>>
      PROVE  /\ stdout' \in Seq(Line) /\ Len(stdout') <= Pipe
             /\ CallId' = CallId /\ IdsAreKnown'
  <2>1. /\ stdout' \in Seq(Line) /\ Len(stdout') <= Pipe
        /\ Len(stdout') = Len(stdout) + 1 /\ Len(stdout) \in Nat
        /\ \A n \in 1..Len(stdout) : stdout'[n] = stdout[n]
        /\ stdout'[Len(stdout) + 1] = line
    BY <1>0, <1>2, Sent
  <2>2. CallId' = CallId
    BY <1>2, CallsUnchanged
  <2> QED
    BY <1>0, <1>2, <2>1, <2>2 DEF IdsAreKnown
<1>3. ASSUME NEW c \in CallId, ProcessAnswers(c) PROVE Typed'
  <2>1. [kind |-> "response", id |-> c] \in Line
    BY <1>0, LenProperties DEF Line, CallId, TypeOK
  <2>2. stdout' \in Seq(Line) /\ Len(stdout') <= Pipe /\ CallId' = CallId /\ IdsAreKnown'
    BY <1>2, <1>3, <2>1 DEF ProcessAnswers
  <2>3. TypeOK'
    BY <1>0, <1>3, <2>2 DEF ProcessAnswers, TypeOK
  <2> QED
    BY <2>2, <2>3 DEF Typed
<1>4. ASSUME ProcessNotifies PROVE Typed'
  <2>1. [kind |-> "note", id |-> noted + 1] \in Line
    BY <1>0 DEF Line, TypeOK
  <2>2. stdout' \in Seq(Line) /\ Len(stdout') <= Pipe /\ CallId' = CallId /\ IdsAreKnown'
    BY <1>2, <1>4, <2>1 DEF ProcessNotifies
  <2>3. TypeOK'
    BY <1>0, <1>4, <2>2 DEF ProcessNotifies, TypeOK
  <2> QED
    BY <2>2, <2>3 DEF Typed
<1>5. ASSUME NEW i \in AskId, NEW kind \in {"ask", "unknown"}, ProcessAsks(i, kind) PROVE Typed'
  <2>1. [kind |-> kind, id |-> i] \in Line
    BY DEF Line, AskId
  <2>2. stdout' \in Seq(Line) /\ Len(stdout') <= Pipe /\ CallId' = CallId /\ IdsAreKnown'
    BY <1>2, <1>5, <2>1 DEF ProcessAsks
  <2>3. TypeOK'
    BY <1>0, <1>5, <2>2 DEF ProcessAsks, TypeOK
  <2> QED
    BY <2>2, <2>3 DEF Typed
<1>6. ASSUME NEW kind \in {"invalid", "long"}, ProcessSendsNonsense(kind) PROVE Typed'
  <2>1. [kind |-> kind, id |-> 0] \in Line
    BY DEF Line
  <2>2. stdout' \in Seq(Line) /\ Len(stdout') <= Pipe /\ CallId' = CallId /\ IdsAreKnown'
    BY <1>2, <1>6, <2>1 DEF ProcessSendsNonsense
  <2>3. TypeOK'
    BY <1>0, <1>6, <2>2 DEF ProcessSendsNonsense, Fails, TypeOK
  <2> QED
    BY <2>2, <2>3 DEF Typed
<1>7. ASSUME ProcessDies \/ ProcessEnds PROVE Typed'
  <2>1. CallId' = CallId
    BY <1>7, CallsUnchanged DEF ProcessDies, ProcessEnds
  <2>2. TypeOK'
    <3>1. CASE ProcessDies
      <4>1. process \in [running: BOOLEAN, seen: SUBSET CallId] /\ faults \in Nat
        BY <1>0 DEF TypeOK
      <4>2. process' = [process EXCEPT !.running = FALSE] /\ faults' = faults + 1
        BY <3>1, Zenon DEF ProcessDies, Fails
      <4>3. process' \in [running: BOOLEAN, seen: SUBSET CallId]
        BY <4>1, <4>2, ProcessEnded
      <4>4. faults' \in Nat
        BY <4>1, <4>2
      <4> QED
        BY <1>0, <2>1, <3>1, <4>3, <4>4 DEF ProcessDies, TypeOK
    <3>2. CASE ProcessEnds
      BY <1>0, <2>1, <3>2 DEF ProcessEnds, TypeOK
    <3> QED
      BY <1>7, <3>1, <3>2
  <2>3. IdsAreKnown'
    BY <1>0, <1>7, <2>1 DEF ProcessDies, ProcessEnds, IdsAreKnown
  <2> QED
    BY <2>2, <2>3 DEF Typed
<1> QED
  BY <1>1, <1>3, <1>4, <1>5, <1>6, <1>7 DEF ProcessStep

\* A relay stops taking.
LEMMA RelayCut ==
  ASSUME NEW r \in Relay
  PROVE  /\ [r EXCEPT !.input = FALSE] \in Relay
         /\ [r EXCEPT !.input = FALSE].queue = r.queue
BY DEF Relay

\* The reader hands on the ids it has read.
LEMMA ReaderTyped ==
  ASSUME Typed, ReaderStep
  PROVE  Typed'
<1> USE DEF vars, calls, approvals, stream, life
<1>0. TypeOK /\ IdsAreKnown
  BY DEF Typed
<1>1. ASSUME StopsReading
      PROVE  /\ reader' \in Reader /\ reader'.pc = "stopped"
             /\ events' \in Relay /\ asks' \in Relay /\ asks'.queue = asks.queue
  BY <1>0, <1>1, RelayCut DEF StopsReading, Reader, TypeOK
<1>2. ASSUME Read PROVE Typed'
  <2> DEFINE line == Head(stdout)
  <2>1. /\ line = stdout[1] /\ line \in Line
        /\ Len(stdout) \in Nat \ {0} /\ Len(stdout') = Len(stdout) - 1
        /\ stdout' \in Seq(Line) /\ Len(stdout') <= Pipe
        /\ \A n \in 1..(Len(stdout) - 1) : stdout'[n] = stdout[n + 1]
    BY <1>0, <1>2, Taking DEF Read
  <2>2. line.kind \in {"ask", "unknown"} => line.id \in AskId
    BY <1>0, <2>1 DEF IdsAreKnown
  <2>3. CallId' = CallId
    BY <1>2, CallsUnchanged DEF Read
  <2>4. /\ pending' \subseteq CallId /\ requests' \subseteq AskId
        /\ reader' \in Reader /\ events' \in Relay /\ asks' \in Relay
        /\ asks'.queue = asks.queue
        /\ process' \in [running: BOOLEAN, seen: SUBSET CallId]
        /\ closed' \subseteq {"stdin", "stdout"}
        /\ reader'.pc = "response" => reader'.id \in CallId
        /\ reader'.pc \in {"ask", "refusing"} => reader'.id \in AskId
    <3> HIDE DEF line
    <3>1. CASE ReadNote(line)
      BY <1>0, <2>1, <3>1 DEF ReadNote, Line, Reader, TypeOK
    <3>2. CASE ReadResponse(line)
      BY <1>0, <2>1, <3>2 DEF ReadResponse, RemovePending, Reading, Line, Reader, TypeOK
    <3>3. CASE ReadAsk(line)
      BY <1>0, <2>1, <2>2, <3>3, SMTT(30) DEF ReadAsk, Admit, Line, Reader, TypeOK
    <3>4. CASE ReadUnknownAsk(line)
      BY <1>0, <2>1, <2>2, <3>4 DEF ReadUnknownAsk, Line, Reader, TypeOK
    <3>5. CASE ReadInvalid(line)
      BY <1>0, <1>1, <3>5 DEF ReadInvalid, Terminate, TypeOK
    <3>6. CASE ReadLong(line)
      BY <1>0, <1>1, <3>6 DEF ReadLong, TypeOK
    <3> QED
      BY <1>2, <3>1, <3>2, <3>3, <3>4, <3>5, <3>6 DEF Read, line
  <2>5. TypeOK'
    BY <1>0, <1>2, <2>1, <2>3, <2>4 DEF Read, TypeOK
  <2>6. IdsAreKnown'
    BY <1>0, <1>2, <2>1, <2>3, <2>4 DEF Read, IdsAreKnown
  <2> QED
    BY <2>5, <2>6 DEF Typed
<1>3. ASSUME ReadEnd \/ RefuseFails PROVE Typed'
  <2>1. /\ reader' \in Reader /\ reader'.pc = "stopped"
        /\ events' \in Relay /\ asks' \in Relay /\ asks'.queue = asks.queue /\ CallId' = CallId
    BY <1>1, <1>3, CallsUnchanged DEF ReadEnd, RefuseFails
  <2>2. TypeOK'
    BY <1>0, <1>3, <2>1 DEF ReadEnd, RefuseFails, Terminate, TypeOK
  <2>3. IdsAreKnown'
    BY <1>0, <1>3, <2>1 DEF ReadEnd, RefuseFails, IdsAreKnown
  <2> QED
    BY <2>2, <2>3 DEF Typed
<1>4. ASSUME Respond PROVE Typed'
  <2>1. reader' \in Reader /\ reader'.pc = "reading" /\ slot' \subseteq CallId /\ CallId' = CallId
    BY <1>0, <1>4, CallsUnchanged DEF Respond, Reading, Reader, IdsAreKnown, TypeOK
  <2>2. TypeOK'
    BY <1>0, <1>4, <2>1 DEF Respond, TypeOK
  <2>3. IdsAreKnown'
    BY <1>0, <1>4, <2>1 DEF Respond, IdsAreKnown
  <2> QED
    BY <2>2, <2>3 DEF Typed
<1>5. ASSUME Refuse PROVE Typed'
  <2>1. [kind |-> "reply", id |-> reader.id] \in Request
    BY <1>0 DEF Request, Reader, TypeOK
  <2>2. /\ stdin' \in Seq(Request) /\ Len(stdin') <= Pipe
        /\ Len(stdin') = Len(stdin) + 1 /\ Len(stdin) \in Nat
        /\ \A n \in 1..Len(stdin) : stdin'[n] = stdin[n]
        /\ stdin'[Len(stdin) + 1] = [kind |-> "reply", id |-> reader.id]
    BY <1>0, <1>5, <2>1, Written DEF Refuse
  <2>3. reader' \in Reader /\ reader'.pc = "reading" /\ CallId' = CallId
    BY <1>5, CallsUnchanged DEF Refuse, Reading, Reader
  <2>4. replied' \in [AskId -> Nat]
    BY <1>0, <1>5 DEF Refuse, IdsAreKnown, TypeOK
  <2>5. TypeOK'
    BY <1>0, <1>5, <2>2, <2>3, <2>4 DEF Refuse, TypeOK
  <2>6. IdsAreKnown'
    BY <1>0, <1>5, <2>2, <2>3 DEF Refuse, IdsAreKnown
  <2> QED
    BY <2>5, <2>6 DEF Typed
<1> QED
  BY <1>2, <1>3, <1>4, <1>5 DEF ReaderStep
\* What the steps of a relay make of it.
LEMMA RelaySteps ==
  ASSUME NEW r \in Relay, NEW i \in Nat
  PROVE  /\ [r EXCEPT !.queue = Append(@, i)] \in Relay
         /\ [r EXCEPT !.queue = Append(@, i)].queue = Append(r.queue, i)
         /\ [r EXCEPT !.queue = <<>>, !.open = FALSE] \in Relay
         /\ [r EXCEPT !.queue = <<>>, !.open = FALSE].queue = <<>>
         /\ r.queue # <<>> => /\ [r EXCEPT !.queue = Tail(@)] \in Relay
                              /\ [r EXCEPT !.queue = Tail(@)].queue = Tail(r.queue)
<1>1. r.queue \in Seq(Nat) /\ r.input \in BOOLEAN /\ r.open \in BOOLEAN
  BY DEF Relay
<1>2. Append(r.queue, i) \in Seq(Nat) /\ <<>> \in Seq(Nat)
  BY <1>1, Pushed, EmptySeq
<1>3. r.queue # <<>> => Tail(r.queue) \in Seq(Nat)
  BY <1>1, Shifted
<1> QED
  BY <1>1, <1>2, <1>3 DEF Relay

\* The relays keep ids and pass them on.
LEMMA RelaysTyped ==
  ASSUME Typed, EventRelayStep \/ AskRelayStep
  PROVE  Typed'
<1> USE DEF vars, calls, approvals, stream, life
<1>0. TypeOK /\ IdsAreKnown /\ events \in Relay /\ asks \in Relay /\ reader.id \in Nat
  BY DEF Typed, TypeOK, Reader
<1>1. CallId' = CallId
  BY CallsUnchanged DEF EventRelayStep, RelayTakesNote, RelayDeliversNote, EventRelayEnds,
                        AskRelayStep, RelayTakesAsk, RelayDeliversAsk, AskRelayEnds
<1>2. Reading \in Reader /\ Reading.pc = "reading"
  BY DEF Reading, Reader
<1>3. ASSUME RelayTakesNote \/ RelayDeliversNote \/ EventRelayEnds PROVE Typed'
  <2>1. events' \in Relay
    BY <1>0, <1>3, RelaySteps, ZenonT(60) DEF RelayTakesNote, RelayDeliversNote, EventRelayEnds, Taken,
                                  Delivered, Ended
  <2>2. consumed' \in Seq(Nat)
    <3>1. CASE RelayDeliversNote
      <4>1. events.queue \in Seq(Nat) /\ events.queue # <<>> /\ consumed \in Seq(Nat)
        BY <1>0, <3>1 DEF RelayDeliversNote, Relay, TypeOK
      <4>2. Head(events.queue) \in Nat
        BY <4>1, Shifted
      <4> QED
        BY <3>1, <4>1, <4>2, Pushed DEF RelayDeliversNote, Oldest
    <3> QED
      BY <1>0, <1>3, <3>1 DEF RelayTakesNote, EventRelayEnds, TypeOK
  <2>3. reader' \in Reader /\ (reader' = reader \/ reader'.pc = "reading")
    BY <1>0, <1>2, <1>3 DEF RelayTakesNote, RelayDeliversNote, EventRelayEnds, TypeOK
  <2>4. UNCHANGED <<calls, approvals, stdin, stdout, noted, life>>
    BY <1>3 DEF RelayTakesNote, RelayDeliversNote, EventRelayEnds
  <2>5. TypeOK'
    BY <1>0, <1>1, <2>1, <2>2, <2>3, <2>4 DEF TypeOK
  <2>6. IdsAreKnown'
    BY <1>0, <1>1, <2>3, <2>4 DEF IdsAreKnown
  <2> QED
    BY <2>5, <2>6 DEF Typed
<1>4. ASSUME RelayTakesAsk PROVE Typed'
  <2>1. asks' \in Relay /\ asks'.queue = Append(asks.queue, reader.id) /\ asks.queue \in Seq(Nat)
    BY <1>0, <1>4, RelaySteps DEF RelayTakesAsk, Taken, Relay
  <2>2. \A n \in 1..Len(asks'.queue) : asks'.queue[n] \in AskId
    <3>1. /\ Len(asks.queue) \in Nat /\ Len(asks'.queue) = Len(asks.queue) + 1
          /\ \A n \in 1..Len(asks.queue) : asks'.queue[n] = asks.queue[n]
          /\ asks'.queue[Len(asks.queue) + 1] = reader.id
      BY <1>0, <2>1, Pushed
    <3>2. reader.id \in AskId /\ \A n \in 1..Len(asks.queue) : asks.queue[n] \in AskId
      BY <1>0, <1>4 DEF RelayTakesAsk, IdsAreKnown
    <3> QED
      BY <3>1, <3>2
  <2>3. TypeOK'
    BY <1>0, <1>1, <1>2, <1>4, <2>1 DEF RelayTakesAsk, TypeOK
  <2>4. IdsAreKnown'
    BY <1>0, <1>1, <1>2, <1>4, <2>2 DEF RelayTakesAsk, IdsAreKnown
  <2> QED
    BY <2>3, <2>4 DEF Typed
<1>5. ASSUME RelayDeliversAsk PROVE Typed'
  <2>1. asks' \in Relay /\ asks'.queue = Tail(asks.queue) /\ asks.queue \in Seq(Nat) /\ asks.queue # <<>>
    BY <1>0, <1>5, RelaySteps DEF RelayDeliversAsk, Delivered, Relay
  <2>2. /\ Len(asks.queue) \in Nat \ {0} /\ Len(asks'.queue) = Len(asks.queue) - 1
        /\ Head(asks.queue) = asks.queue[1]
        /\ \A n \in 1..(Len(asks.queue) - 1) : asks'.queue[n] = asks.queue[n + 1]
    BY <2>1, Shifted
  <2>3. Head(asks.queue) \in AskId /\ \A n \in 1..Len(asks'.queue) : asks'.queue[n] \in AskId
    BY <1>0, <2>2, SMTT(30) DEF IdsAreKnown
  <2>4. handling' \in [AskId -> Nat]
    BY <1>0, <1>5, <2>3, SMTT(30) DEF RelayDeliversAsk, Oldest, TypeOK
  <2>5. TypeOK'
    BY <1>0, <1>1, <1>5, <2>1, <2>4 DEF RelayDeliversAsk, TypeOK
  <2>6. IdsAreKnown'
    BY <1>0, <1>1, <1>5, <2>3 DEF RelayDeliversAsk, IdsAreKnown
  <2> QED
    BY <2>5, <2>6 DEF Typed
<1>6. ASSUME AskRelayEnds PROVE Typed'
  <2>1. asks' \in Relay /\ Len(asks'.queue) = 0
    <3>1. asks' = [asks EXCEPT !.queue = <<>>, !.open = FALSE]
      BY <1>6 DEF AskRelayEnds, Ended
    <3>2. asks' \in Relay /\ asks'.queue = <<>>
      BY <1>0, <3>1, RelaySteps
    <3> QED
      BY <3>2, EmptySeq
  <2>2. TypeOK'
    BY <1>0, <1>1, <1>6, <2>1 DEF AskRelayEnds, TypeOK
  <2>3. IdsAreKnown'
    BY <1>0, <1>1, <1>6, <2>1 DEF AskRelayEnds, IdsAreKnown
  <2> QED
    BY <2>2, <2>3 DEF Typed
<1> QED
  BY <1>3, <1>4, <1>5, <1>6 DEF EventRelayStep, AskRelayStep

\* Approvals are counted, and their replies are lines for the process.
LEMMA ApprovalsTyped ==
  ASSUME Typed, NEW i \in AskId, ApprovalStep(i)
  PROVE  Typed'
<1> USE DEF vars, calls, approvals, stream, life
<1>0. TypeOK /\ IdsAreKnown
  BY DEF Typed
<1>1. CallId' = CallId
  BY CallsUnchanged DEF ApprovalStep, RespondApproval, WriteApproval, WriteApprovalFails
<1>2. ASSUME RespondApproval(i) PROVE Typed'
  <2>1. /\ handling' \in [AskId -> Nat] /\ answering' \in [AskId -> Nat] /\ requests' \subseteq AskId
    BY <1>0, <1>2 DEF RespondApproval, Withdrawn, TypeOK
  <2>2. TypeOK'
    BY <1>0, <1>1, <1>2, <2>1 DEF RespondApproval, TypeOK
  <2>3. IdsAreKnown'
    BY <1>0, <1>1, <1>2 DEF RespondApproval, IdsAreKnown
  <2> QED
    BY <2>2, <2>3 DEF Typed
<1>3. ASSUME WriteApproval(i) PROVE Typed'
  <2>1. [kind |-> "reply", id |-> i] \in Request
    BY DEF Request, AskId
  <2>2. /\ stdin' \in Seq(Request) /\ Len(stdin') <= Pipe
        /\ Len(stdin') = Len(stdin) + 1 /\ Len(stdin) \in Nat
        /\ \A n \in 1..Len(stdin) : stdin'[n] = stdin[n]
        /\ stdin'[Len(stdin) + 1] = [kind |-> "reply", id |-> i]
    BY <1>0, <1>3, <2>1, Written DEF WriteApproval
  <2>3. answering' \in [AskId -> Nat] /\ replied' \in [AskId -> Nat]
    BY <1>0, <1>3 DEF WriteApproval, TypeOK
  <2>4. TypeOK'
    BY <1>0, <1>1, <1>3, <2>2, <2>3 DEF WriteApproval, TypeOK
  <2>5. IdsAreKnown'
    BY <1>0, <1>1, <1>3, <2>2 DEF WriteApproval, IdsAreKnown
  <2> QED
    BY <2>4, <2>5 DEF Typed
<1>4. ASSUME WriteApprovalFails(i) PROVE Typed'
  <2>1. answering' \in [AskId -> Nat]
    BY <1>0, <1>4 DEF WriteApprovalFails, TypeOK
  <2>2. TypeOK'
    BY <1>0, <1>1, <1>4, <2>1 DEF WriteApprovalFails, Terminate, TypeOK
  <2>3. IdsAreKnown'
    BY <1>0, <1>1, <1>4 DEF WriteApprovalFails, IdsAreKnown
  <2> QED
    BY <2>2, <2>3 DEF Typed
<1> QED
  BY <1>2, <1>3, <1>4 DEF ApprovalStep

\* The end changes no ids.
LEMMA EndTyped ==
  ASSUME Typed, WaitForProcess \/ Shutdown \/ ShutdownExpires
  PROVE  Typed'
<1> USE DEF vars, calls, approvals, stream, life
<1>0. TypeOK /\ IdsAreKnown
  BY DEF Typed
<1>1. CallId' = CallId
  BY CallsUnchanged DEF WaitForProcess, Shutdown, ShutdownExpires
<1>2. TypeOK'
  <2>1. CASE WaitForProcess
    BY <1>0, <1>1, <2>1 DEF WaitForProcess, TypeOK
  <2>2. CASE Shutdown
    BY <1>0, <1>1, <2>2 DEF Shutdown, Fails, TypeOK
  <2>3. CASE ShutdownExpires
    BY <1>0, <1>1, <2>3 DEF ShutdownExpires, Terminate, TypeOK
  <2> QED
    BY <2>1, <2>2, <2>3
<1>3. IdsAreKnown'
  BY <1>0, <1>1 DEF WaitForProcess, Shutdown, ShutdownExpires, IdsAreKnown
<1> QED
  BY <1>2, <1>3 DEF Typed

\* Every step keeps the types.
LEMMA StepsTyped == Typed /\ [Next]_vars => Typed'
<1> SUFFICES ASSUME Typed, [Next]_vars PROVE Typed'
  OBVIOUS
<1>1. CASE ProcessStep
  BY <1>1, ProcessTyped
<1>2. CASE Begin \/ \E c \in CallId : CallStep(c) \/ Expire(c)
  BY <1>2, CallsTyped
<1>3. CASE ReaderStep
  BY <1>3, ReaderTyped
<1>4. CASE EventRelayStep \/ AskRelayStep
  BY <1>4, RelaysTyped
<1>5. CASE \E i \in AskId : ApprovalStep(i)
  BY <1>5, ApprovalsTyped
<1>6. CASE WaitForProcess \/ Shutdown \/ ShutdownExpires
  BY <1>6, EndTyped
<1>7. CASE UNCHANGED vars
  <2>1. CallId' = CallId
    BY <1>7, CallsUnchanged DEF vars, calls
  <2>2. TypeOK'
    BY <1>7, <2>1 DEF vars, calls, approvals, stream, life, Typed, TypeOK
  <2>3. IdsAreKnown'
    BY <1>7, <2>1 DEF vars, calls, approvals, stream, life, Typed, IdsAreKnown
  <2> QED
    BY <2>2, <2>3 DEF Typed
<1> QED
  BY <1>1, <1>2, <1>3, <1>4, <1>5, <1>6, <1>7, Zenon DEF Next, ClientStep
-----------------------------------------------------------------------------
(* The reader and the relays.                                              *)

\* The relays go on while the reader does: they end at done, which waits for the
\* reader, or when the reader has stopped.
LEMMA StepsKeepReaderLives == TypeOK /\ ReaderLives /\ [Next]_vars => ReaderLives'
<1> SUFFICES ASSUME TypeOK, ReaderLives, [Next]_vars PROVE ReaderLives'
  OBVIOUS
<1> USE DEF vars, calls, approvals, stream, life
<1>0. events \in Relay /\ asks \in Relay
  BY DEF TypeOK
<1>1. CASE UNCHANGED <<stream, asks, done>>
  BY <1>1 DEF ReaderLives
<1>2. CASE ProcessStep
  BY <1>2 DEF ProcessStep, ProcessReads, ProcessNotifies, ProcessDies, ProcessEnds,
     ProcessAnswers, ProcessAsks, ProcessSendsNonsense, ReaderLives
<1>3. CASE Begin \/ \E c \in CallId : CallStep(c) \/ Expire(c)
  <2>1. UNCHANGED <<stream, asks, done>>
    BY <1>3 DEF Begin, CallStep, WriteCall, WriteCallFails, ReceiveResponse, ReceiveDone, Expire
  <2> QED
    BY <1>1, <2>1
<1>4. CASE ReaderStep
  <2>1. CASE StopsReading
    BY <2>1 DEF StopsReading, ReaderLives
  <2>2. CASE UNCHANGED <<events, asks, done>> /\ reader.pc # "stopped"
    BY <2>2 DEF ReaderLives
  <2> QED
    BY <1>4, <2>1, <2>2 DEF ReaderStep, Read, ReadNote, ReadResponse, ReadAsk, ReadUnknownAsk,
       ReadInvalid, ReadLong, ReadEnd, Respond, Refuse, RefuseFails
<1>5. CASE EventRelayStep
  <2>1. CASE RelayTakesNote
    BY <1>0, <2>1 DEF RelayTakesNote, Taken, Relay, ReaderLives
  <2>2. CASE RelayDeliversNote
    BY <1>0, <2>2 DEF RelayDeliversNote, Delivered, Relay, ReaderLives
  <2>3. CASE EventRelayEnds
    BY <2>3 DEF EventRelayEnds, Ends, ReaderLives
  <2> QED
    BY <1>5, <2>1, <2>2, <2>3 DEF EventRelayStep
<1>6. CASE AskRelayStep
  <2>1. CASE RelayTakesAsk
    BY <1>0, <2>1 DEF RelayTakesAsk, Taken, Relay, ReaderLives
  <2>2. CASE RelayDeliversAsk
    BY <1>0, <2>2 DEF RelayDeliversAsk, Delivered, Relay, ReaderLives
  <2>3. CASE AskRelayEnds
    BY <2>3 DEF AskRelayEnds, Ends, ReaderLives
  <2> QED
    BY <1>6, <2>1, <2>2, <2>3 DEF AskRelayStep
<1>7. CASE \E i \in AskId : ApprovalStep(i)
  <2>1. UNCHANGED <<stream, asks, done>>
    BY <1>7 DEF ApprovalStep, RespondApproval, WriteApproval, WriteApprovalFails
  <2> QED
    BY <1>1, <2>1
<1>8. CASE WaitForProcess
  BY <1>8 DEF WaitForProcess, ReaderDone, ReaderLives
<1>9. CASE Shutdown \/ ShutdownExpires
  <2>1. UNCHANGED <<stream, asks, done>>
    BY <1>9 DEF Shutdown, ShutdownExpires
  <2> QED
    BY <1>1, <2>1
<1>10. CASE UNCHANGED vars
  BY <1>1, <1>10
<1> QED
  BY <1>2, <1>3, <1>4, <1>5, <1>6, <1>7, <1>8, <1>9, <1>10, Zenon DEF Next, ClientStep

-----------------------------------------------------------------------------
(* The stream of notifications.                                            *)

\* How many were taken is a number.
LEMMA Counts ==
  ASSUME TypeOK
  PROVE  /\ Len(consumed) \in Nat /\ events.queue \in Seq(Nat) /\ Len(events.queue) \in Nat
         /\ Passed \in Nat /\ Got \in Nat /\ noted \in Nat
<1>1. consumed \in Seq(Nat) /\ events.queue \in Seq(Nat) /\ noted \in Nat
  BY DEF TypeOK, Relay
<1> QED
  BY <1>1, LenProperties DEF Passed, Got

\* Nothing of the stream changes.
LEMMA StreamUnchanged ==
  ASSUME TakenInOrder, RestUnderWay, UNCHANGED stream
  PROVE  TakenInOrder' /\ RestUnderWay'
<1>1. Passed' = Passed /\ Got' = Got
  BY DEF stream, Passed, Got
<1> QED
  BY <1>1 DEF stream, TakenInOrder, RestUnderWay, IsNote

\* The reader deals with something else than a notification, or stops.
LEMMA ReaderBusy ==
  ASSUME TypeOK, TakenInOrder, RestUnderWay, UNCHANGED <<consumed, noted>>,
         events'.queue = events.queue, reader.pc # "note", reader'.pc # "note",
         reader'.pc # "stopped" => reader.pc # "stopped" /\ stdout' = stdout
  PROVE  TakenInOrder' /\ RestUnderWay'
<1>1. Passed' = Passed /\ Got' = Got
  BY DEF Passed, Got
<1>2. TakenInOrder'
  BY <1>1 DEF TakenInOrder
<1>3. RestUnderWay'
  BY <1>1 DEF RestUnderWay, IsNote
<1> QED
  BY <1>2, <1>3

\* The process sends something else.
LEMMA OtherSent ==
  ASSUME TypeOK, TakenInOrder, RestUnderWay, NEW line \in Line, Sends(line), line.kind # "note",
         UNCHANGED <<reader, events, consumed, noted>>
  PROVE  TakenInOrder' /\ RestUnderWay'
<1>1. Passed' = Passed /\ Got' = Got
  BY DEF Passed, Got
<1>2. /\ Len(stdout') = Len(stdout) + 1 /\ Len(stdout) \in Nat
      /\ \A n \in 1..Len(stdout) : stdout'[n] = stdout[n]
      /\ stdout'[Len(stdout) + 1] = line
  BY Sent
<1>3. TakenInOrder'
  BY <1>1 DEF TakenInOrder
<1>4. RestUnderWay'
  <2> SUFFICES ASSUME reader.pc # "stopped" PROVE RestUnderWay'
    BY DEF RestUnderWay
  <2>1. \A n \in 1..Len(stdout') : IsNote(n)' => n \in 1..Len(stdout) /\ IsNote(n) /\ stdout'[n] = stdout[n]
    BY <1>2 DEF IsNote
  <2>2. \A n \in 1..Len(stdout) : n \in 1..Len(stdout') /\ (IsNote(n) => IsNote(n)' /\ stdout'[n] = stdout[n])
    BY <1>2 DEF IsNote
  <2> QED
    BY <1>1, <2>1, <2>2 DEF RestUnderWay
<1> QED
  BY <1>3, <1>4

\* The process sends the next notification, behind all others.
LEMMA NoteSent ==
  ASSUME TypeOK, TakenInOrder, RestUnderWay, ProcessNotifies
  PROVE  TakenInOrder' /\ RestUnderWay'
<1>0. Got \in Nat /\ noted \in Nat /\ Got <= noted
  BY Counts DEF TakenInOrder
<1>1. /\ noted' = noted + 1 /\ UNCHANGED <<reader, events, consumed>>
      /\ Sends([kind |-> "note", id |-> noted + 1])
  BY DEF ProcessNotifies
<1>2. Passed' = Passed /\ Got' = Got
  BY <1>1 DEF Passed, Got
<1>3. [kind |-> "note", id |-> noted + 1] \in Line
  BY <1>0 DEF Line
<1>4. /\ Len(stdout') = Len(stdout) + 1 /\ Len(stdout) \in Nat
      /\ \A n \in 1..Len(stdout) : stdout'[n] = stdout[n]
      /\ stdout'[Len(stdout) + 1] = [kind |-> "note", id |-> noted + 1]
  BY <1>1, <1>3, Sent
<1>5. TakenInOrder'
  BY <1>0, <1>1, <1>2 DEF TakenInOrder
<1>6. RestUnderWay'
  <2> SUFFICES ASSUME reader.pc # "stopped" PROVE RestUnderWay'
    BY <1>1 DEF RestUnderWay
  <2> DEFINE last == Len(stdout) + 1
  <2>0. \A i \in (Got + 1)..noted : \E n \in 1..Len(stdout) : IsNote(n) /\ stdout[n].id = i
    BY DEF RestUnderWay
  <2>1. /\ \A n \in 1..Len(stdout) : stdout'[n] = stdout[n] /\ (IsNote(n)' <=> IsNote(n))
        /\ stdout'[last].kind = "note" /\ stdout'[last].id = noted + 1
        /\ 1..Len(stdout') = 1..Len(stdout) \cup {last} /\ \A n \in 1..Len(stdout) : n < last
    <3>1. \A n \in 1..Len(stdout) : stdout'[n] = stdout[n] /\ (IsNote(n)' <=> IsNote(n))
      BY <1>4 DEF IsNote
    <3>2. stdout'[last].kind = "note" /\ stdout'[last].id = noted + 1
      BY <1>4 DEF IsNote
    <3>3. 1..Len(stdout') = 1..Len(stdout) \cup {last} /\ \A n \in 1..Len(stdout) : n < last
      BY <1>4
    <3> QED
      BY <3>1, <3>2, <3>3
  <2>2. \A n \in 1..Len(stdout) : IsNote(n) => stdout[n].id \in (Got + 1)..noted
    BY DEF RestUnderWay
  <2>3. \A n \in 1..Len(stdout') : IsNote(n)' => stdout'[n].id \in (Got + 1)..(noted + 1)
    <3>1. \A n \in 1..Len(stdout) : IsNote(n)' => stdout'[n].id \in (Got + 1)..(noted + 1)
      BY <1>0, <2>1, <2>2
    <3>2. stdout'[last].id \in (Got + 1)..(noted + 1)
      BY <1>0, <2>1
    <3> QED
      BY <2>1, <3>1, <3>2
  <2>4. \A n, m \in 1..Len(stdout') : IsNote(n)' /\ IsNote(m)' /\ n < m => stdout'[n].id < stdout'[m].id
    <3> SUFFICES ASSUME NEW n \in 1..Len(stdout'), NEW m \in 1..Len(stdout'),
                        IsNote(n)', IsNote(m)', n < m
                 PROVE  stdout'[n].id < stdout'[m].id
      OBVIOUS
    <3>1. n \in 1..Len(stdout)
      BY <1>4
    <3>2. CASE m = last
      <4>1. stdout'[n].id \in (Got + 1)..noted
        BY <2>1, <2>2, <3>1
      <4> QED
        BY <1>0, <2>1, <3>2, <4>1
    <3>3. CASE m # last
      BY <2>1, <3>1, <3>3 DEF RestUnderWay
    <3> QED
      BY <3>2, <3>3
  <2>5. \A i \in (Got + 1)..(noted + 1) : \E n \in 1..Len(stdout') : IsNote(n)' /\ stdout'[n].id = i
    <3> SUFFICES ASSUME NEW i \in (Got + 1)..(noted + 1)
                 PROVE  \E n \in 1..Len(stdout') : IsNote(n)' /\ stdout'[n].id = i
      OBVIOUS
    <3>1. CASE i = noted + 1
      <4>1. last \in 1..Len(stdout') /\ stdout'[last].kind = "note" /\ stdout'[last].id = i
        BY <1>4, <2>1, <3>1
      <4> QED
        BY <4>1 DEF IsNote
    <3>2. CASE i # noted + 1
      <4>1. i \in (Got + 1)..noted
        BY <1>0, <3>2
      <4>2. PICK n \in 1..Len(stdout) : IsNote(n) /\ stdout[n].id = i
        BY <2>0, <4>1
      <4> QED
        BY <2>1, <4>2
    <3> QED
      BY <3>1, <3>2
  <2> QED
    BY <1>1, <1>2, <2>3, <2>4, <2>5 DEF RestUnderWay
<1> QED
  BY <1>5, <1>6

\* The reader takes a line that is no notification and goes on.
LEMMA OtherRead ==
  ASSUME TypeOK, TakenInOrder, RestUnderWay, reader.pc = "reading", stdout # <<>>,
         stdout' = Tail(stdout), Head(stdout).kind # "note", reader'.pc \notin {"note", "stopped"},
         UNCHANGED <<events, consumed, noted>>
  PROVE  TakenInOrder' /\ RestUnderWay'
<1>1. Passed' = Passed /\ Got' = Got
  BY DEF Passed, Got
<1>2. /\ Len(stdout) \in Nat \ {0} /\ Len(stdout') = Len(stdout) - 1 /\ ~IsNote(1)
      /\ \A n \in 1..(Len(stdout) - 1) : stdout'[n] = stdout[n + 1]
  BY Taking DEF IsNote
<1>3. TakenInOrder'
  BY <1>1 DEF TakenInOrder
<1>4. RestUnderWay'
  <2>1. \A n \in 1..Len(stdout') : n + 1 \in 1..Len(stdout) /\ stdout'[n] = stdout[n + 1]
                                   /\ (IsNote(n)' <=> IsNote(n + 1))
    BY <1>2 DEF IsNote
  <2>2. \A n \in 1..Len(stdout') : IsNote(n)' => stdout'[n].id \in (Got + 1)..noted
    BY <2>1 DEF RestUnderWay
  <2>3. \A n, m \in 1..Len(stdout') : IsNote(n)' /\ IsNote(m)' /\ n < m => stdout'[n].id < stdout'[m].id
    BY <2>1 DEF RestUnderWay
  <2>4. \A i \in (Got + 1)..noted : \E n \in 1..Len(stdout') : IsNote(n)' /\ stdout'[n].id = i
    <3> SUFFICES ASSUME NEW i \in (Got + 1)..noted
                 PROVE  \E n \in 1..Len(stdout') : IsNote(n)' /\ stdout'[n].id = i
      OBVIOUS
    <3>1. PICK n \in 1..Len(stdout) : IsNote(n) /\ stdout[n].id = i
      BY DEF RestUnderWay
    <3>2. n - 1 \in 1..Len(stdout') /\ (n - 1) + 1 = n
      BY <1>2, <3>1
    <3> QED
      BY <2>1, <3>1, <3>2
  <2> QED
    BY <1>1, <2>2, <2>3, <2>4 DEF RestUnderWay
<1> QED
  BY <1>3, <1>4

\* The reader takes a notification: it is the next one, for a smaller one would have to
\* stand before it.
LEMMA NoteRead ==
  ASSUME TypeOK, TakenInOrder, RestUnderWay, reader.pc = "reading", stdout # <<>>,
         stdout' = Tail(stdout), Head(stdout).kind = "note",
         reader' = [pc |-> "note", id |-> Head(stdout).id], UNCHANGED <<events, consumed, noted>>
  PROVE  TakenInOrder' /\ RestUnderWay'
<1>0. Got \in Nat /\ noted \in Nat /\ Got = Passed
  BY Counts DEF Got
<1>1. Passed' = Passed /\ Got' = Got + 1
  BY DEF Passed, Got
<1>2. /\ Len(stdout) \in Nat \ {0} /\ Len(stdout') = Len(stdout) - 1
      /\ Head(stdout) = stdout[1] /\ IsNote(1) /\ 1 \in 1..Len(stdout)
      /\ \A n \in 1..(Len(stdout) - 1) : stdout'[n] = stdout[n + 1]
  BY Taking DEF IsNote
<1>3. stdout[1].id \in (Got + 1)..noted
  BY <1>2 DEF RestUnderWay
<1>4. \A n \in 1..Len(stdout) : IsNote(n) /\ 1 < n => stdout[1].id < stdout[n].id
  BY <1>2 DEF RestUnderWay
<1>5. stdout[1].id = Got + 1
  <2>1. PICK n \in 1..Len(stdout) : IsNote(n) /\ stdout[n].id = Got + 1
    BY <1>0, <1>3 DEF RestUnderWay
  <2>2. n = 1 \/ 1 < n
    OBVIOUS
  <2> QED
    BY <1>0, <1>3, <1>4, <2>1, <2>2
<1>6. TakenInOrder'
  BY <1>0, <1>1, <1>2, <1>3, <1>5 DEF TakenInOrder
<1>7. RestUnderWay'
  <2>1. \A n \in 1..Len(stdout') : n + 1 \in 1..Len(stdout) /\ 1 < n + 1 /\ stdout'[n] = stdout[n + 1]
                                   /\ (IsNote(n)' <=> IsNote(n + 1))
    BY <1>2 DEF IsNote
  <2>2. \A n \in 1..Len(stdout') : IsNote(n)' => stdout'[n].id \in (Got + 2)..noted
    <3> SUFFICES ASSUME NEW n \in 1..Len(stdout'), IsNote(n)' PROVE stdout'[n].id \in (Got + 2)..noted
      OBVIOUS
    <3>1. stdout'[n].id \in (Got + 1)..noted
      BY <2>1 DEF RestUnderWay
    <3>2. Got + 1 < stdout'[n].id
      BY <1>4, <1>5, <2>1
    <3> QED
      BY <1>0, <3>1, <3>2
  <2>3. \A n, m \in 1..Len(stdout') : IsNote(n)' /\ IsNote(m)' /\ n < m => stdout'[n].id < stdout'[m].id
    BY <2>1 DEF RestUnderWay
  <2>4. \A i \in (Got + 2)..noted : \E n \in 1..Len(stdout') : IsNote(n)' /\ stdout'[n].id = i
    <3> SUFFICES ASSUME NEW i \in (Got + 2)..noted
                 PROVE  \E n \in 1..Len(stdout') : IsNote(n)' /\ stdout'[n].id = i
      OBVIOUS
    <3>1. i \in (Got + 1)..noted /\ i # Got + 1
      BY <1>0
    <3>2. PICK n \in 1..Len(stdout) : IsNote(n) /\ stdout[n].id = i
      BY <3>1 DEF RestUnderWay
    <3>3. n # 1
      BY <1>5, <3>1, <3>2
    <3>4. n - 1 \in 1..Len(stdout') /\ (n - 1) + 1 = n
      BY <1>2, <3>2, <3>3
    <3> QED
      BY <2>1, <3>2, <3>4
  <2>5. (Got + 1) + 1 = Got + 2
    BY <1>0
  <2> QED
    BY <1>1, <2>2, <2>3, <2>4, <2>5 DEF RestUnderWay
<1> QED
  BY <1>6, <1>7

\* The relay takes what the reader holds, passes on the oldest it has, or ends because
\* nobody reads any more.
LEMMA RelayKeepsOrder ==
  ASSUME TypeOK, ReaderLives, TakenInOrder, RestUnderWay, EventRelayStep
  PROVE  TakenInOrder' /\ RestUnderWay'
<1> DEFINE c == Len(consumed)
           q == Len(events.queue)
<1>0. /\ consumed \in Seq(Nat) /\ events.queue \in Seq(Nat) /\ events \in Relay /\ reader.id \in Nat
      /\ c \in Nat /\ q \in Nat /\ noted \in Nat
      /\ Passed = c + q /\ Passed \in Nat /\ Got \in Nat
  BY Counts DEF TypeOK, Reader, Passed
<1>1. CASE RelayTakesNote
  <2>1. /\ reader.pc = "note" /\ reader.id = Got /\ Got = c + q + 1
        /\ reader' = Reading /\ UNCHANGED <<stdout, consumed, noted>>
    BY <1>0, <1>1 DEF RelayTakesNote, TakenInOrder, Got
  <2>2. events'.queue = Append(events.queue, reader.id)
    BY <1>0, <1>1, RelaySteps DEF RelayTakesNote, Taken
  <2>3. /\ Len(events'.queue) = q + 1 /\ \A n \in 1..q : events'.queue[n] = events.queue[n]
        /\ events'.queue[q + 1] = reader.id
    BY <1>0, <2>2, Pushed
  <2>4. Got' = Got
    BY <1>0, <2>1, <2>3 DEF Got, Passed, Reading
  <2>5. TakenInOrder'
    <3>1. \A n \in 1..(q + 1) : events'.queue[n] = c + n
      <4>1. \A n \in 1..q : events'.queue[n] = c + n
        BY <2>3 DEF TakenInOrder
      <4>2. events'.queue[q + 1] = c + (q + 1)
        BY <1>0, <2>1, <2>3
      <4>3. q \in Nat
        BY <1>0
      <4> HIDE DEF c, q
      <4> QED
        BY <4>1, <4>2, <4>3
    <3> QED
      BY <2>1, <2>3, <2>4, <3>1 DEF TakenInOrder, Reading
  <2>6. RestUnderWay'
    BY <2>1, <2>4 DEF RestUnderWay, IsNote
  <2> QED
    BY <2>5, <2>6
<1>2. CASE RelayDeliversNote
  <2>1. events.queue # <<>> /\ consumed' = Append(consumed, Head(events.queue))
        /\ UNCHANGED <<reader, stdout, noted>>
    BY <1>2, Zenon DEF RelayDeliversNote, Oldest
  <2>2. events'.queue = Tail(events.queue)
    BY <1>0, <1>2, <2>1, RelaySteps DEF RelayDeliversNote, Delivered
  <2>3. /\ q \in Nat \ {0} /\ Len(events'.queue) = q - 1 /\ Head(events.queue) = events.queue[1]
        /\ Head(events.queue) \in Nat
        /\ \A n \in 1..(q - 1) : events'.queue[n] = events.queue[n + 1]
    BY <1>0, <2>1, <2>2, Shifted
  <2>4. /\ Len(consumed') = c + 1 /\ \A n \in 1..c : consumed'[n] = consumed[n]
        /\ consumed'[c + 1] = Head(events.queue)
    BY <1>0, <2>1, <2>3, Pushed
  <2>5. Passed' = Passed /\ Got' = Got
    <3>1. Passed' = (c + 1) + (q - 1)
      BY <2>3, <2>4 DEF Passed
    <3>2. Passed' = Passed
      <4>1. c \in Nat /\ q \in Nat /\ Passed = c + q
        BY <1>0
      <4> HIDE DEF c, q
      <4> QED
        BY <3>1, <4>1
    <3> QED
      BY <2>1, <3>2 DEF Got
  <2>6. TakenInOrder'
    <3>1. \A n \in 1..(c + 1) : consumed'[n] = n
      <4>1. \A n \in 1..c : consumed'[n] = n
        BY <2>4 DEF TakenInOrder
      <4>2. consumed'[c + 1] = c + 1
        BY <1>0, <2>3, <2>4 DEF TakenInOrder
      <4>3. c \in Nat
        BY <1>0
      <4> HIDE DEF c
      <4> QED
        BY <4>1, <4>2, <4>3
    <3>2. \A n \in 1..(q - 1) : events'.queue[n] = (c + 1) + n
      BY <1>0, <2>3 DEF TakenInOrder
    <3> QED
      BY <2>1, <2>3, <2>4, <2>5, <3>1, <3>2 DEF TakenInOrder
  <2>7. RestUnderWay'
    BY <2>1, <2>5 DEF RestUnderWay, IsNote
  <2> QED
    BY <2>6, <2>7
<1>3. CASE EventRelayEnds
  <2>1. UNCHANGED <<reader, stdout, consumed, noted>> /\ reader.pc = "stopped"
    BY <1>3 DEF EventRelayEnds, Ends, ReaderLives
  <2>2. events'.queue = <<>>
    BY <1>0, <1>3, RelaySteps DEF EventRelayEnds, Ended
  <2>3. Len(events'.queue) = 0
    BY <2>2, EmptySeq
  <2>4. Got' = c /\ Got = c + q
    BY <1>0, <2>1, <2>3 DEF Got, Passed
  <2>5. TakenInOrder'
    BY <1>0, <2>1, <2>3, <2>4 DEF TakenInOrder
  <2> QED
    BY <2>1, <2>5 DEF RestUnderWay
<1> QED
  BY <1>1, <1>2, <1>3 DEF EventRelayStep

\* Every step keeps the stream.
LEMMA StepsKeepStream ==
  TypeOK /\ ReaderLives /\ TakenInOrder /\ RestUnderWay /\ [Next]_vars => TakenInOrder' /\ RestUnderWay'
<1> SUFFICES ASSUME TypeOK, ReaderLives, TakenInOrder, RestUnderWay, [Next]_vars
             PROVE  TakenInOrder' /\ RestUnderWay'
  OBVIOUS
<1> USE DEF vars, calls, approvals, stream, life
<1>0. events \in Relay
  BY DEF TypeOK
<1>1. CASE ProcessStep
  <2>1. CASE ProcessReads \/ ProcessDies \/ ProcessEnds
    BY <2>1, StreamUnchanged DEF ProcessReads, ProcessDies, ProcessEnds
  <2>2. CASE ProcessNotifies
    BY <2>2, NoteSent
  <2>3. ASSUME NEW c \in CallId, ProcessAnswers(c) PROVE TakenInOrder' /\ RestUnderWay'
    <3>1. [kind |-> "response", id |-> c] \in Line
      BY LenProperties DEF Line, CallId, TypeOK
    <3> QED
      BY <2>3, <3>1, OtherSent DEF ProcessAnswers
  <2>4. ASSUME NEW i \in AskId, NEW kind \in {"ask", "unknown"}, ProcessAsks(i, kind)
        PROVE  TakenInOrder' /\ RestUnderWay'
    <3>1. [kind |-> kind, id |-> i] \in Line
      BY DEF Line, AskId
    <3> QED
      BY <2>4, <3>1, OtherSent DEF ProcessAsks
  <2>5. ASSUME NEW kind \in {"invalid", "long"}, ProcessSendsNonsense(kind)
        PROVE  TakenInOrder' /\ RestUnderWay'
    <3>1. [kind |-> kind, id |-> 0] \in Line
      BY DEF Line
    <3> QED
      BY <2>5, <3>1, OtherSent DEF ProcessSendsNonsense
  <2> QED
    BY <1>1, <2>1, <2>2, <2>3, <2>4, <2>5 DEF ProcessStep
<1>2. CASE Begin \/ \E c \in CallId : CallStep(c) \/ Expire(c)
  <2>1. UNCHANGED stream
    BY <1>2 DEF Begin, CallStep, WriteCall, WriteCallFails, ReceiveResponse, ReceiveDone, Expire
  <2> QED
    BY <2>1, StreamUnchanged
<1>3. CASE ReaderStep
  <2>1. StopsReading => events'.queue = events.queue /\ reader'.pc = "stopped"
    BY <1>0, RelayCut DEF StopsReading
  <2>2. CASE Read
    <3> DEFINE line == Head(stdout)
    <3>1. /\ reader.pc = "reading" /\ stdout # <<>> /\ stdout' = Tail(stdout)
          /\ UNCHANGED <<consumed, noted>>
      BY <2>2 DEF Read
    <3>2. CASE ReadNote(line)
      BY <3>1, <3>2, NoteRead DEF ReadNote
    <3>3. CASE ReadResponse(line) \/ ReadAsk(line) \/ ReadUnknownAsk(line)
      <4>1. line.kind # "note" /\ reader'.pc \notin {"note", "stopped"} /\ UNCHANGED events
        BY <3>3 DEF ReadResponse, ReadAsk, ReadUnknownAsk, Admit, Reading
      <4> QED
        BY <3>1, <4>1, OtherRead
    <3>4. CASE ReadInvalid(line) \/ ReadLong(line)
      BY <2>1, <3>1, <3>4, ReaderBusy DEF ReadInvalid, ReadLong
    <3> QED
      BY <2>2, <3>2, <3>3, <3>4 DEF Read
  <2>3. CASE ReadEnd \/ RefuseFails
    BY <2>1, <2>3, ReaderBusy DEF ReadEnd, RefuseFails
  <2>4. CASE Respond \/ Refuse
    BY <2>4, ReaderBusy DEF Respond, Refuse, Reading
  <2> QED
    BY <1>3, <2>2, <2>3, <2>4 DEF ReaderStep
<1>4. CASE EventRelayStep
  BY <1>4, RelayKeepsOrder
<1>5. CASE AskRelayStep
  <2>1. CASE RelayTakesAsk
    BY <2>1, ReaderBusy DEF RelayTakesAsk, Reading
  <2>2. CASE RelayDeliversAsk \/ AskRelayEnds
    BY <2>2, StreamUnchanged DEF RelayDeliversAsk, AskRelayEnds
  <2> QED
    BY <1>5, <2>1, <2>2 DEF AskRelayStep
<1>6. CASE \E i \in AskId : ApprovalStep(i)
  <2>1. UNCHANGED stream
    BY <1>6 DEF ApprovalStep, RespondApproval, WriteApproval, WriteApprovalFails
  <2> QED
    BY <2>1, StreamUnchanged
<1>7. CASE WaitForProcess \/ Shutdown \/ ShutdownExpires
  BY <1>7, StreamUnchanged DEF WaitForProcess, Shutdown, ShutdownExpires
<1>8. CASE UNCHANGED vars
  BY <1>8, StreamUnchanged
<1> QED
  BY <1>1, <1>2, <1>3, <1>4, <1>5, <1>6, <1>7, <1>8, Zenon DEF Next, ClientStep

-----------------------------------------------------------------------------
(* The account of approval requests.                                       *)

\* What is counted is a number.
LEMMA Counted == \A condition : One(condition) \in {0, 1}
BY DEF One

\* Counting in a queue whose first element is taken.
LEMMA CountShifted ==
  ASSUME NEW l \in Nat, NEW S \in SUBSET (1..l)
  PROVE  /\ IsFiniteSet(S) /\ Cardinality(S) \in Nat
         /\ LET T == {n \in 1..(l - 1) : n + 1 \in S}
            IN  Cardinality(T) \in Nat /\ Cardinality(S) = Cardinality(T) + One(1 \in S)
<1> DEFINE T == {n \in 1..(l - 1) : n + 1 \in S}
           f == [n \in T |-> n + 1]
<1>1. IsFiniteSet(1..l) /\ IsFiniteSet(1..(l - 1))
  BY FS_Interval
<1>2. IsFiniteSet(S) /\ IsFiniteSet(T)
  BY <1>1, FS_Subset
<1>3. Cardinality(S) \in Nat /\ Cardinality(T) \in Nat
  BY <1>2, FS_CardinalityType
<1>4. ExistsBijection(T, S \ {1})
  <2>1. f \in [T -> S \ {1}] /\ \A a, b \in T : f[a] = f[b] => a = b
    OBVIOUS
  <2>2. \A t \in S \ {1} : \E n \in T : f[n] = t
    <3> SUFFICES ASSUME NEW t \in S \ {1} PROVE \E n \in T : f[n] = t
      OBVIOUS
    <3>1. t - 1 \in T /\ f[t - 1] = t
      OBVIOUS
    <3> QED
      BY <3>1
  <2>3. f \in Bijection(T, S \ {1})
    BY <2>1, <2>2, Fun_IsBij
  <2> QED
    BY <2>3 DEF ExistsBijection
<1>5. Cardinality(S \ {1}) = Cardinality(T)
  BY <1>2, <1>4, FS_Bijection
<1>6. Cardinality(S \ {1}) = IF 1 \in S THEN Cardinality(S) - 1 ELSE Cardinality(S)
  BY <1>2, FS_RemoveElement
<1> QED
  BY <1>2, <1>3, <1>5, <1>6 DEF One

\* Counting in a queue that grows.
LEMMA CountPushed ==
  ASSUME NEW l \in Nat, NEW S \in SUBSET (1..l), NEW T, T = S \/ T = S \cup {l + 1}
  PROVE  Cardinality(T) = Cardinality(S) + One(l + 1 \in T)
<1>1. IsFiniteSet(S) /\ Cardinality(S) \in Nat
  BY CountShifted, Zenon
<1>2. l + 1 \notin S
  OBVIOUS
<1>3. Cardinality(S \cup {l + 1}) = Cardinality(S) + 1
  BY <1>1, <1>2, FS_AddElement
<1>4. CASE T = S
  BY <1>1, <1>2, <1>4 DEF One
<1>5. CASE T = S \cup {l + 1}
  BY <1>3, <1>5 DEF One
<1> QED
  BY <1>4, <1>5

\* The lines of a kind about a request.
LinesOf(kinds, i) == {n \in DOMAIN stdout : stdout[n].kind \in kinds /\ stdout[n].id = i}

\* A line more.
LEMMA LinesSent ==
  ASSUME TypeOK, NEW line \in Line, Sends(line), NEW kinds, NEW i
  PROVE  Lines(kinds, i)' = Lines(kinds, i) + One(line.kind \in kinds /\ line.id = i)
<1> DEFINE S == LinesOf(kinds, i)
           T == {n \in DOMAIN stdout' : stdout'[n].kind \in kinds /\ stdout'[n].id = i}
           l == Len(stdout)
<1>1. /\ l \in Nat /\ DOMAIN stdout = 1..l /\ DOMAIN stdout' = 1..(l + 1)
      /\ \A n \in 1..l : stdout'[n] = stdout[n]
      /\ stdout'[l + 1] = line
  BY Sent, LenProperties DEF TypeOK
<1>2. S \in SUBSET (1..l)
  BY <1>1 DEF LinesOf
<1>3. T = {n \in 1..l : stdout[n].kind \in kinds /\ stdout[n].id = i}
            \cup {n \in {l + 1} : line.kind \in kinds /\ line.id = i}
  <2>1. 1..(l + 1) = 1..l \cup {l + 1}
    BY <1>1
  <2> QED
    BY <1>1, <2>1
<1>4. T = S \/ T = S \cup {l + 1}
  BY <1>1, <1>3 DEF LinesOf
<1>5. l + 1 \in T <=> (line.kind \in kinds /\ line.id = i)
  BY <1>1
<1>6. Lines(kinds, i) = Cardinality(S) /\ Lines(kinds, i)' = Cardinality(T)
  BY DEF Lines, LinesOf
<1>7. Cardinality(T) = Cardinality(S) + One(l + 1 \in T)
  BY <1>1, <1>2, <1>4, CountPushed
<1>8. One(l + 1 \in T) = One(line.kind \in kinds /\ line.id = i)
  BY <1>5 DEF One
<1> QED
  BY <1>6, <1>7, <1>8

\* A line less.
LEMMA LinesTaken ==
  ASSUME TypeOK, stdout # <<>>, stdout' = Tail(stdout), NEW kinds, NEW i
  PROVE  Lines(kinds, i) = Lines(kinds, i)' + One(Head(stdout).kind \in kinds /\ Head(stdout).id = i)
<1> DEFINE S == LinesOf(kinds, i)
           l == Len(stdout)
           T == {n \in 1..(l - 1) : n + 1 \in S}
<1>1. /\ l \in Nat \ {0} /\ DOMAIN stdout = 1..l /\ DOMAIN stdout' = 1..(l - 1)
      /\ \A n \in 1..(l - 1) : stdout'[n] = stdout[n + 1]
      /\ Head(stdout) = stdout[1]
  BY Taking, LenProperties DEF TypeOK
<1>2. S \in SUBSET (1..l) /\ l \in Nat
  BY <1>1 DEF LinesOf
<1>3. T = {n \in DOMAIN stdout' : stdout'[n].kind \in kinds /\ stdout'[n].id = i}
  <2>1. \A n \in 1..(l - 1) : n + 1 \in 1..l
    BY <1>1
  <2> QED
    BY <1>1, <2>1 DEF LinesOf
<1>4. Lines(kinds, i) = Cardinality(S) /\ Lines(kinds, i)' = Cardinality(T)
  BY <1>3 DEF Lines, LinesOf
<1>5. Cardinality(S) = Cardinality(T) + One(1 \in S)
  BY <1>2, CountShifted
<1>6. One(1 \in S) = One(Head(stdout).kind \in kinds /\ Head(stdout).id = i)
  BY <1>1 DEF LinesOf, One
<1> QED
  BY <1>4, <1>5, <1>6

\* All counts are numbers.
LEMMA LinesType ==
  ASSUME TypeOK, NEW kinds, NEW i
  PROVE  Lines(kinds, i) \in Nat
<1>1. Len(stdout) \in Nat /\ DOMAIN stdout = 1..Len(stdout)
  BY LenProperties DEF TypeOK
<1>2. LinesOf(kinds, i) \in SUBSET (1..Len(stdout))
  BY <1>1 DEF LinesOf
<1>3. Cardinality(LinesOf(kinds, i)) \in Nat
  BY <1>1, <1>2, CountShifted
<1> QED
  BY <1>3 DEF Lines, LinesOf

\* The requests that are being refused and outstanding, and what is known of a request.
Refusing(i) == One(reader.pc = "refusing" /\ reader.id = i)
Outstanding(i) == One(i \in requests)
OnTheWay(i) == Lines({"ask", "unknown"}, i)

LEMMA KnownIs ==
  ASSUME TypeOK, NEW i \in AskId
  PROVE  /\ Known(i) = OnTheWay(i) + Refusing(i) + Outstanding(i) + answering[i] + replied[i]
         /\ OnTheWay(i) \in Nat /\ Refusing(i) \in {0, 1} /\ Outstanding(i) \in {0, 1}
         /\ answering[i] \in Nat /\ replied[i] \in Nat /\ asked[i] \in Nat
<1>1. OnTheWay(i) \in Nat
  BY LinesType DEF OnTheWay
<1>2. Refusing(i) \in {0, 1} /\ Outstanding(i) \in {0, 1}
  BY Counted DEF Refusing, Outstanding
<1>3. answering[i] \in Nat /\ replied[i] \in Nat /\ asked[i] \in Nat
  BY DEF TypeOK
<1> QED
  BY <1>1, <1>2, <1>3 DEF Known, OnTheWay, Refusing, Outstanding

LEMMA KnownBecomes ==
  ASSUME NEW i
  PROVE  Known(i)' = OnTheWay(i)' + Refusing(i)' + Outstanding(i)' + answering'[i] + replied'[i]
BY DEF Known, OnTheWay, Refusing, Outstanding

\* A step keeps the account of a request that it moves or receives; it loses it only when
\* nothing can be written to the process any more.
Accounted(i) ==
  \/ Known(i)' = Known(i) /\ asked'[i] = asked[i]
  \/ Known(i)' = Known(i) + 1 /\ asked'[i] = asked[i] + 1
  \/ Broken' /\ Known(i)' \in Int /\ Known(i)' <= Known(i) /\ asked'[i] = asked[i]

\* Nothing that is known of a request changes.
LEMMA RequestUntouched ==
  ASSUME TypeOK, NEW i \in AskId, UNCHANGED <<requests, answering, replied, asked>>,
         OnTheWay(i)' = OnTheWay(i), Refusing(i)' = Refusing(i)
  PROVE  Accounted(i)
<1>1. Outstanding(i)' = Outstanding(i)
  BY DEF Outstanding
<1>2. Known(i) = OnTheWay(i) + Refusing(i) + Outstanding(i) + answering[i] + replied[i]
  BY KnownIs
<1>3. Known(i)' = OnTheWay(i)' + Refusing(i)' + Outstanding(i)' + answering'[i] + replied'[i]
  BY KnownBecomes
<1> QED
  BY <1>1, <1>2, <1>3 DEF Accounted

\* Steps outside the reader and the approvals: only the process adds a request.
LEMMA ProcessAccounts ==
  ASSUME Typed, ProcessStep, NEW i \in AskId
  PROVE  Accounted(i)
<1> USE DEF vars, calls, approvals, stream, life
<1>0. TypeOK
  BY DEF Typed
<1>1. ASSUME UNCHANGED <<stdout, reader, requests, answering, replied, asked>> PROVE Accounted(i)
  BY <1>0, <1>1, RequestUntouched DEF OnTheWay, Refusing, Lines
<1>2. ASSUME NEW line \in Line, Sends(line), line.kind \notin {"ask", "unknown"},
             UNCHANGED <<reader, requests, answering, replied, asked>>
      PROVE  Accounted(i)
  <2>1. OnTheWay(i)' = OnTheWay(i) + 0
    BY <1>0, <1>2, LinesSent DEF OnTheWay, One
  <2>2. OnTheWay(i)' = OnTheWay(i)
    BY <1>0, <2>1, KnownIs
  <2> QED
    BY <1>0, <1>2, <2>2, RequestUntouched DEF Refusing
<1>3. CASE ProcessReads \/ ProcessDies \/ ProcessEnds
  BY <1>1, <1>3 DEF ProcessReads, ProcessDies, ProcessEnds
<1>4. CASE ProcessNotifies
  <2>1. [kind |-> "note", id |-> noted + 1] \in Line
    BY <1>0 DEF Line, TypeOK
  <2> QED
    BY <1>2, <1>4, <2>1 DEF ProcessNotifies
<1>5. ASSUME NEW c \in CallId, ProcessAnswers(c) PROVE Accounted(i)
  <2>1. [kind |-> "response", id |-> c] \in Line
    BY <1>0, LenProperties DEF Line, CallId, TypeOK
  <2> QED
    BY <1>2, <1>5, <2>1 DEF ProcessAnswers
<1>6. ASSUME NEW kind \in {"invalid", "long"}, ProcessSendsNonsense(kind) PROVE Accounted(i)
  <2>1. [kind |-> kind, id |-> 0] \in Line
    BY DEF Line
  <2> QED
    BY <1>2, <1>6, <2>1 DEF ProcessSendsNonsense
<1>7. ASSUME NEW j \in AskId, NEW kind \in {"ask", "unknown"}, ProcessAsks(j, kind) PROVE Accounted(i)
  <2> DEFINE line == [kind |-> kind, id |-> j]
  <2>1. line \in Line /\ Sends(line) /\ UNCHANGED <<reader, requests, answering, replied>>
    BY <1>7 DEF ProcessAsks, Line, AskId
  <2>2. OnTheWay(i)' = OnTheWay(i) + One(j = i)
    <3>1. OnTheWay(i)' = OnTheWay(i) + One(line.kind \in {"ask", "unknown"} /\ line.id = i)
      BY <1>0, <2>1, LinesSent DEF OnTheWay
    <3>2. One(line.kind \in {"ask", "unknown"} /\ line.id = i) = One(j = i)
      BY DEF One
    <3> QED
      BY <3>1, <3>2
  <2>3. asked'[i] = asked[i] + One(j = i)
    BY <1>0, <1>7 DEF ProcessAsks, One, TypeOK
  <2>4. Refusing(i)' = Refusing(i) /\ Outstanding(i)' = Outstanding(i)
    BY <2>1 DEF Refusing, Outstanding
  <2>5. Known(i)' = Known(i) + One(j = i)
    <3>1. Known(i) = OnTheWay(i) + Refusing(i) + Outstanding(i) + answering[i] + replied[i]
      BY <1>0, KnownIs
    <3>2. Known(i)' = OnTheWay(i)' + Refusing(i)' + Outstanding(i)' + answering'[i] + replied'[i]
      BY KnownBecomes
    <3>3. /\ OnTheWay(i) \in Nat /\ Refusing(i) \in {0, 1} /\ Outstanding(i) \in {0, 1}
          /\ answering[i] \in Nat /\ replied[i] \in Nat /\ One(j = i) \in {0, 1}
      BY <1>0, KnownIs, Counted
    <3> QED
      BY <2>1, <2>2, <2>4, <3>1, <3>2, <3>3
  <2>6. CASE j = i
    BY <2>3, <2>5, <2>6 DEF Accounted, One
  <2>7. CASE j # i
    <3>1. Known(i) \in Nat /\ asked[i] \in Nat
      BY <1>0, KnownIs
    <3> QED
      BY <2>3, <2>5, <2>7, <3>1 DEF Accounted, One
  <2> QED
    BY <2>6, <2>7
<1> QED
  BY <1>3, <1>4, <1>5, <1>6, <1>7 DEF ProcessStep

\* The reader moves a request from the pipe to the outstanding ones or refuses it.
LEMMA ReaderAccounts ==
  ASSUME Typed, ReaderStep, NEW i \in AskId
  PROVE  Accounted(i)
<1> USE DEF vars, calls, approvals, stream, life
<1>0. TypeOK /\ IdsAreKnown
  BY DEF Typed
<1>1. Known(i) = OnTheWay(i) + Refusing(i) + Outstanding(i) + answering[i] + replied[i]
  BY <1>0, KnownIs
<1>2. Known(i)' = OnTheWay(i)' + Refusing(i)' + Outstanding(i)' + answering'[i] + replied'[i]
  BY KnownBecomes
<1>3. /\ OnTheWay(i) \in Nat /\ Refusing(i) \in {0, 1} /\ Outstanding(i) \in {0, 1}
      /\ answering[i] \in Nat /\ replied[i] \in Nat /\ asked[i] \in Nat
  BY <1>0, KnownIs
<1>4. CASE Read
  <2> DEFINE line == Head(stdout)
             ask == line.kind \in {"ask", "unknown"} /\ line.id = i
  <2>1. /\ reader.pc = "reading" /\ stdout # <<>> /\ stdout' = Tail(stdout)
        /\ UNCHANGED <<answering, replied, asked>>
    BY <1>4 DEF Read
  <2>2. OnTheWay(i) = OnTheWay(i)' + One(ask)
    BY <1>0, <2>1, LinesTaken DEF OnTheWay
  <2>3. OnTheWay(i)' \in Int
    <3>1. stdout' \in Seq(Line)
      BY <1>0, <2>1, Taking
    <3>2. Len(stdout') \in Nat /\ DOMAIN stdout' = 1..Len(stdout')
      BY <3>1, LenProperties
    <3> DEFINE T == {n \in DOMAIN stdout' : stdout'[n].kind \in {"ask", "unknown"} /\ stdout'[n].id = i}
    <3>3. T \in SUBSET (1..Len(stdout'))
      BY <3>2
    <3>4. Cardinality(T) \in Nat
      BY <3>2, <3>3, CountShifted
    <3> QED
      BY <3>4 DEF OnTheWay, Lines
  <2>4. Refusing(i) = 0
    BY <2>1 DEF Refusing, One
  <2>5. Refusing(i)' + Outstanding(i)' = Outstanding(i) + One(ask)
    <3> HIDE DEF line
    <3>1. CASE ReadNote(line) \/ ReadResponse(line) \/ ReadInvalid(line) \/ ReadLong(line)
      <4>1. line.kind \notin {"ask", "unknown"} /\ reader'.pc # "refusing" /\ requests' = requests
        BY <3>1 DEF ReadNote, ReadResponse, ReadInvalid, ReadLong, Reading, StopsReading
      <4>2. One(ask) = 0 /\ Refusing(i)' = 0 /\ Outstanding(i)' = Outstanding(i)
        BY <4>1 DEF One, Refusing, Outstanding
      <4> QED
        BY <1>3, <4>2
    <3>2. CASE ReadAsk(line)
      <4>1. line.kind = "ask" /\ Admit(line.id)
        BY <3>2 DEF ReadAsk
      <4>2. CASE line.id \notin requests
        <5>1. reader'.pc # "refusing" /\ requests' = requests \cup {line.id}
          BY <4>1, <4>2 DEF Admit
        <5>2. Refusing(i)' = 0
          BY <5>1 DEF Refusing, One
        <5>3. Outstanding(i)' = Outstanding(i) + One(ask)
          BY <4>1, <4>2, <5>1 DEF Outstanding, One
        <5>4. One(ask) \in {0, 1}
          BY Counted
        <5> HIDE DEF ask
        <5> QED
          BY <1>3, <5>2, <5>3, <5>4
      <4>3. CASE line.id \in requests
        <5>1. reader' = [pc |-> "refusing", id |-> line.id] /\ requests' = requests
          BY <4>1, <4>3 DEF Admit
        <5>2. Refusing(i)' = One(ask) /\ Outstanding(i)' = Outstanding(i)
          BY <4>1, <5>1 DEF Refusing, Outstanding, One
        <5>3. One(ask) \in {0, 1}
          BY Counted
        <5> QED
          BY <1>3, <5>2, <5>3
      <4> QED
        BY <4>2, <4>3
    <3>3. CASE ReadUnknownAsk(line)
      <4>1. reader' = [pc |-> "refusing", id |-> line.id] /\ requests' = requests /\ line.kind = "unknown"
        BY <3>3 DEF ReadUnknownAsk
      <4>2. Refusing(i)' = One(ask) /\ Outstanding(i)' = Outstanding(i)
        BY <4>1 DEF Refusing, Outstanding, One
      <4>3. One(ask) \in {0, 1}
        BY Counted
      <4> QED
        BY <1>3, <4>2, <4>3
    <3> QED
      BY <1>4, <3>1, <3>2, <3>3 DEF Read, line
  <2>6. Refusing(i)' \in {0, 1} /\ Outstanding(i)' \in {0, 1} /\ One(ask) \in {0, 1}
    BY Counted DEF Refusing, Outstanding
  <2>7. Known(i)' = Known(i)
    <3> HIDE DEF ask
    <3> QED
      BY <1>1, <1>2, <1>3, <2>1, <2>2, <2>3, <2>4, <2>5, <2>6
  <2> QED
    BY <2>1, <2>7 DEF Accounted
<1>5. CASE ReadEnd \/ Respond
  <2>1. /\ UNCHANGED <<stdout, requests, answering, replied, asked>>
        /\ reader.pc # "refusing" /\ reader'.pc # "refusing"
    BY <1>5 DEF ReadEnd, Respond, StopsReading, Reading
  <2>2. OnTheWay(i)' = OnTheWay(i) /\ Refusing(i)' = Refusing(i)
    BY <2>1 DEF OnTheWay, Lines, Refusing, One
  <2> QED
    BY <1>0, <2>1, <2>2, RequestUntouched
<1>6. CASE Refuse
  <2>1. /\ UNCHANGED <<stdout, requests, answering, asked>>
        /\ reader.pc = "refusing" /\ reader'.pc = "reading"
        /\ replied' = [replied EXCEPT ![reader.id] = @ + 1]
    BY <1>6 DEF Refuse, Reading
  <2>2. OnTheWay(i)' = OnTheWay(i) /\ Outstanding(i)' = Outstanding(i) /\ Refusing(i)' = 0
    BY <2>1 DEF OnTheWay, Lines, Outstanding, Refusing, One
  <2>3. Refusing(i) = One(reader.id = i) /\ One(reader.id = i) \in {0, 1}
    BY <2>1 DEF Refusing, One
  <2>4. replied'[i] = replied[i] + One(reader.id = i)
    BY <1>0, <2>1 DEF One, TypeOK
  <2>5. Known(i)' = Known(i)
    BY <1>1, <1>2, <1>3, <2>1, <2>2, <2>3, <2>4
  <2> QED
    BY <2>1, <2>5 DEF Accounted
<1>7. CASE RefuseFails
  <2>1. /\ UNCHANGED <<stdout, requests, answering, replied, asked>> /\ reader'.pc = "stopped"
        /\ Broken'
    BY <1>0, <1>7 DEF RefuseFails, StopsReading, Terminate, Broken, TypeOK
  <2>2. OnTheWay(i)' = OnTheWay(i) /\ Outstanding(i)' = Outstanding(i) /\ Refusing(i)' = 0
    BY <2>1 DEF OnTheWay, Lines, Outstanding, Refusing, One
  <2>3. Known(i)' \in Int /\ Known(i)' <= Known(i)
    BY <1>1, <1>2, <1>3, <2>1, <2>2
  <2> QED
    BY <2>1, <2>3 DEF Accounted
<1> QED
  BY <1>4, <1>5, <1>6, <1>7 DEF ReaderStep

\* An answer is taken off the outstanding requests and written, or cannot be written.
LEMMA ApprovalsAccount ==
  ASSUME Typed, NEW j \in AskId, ApprovalStep(j), NEW i \in AskId
  PROVE  Accounted(i)
<1> USE DEF vars, calls, approvals, stream, life
<1>0. TypeOK
  BY DEF Typed
<1>1. Known(i) = OnTheWay(i) + Refusing(i) + Outstanding(i) + answering[i] + replied[i]
  BY <1>0, KnownIs
<1>2. Known(i)' = OnTheWay(i)' + Refusing(i)' + Outstanding(i)' + answering'[i] + replied'[i]
  BY KnownBecomes
<1>3. /\ OnTheWay(i) \in Nat /\ Refusing(i) \in {0, 1} /\ Outstanding(i) \in {0, 1}
      /\ answering[i] \in Nat /\ replied[i] \in Nat /\ asked[i] \in Nat
  BY <1>0, KnownIs
<1>4. OnTheWay(i)' = OnTheWay(i) /\ Refusing(i)' = Refusing(i) /\ UNCHANGED asked
  BY DEF ApprovalStep, RespondApproval, WriteApproval, WriteApprovalFails, OnTheWay, Lines, Refusing
<1>5. CASE RespondApproval(j)
  <2>1. requests' = requests \ {j} /\ replied' = replied
        /\ answering' = IF j \in requests THEN [answering EXCEPT ![j] = @ + 1] ELSE answering
    BY <1>5 DEF RespondApproval, Withdrawn
  <2>2. Outstanding(i)' + answering'[i] = Outstanding(i) + answering[i]
    <3>1. CASE j = i /\ j \in requests
      <4>1. Outstanding(i) = 1 /\ Outstanding(i)' = 0
        BY <2>1, <3>1 DEF Outstanding, One
      <4>2. answering'[i] = answering[i] + 1
        BY <1>0, <2>1, <3>1 DEF TypeOK
      <4> QED
        BY <1>3, <4>1, <4>2
    <3>2. CASE ~(j = i /\ j \in requests)
      <4>1. Outstanding(i)' = Outstanding(i)
        BY <2>1, <3>2 DEF Outstanding, One
      <4>2. answering'[i] = answering[i]
        BY <1>0, <2>1, <3>2 DEF TypeOK
      <4> QED
        BY <4>1, <4>2
    <3> QED
      BY <3>1, <3>2
  <2>3. Outstanding(i)' \in {0, 1} /\ answering'[i] \in Int
    BY <1>0, <1>3, <2>1, Counted DEF Outstanding, TypeOK
  <2>4. Known(i)' = Known(i)
    BY <1>1, <1>2, <1>3, <1>4, <2>1, <2>2, <2>3
  <2> QED
    BY <1>4, <2>4 DEF Accounted
<1>6. CASE WriteApproval(j)
  <2>1. /\ Outstanding(i)' = Outstanding(i) /\ answering' = [answering EXCEPT ![j] = @ - 1]
        /\ replied' = [replied EXCEPT ![j] = @ + 1]
    BY <1>6 DEF WriteApproval, Outstanding
  <2>2. answering'[i] = answering[i] - One(j = i) /\ replied'[i] = replied[i] + One(j = i)
    BY <1>0, <2>1 DEF One, TypeOK
  <2>3. One(j = i) \in {0, 1}
    BY Counted
  <2>4. Known(i)' = Known(i)
    BY <1>1, <1>2, <1>3, <1>4, <2>1, <2>2, <2>3
  <2> QED
    BY <1>4, <2>4 DEF Accounted
<1>7. CASE WriteApprovalFails(j)
  <2>1. /\ Outstanding(i)' = Outstanding(i) /\ answering' = [answering EXCEPT ![j] = @ - 1]
        /\ replied' = replied /\ Broken'
    BY <1>0, <1>7 DEF WriteApprovalFails, Terminate, Outstanding, Broken, TypeOK
  <2>2. answering'[i] = answering[i] - One(j = i)
    BY <1>0, <2>1 DEF One, TypeOK
  <2>3. One(j = i) \in {0, 1}
    BY Counted
  <2>4. Known(i)' \in Int /\ Known(i)' <= Known(i)
    BY <1>1, <1>2, <1>3, <1>4, <2>1, <2>2, <2>3
  <2> QED
    BY <1>4, <2>1, <2>4 DEF Accounted
<1> QED
  BY <1>5, <1>6, <1>7 DEF ApprovalStep

\* Whoever cannot write once never can again.
LEMMA BrokenStays ==
  ASSUME TypeOK, [Next]_vars, Broken
  PROVE  Broken'
<1> USE DEF vars, calls, approvals, stream, life
<1>0. process \in [running: BOOLEAN, seen: SUBSET CallId]
  BY DEF TypeOK
<1>1. ASSUME done => done', closed \subseteq closed', ~process.running => ~process'.running
      PROVE  Broken'
  BY <1>1 DEF Broken
<1>2. ASSUME Terminate, done => done' PROVE Broken'
  BY <1>0, <1>2 DEF Terminate, Broken
<1>3. CASE ProcessStep
  <2>1. UNCHANGED <<done, closed>>
    BY <1>3 DEF ProcessStep, ProcessReads, ProcessAnswers, ProcessNotifies, ProcessAsks,
       ProcessSendsNonsense, ProcessDies, ProcessEnds
  <2>2. ~process.running => ~process'.running
    BY <1>0, <1>3 DEF ProcessStep, ProcessReads, ProcessAnswers, ProcessNotifies, ProcessAsks,
       ProcessSendsNonsense, ProcessDies, ProcessEnds, Sends
  <2> QED
    BY <1>1, <2>1, <2>2
<1>4. CASE Begin \/ \E c \in CallId : CallStep(c) \/ Expire(c)
  <2>1. \/ UNCHANGED <<done, closed, process>>
        \/ Terminate /\ UNCHANGED done
    BY <1>4 DEF Begin, CallStep, WriteCall, WriteCallFails, ReceiveResponse, ReceiveDone, Expire
  <2> QED
    BY <1>1, <1>2, <2>1
<1>5. CASE ReaderStep
  <2>1. \/ UNCHANGED <<done, closed, process>>
        \/ Terminate /\ UNCHANGED done
    BY <1>5 DEF ReaderStep, Read, ReadNote, ReadResponse, ReadAsk, ReadUnknownAsk, ReadInvalid,
       ReadLong, ReadEnd, Respond, Refuse, RefuseFails
  <2> QED
    BY <1>1, <1>2, <2>1
<1>6. CASE EventRelayStep \/ AskRelayStep
  <2>1. UNCHANGED <<done, closed, process>>
    BY <1>6 DEF EventRelayStep, RelayTakesNote, RelayDeliversNote, EventRelayEnds,
       AskRelayStep, RelayTakesAsk, RelayDeliversAsk, AskRelayEnds
  <2> QED
    BY <1>1, <2>1
<1>7. CASE \E i \in AskId : ApprovalStep(i)
  <2>1. \/ UNCHANGED <<done, closed, process>>
        \/ Terminate /\ UNCHANGED done
    BY <1>7 DEF ApprovalStep, RespondApproval, WriteApproval, WriteApprovalFails
  <2> QED
    BY <1>1, <1>2, <2>1
<1>8. CASE WaitForProcess \/ Shutdown \/ ShutdownExpires
  <2>1. \/ UNCHANGED <<closed, process>> /\ done'
        \/ UNCHANGED <<done, process>> /\ closed \subseteq closed'
        \/ Terminate /\ UNCHANGED done
    BY <1>8 DEF WaitForProcess, Shutdown, ShutdownExpires
  <2> QED
    BY <1>1, <1>2, <2>1
<1>9. CASE UNCHANGED vars
  BY <1>1, <1>9
<1> QED
  BY <1>3, <1>4, <1>5, <1>6, <1>7, <1>8, <1>9, Zenon DEF Next, ClientStep

\* Every step keeps the account.
LEMMA StepsAccount == Typed /\ EveryRequestIsAccountedFor /\ [Next]_vars => EveryRequestIsAccountedFor'
<1> SUFFICES ASSUME Typed, EveryRequestIsAccountedFor, [Next]_vars, NEW i \in AskId
             PROVE  Known(i)' <= asked'[i] /\ (~Broken' => Known(i)' = asked'[i])
  BY DEF EveryRequestIsAccountedFor
<1> USE DEF vars, calls, approvals, stream, life
<1>0. TypeOK
  BY DEF Typed
<1>1. ASSUME UNCHANGED <<stdout, requests, answering, replied, asked>>,
             UNCHANGED reader \/ (reader.pc # "refusing" /\ reader'.pc # "refusing")
      PROVE  Accounted(i)
  <2>1. OnTheWay(i)' = OnTheWay(i)
    BY <1>1 DEF OnTheWay, Lines
  <2>2. Refusing(i)' = Refusing(i)
    BY <1>1 DEF Refusing, One
  <2> QED
    BY <1>0, <1>1, <2>1, <2>2, RequestUntouched
<1>2. ASSUME Begin \/ \E c \in CallId : CallStep(c) \/ Expire(c) PROVE Accounted(i)
  BY <1>1, <1>2 DEF Begin, CallStep, WriteCall, WriteCallFails, ReceiveResponse, ReceiveDone, Expire
<1>3. ASSUME EventRelayStep \/ AskRelayStep PROVE Accounted(i)
  BY <1>1, <1>3 DEF EventRelayStep, RelayTakesNote, RelayDeliversNote, EventRelayEnds,
     AskRelayStep, RelayTakesAsk, RelayDeliversAsk, AskRelayEnds, Reading
<1>4. ASSUME WaitForProcess \/ Shutdown \/ ShutdownExpires PROVE Accounted(i)
  BY <1>1, <1>4 DEF WaitForProcess, Shutdown, ShutdownExpires
<1>5. ASSUME UNCHANGED vars PROVE Accounted(i)
  BY <1>1, <1>5
<1>6. Accounted(i)
  <2>1. CASE ProcessStep
    BY <2>1, ProcessAccounts
  <2>2. CASE ReaderStep
    BY <2>2, ReaderAccounts
  <2>3. CASE \E j \in AskId : ApprovalStep(j)
    BY <2>3, ApprovalsAccount
  <2> QED
    BY <1>2, <1>3, <1>4, <1>5, <2>1, <2>2, <2>3, Zenon DEF Next, ClientStep
<1>7. ~Broken' => ~Broken
  BY <1>0, BrokenStays
<1>8. Known(i) <= asked[i] /\ (~Broken => Known(i) = asked[i])
  BY DEF EveryRequestIsAccountedFor
<1>9. Known(i) \in Nat /\ asked[i] \in Nat
  BY <1>0, KnownIs
<1>10. CASE Known(i)' = Known(i) /\ asked'[i] = asked[i]
  BY <1>7, <1>8, <1>9, <1>10
<1>11. CASE Known(i)' = Known(i) + 1 /\ asked'[i] = asked[i] + 1
  BY <1>7, <1>8, <1>9, <1>11
<1>12. CASE Broken' /\ Known(i)' \in Int /\ Known(i)' <= Known(i) /\ asked'[i] = asked[i]
  BY <1>8, <1>9, <1>12
<1> QED
  BY <1>6, <1>10, <1>11, <1>12 DEF Accounted

-----------------------------------------------------------------------------
(* The theorems.                                                           *)

\* The client begins with empty tables, pipes and queues.
LEMMA InitInv == Init => Inv
<1> SUFFICES ASSUME Init PROVE Inv
  OBVIOUS
<1>1. /\ call = <<>> /\ stdin = <<>> /\ stdout = <<>> /\ consumed = <<>> /\ noted = 0
      /\ reader = [pc |-> "reading", id |-> 0]
      /\ events = [queue |-> <<>>, input |-> TRUE, open |-> TRUE]
      /\ asks = [queue |-> <<>>, input |-> TRUE, open |-> TRUE]
  BY DEF Init, Reading, Listening
<1>2. /\ \A S : <<>> \in Seq(S)
      /\ Len(<<>>) = 0 /\ Len(stdin) = 0 /\ Len(stdout) = 0 /\ Len(consumed) = 0
      /\ Len(events.queue) = 0 /\ Len(asks.queue) = 0
  BY <1>1, EmptySeq
<1>3. events \in Relay /\ asks \in Relay /\ reader \in Reader
  BY <1>1, <1>2 DEF Relay, Reader
<1>4. TypeOK
  <2>1. call \in Seq(Call) /\ stdin \in Seq(Request) /\ stdout \in Seq(Line) /\ consumed \in Seq(Nat)
    BY <1>1, <1>2
  <2>2. Len(stdin) <= Pipe /\ Len(stdout) <= Pipe
    BY <1>2, AppServerAssumption
  <2>3. None \in [AskId -> Nat]
    BY DEF None
  <2>4. process \in [running: BOOLEAN, seen: SUBSET CallId]
    BY DEF Init
  <2> QED
    <3>1. /\ pending \subseteq CallId /\ slot \subseteq CallId /\ requests \subseteq AskId
          /\ closed \subseteq {"stdin", "stdout"} /\ done \in BOOLEAN
          /\ noted \in Nat /\ faults \in Nat /\ bound \in Scenario
      BY DEF Init
    <3>2. /\ handling \in [AskId -> Nat] /\ answering \in [AskId -> Nat]
          /\ asked \in [AskId -> Nat] /\ replied \in [AskId -> Nat]
      BY <2>3 DEF Init
    <3> QED
      BY <1>3, <2>1, <2>2, <2>4, <3>1, <3>2, Zenon DEF TypeOK
<1>5. IdsAreKnown
  BY <1>1, <1>2 DEF IdsAreKnown
<1>6. ReaderLives
  BY <1>1 DEF Init, ReaderLives
<1>7. Got = 0 /\ Passed = 0
  BY <1>1, <1>2 DEF Got, Passed
<1>8. TakenInOrder /\ RestUnderWay
  BY <1>1, <1>2, <1>7 DEF TakenInOrder, RestUnderWay
<1>9. EveryRequestIsAccountedFor
  <2> SUFFICES ASSUME NEW i \in AskId PROVE Known(i) = 0 /\ asked[i] = 0
    BY DEF EveryRequestIsAccountedFor
  <2>1. LinesOf({"ask", "unknown"}, i) = {}
    BY <1>1, <1>2 DEF LinesOf
  <2>2. OnTheWay(i) = 0
    BY <2>1, FS_EmptySet DEF OnTheWay, Lines, LinesOf
  <2>3. Refusing(i) = 0 /\ Outstanding(i) = 0 /\ answering[i] = 0 /\ replied[i] = 0 /\ asked[i] = 0
    BY <1>1 DEF Init, None, Refusing, Outstanding, One
  <2> QED
    BY <1>4, <2>2, <2>3, KnownIs
<1> QED
  BY <1>4, <1>5, <1>6, <1>8, <1>9 DEF Inv, Typed

\* The inductive invariant.
THEOREM Invariance == Spec => []Inv
<1>1. Inv /\ [Next]_vars => Inv'
  BY StepsTyped, StepsKeepReaderLives, StepsKeepStream, StepsAccount DEF Inv, Typed
<1> QED
  BY InitInv, <1>1, PTL DEF Spec

\* Every id in a table, a channel or a pipe is that of a call that was made, and no pipe
\* holds more than it can (Client.call, readLoop, writeJSON).
THEOREM TypeCorrect == Spec => []TypeOK
<1>1. Inv => TypeOK
  BY DEF Inv, Typed
<1> QED
  BY Invariance, <1>1, PTL

\* The reader never hands a message to a relay that has ended: done is closed only after
\* it has stopped (Client.waitForProcess).
THEOREM ReaderAlwaysHeard == Spec => []ReaderIsHeard
<1>1. Inv => ReaderIsHeard
  BY DEF Inv, ReaderLives, ReaderIsHeard
<1> QED
  BY Invariance, <1>1, PTL

\* No approval request gets two replies, whatever ids the process uses again, and none is lost
\* while it can be written to (readLoop, RespondApproval).
THEOREM RequestsAccountedFor == Spec => []EveryRequestIsAccountedFor
<1>1. Inv => EveryRequestIsAccountedFor
  BY DEF Inv
<1> QED
  BY Invariance, <1>1, PTL

\* The notifications the worker has consumed are those that were sent, once each, in order
\* and without a gap: the client implements Stream (readLoop, relayNotifications).
THEOREM NotesArriveInOrder == Spec => NotesAreAStream
<1> DEFINE line(k) == [n \in 1..k |-> n]
<1>0. \A k \in Nat : line(k) \in Seq(Nat) /\ Len(line(k)) = k
  OBVIOUS
<1>1. Init => Notes!Init
  <2>1. line(0) = <<>>
    OBVIOUS
  <2> QED
    BY <2>1 DEF Init, Notes!Init
<1>2. Inv /\ Inv' /\ [Next]_vars => [Notes!Send \/ Notes!Receive]_<<line(noted), consumed>>
  <2> SUFFICES ASSUME Inv, Inv', [Next]_vars
               PROVE  \/ Notes!Send \/ Notes!Receive
                      \/ UNCHANGED <<line(noted), consumed>>
    OBVIOUS
  <2>0. TypeOK /\ TakenInOrder /\ TakenInOrder' /\ noted \in Nat
    BY DEF Inv, Typed, TypeOK
  <2>1. CASE UNCHANGED <<noted, consumed>>
    BY <2>1
  <2>2. CASE ProcessNotifies
    <3>1. noted' = noted + 1 /\ consumed' = consumed
      BY <2>2 DEF ProcessNotifies
    <3>2. SubSeq(line(noted + 1), 1, noted) = line(noted)
      BY <1>0, <2>0
    <3> QED
      BY <1>0, <2>0, <3>1, <3>2 DEF Notes!Send
  <2>3. CASE RelayDeliversNote
    <3>1. noted' = noted /\ consumed' = Append(consumed, Head(events.queue)) /\ events.queue # <<>>
      BY <2>3 DEF RelayDeliversNote, Oldest
    <3>2. consumed \in Seq(Nat) /\ Len(consumed) \in Nat /\ events.queue \in Seq(Nat)
      BY <2>0, Counts DEF TypeOK
    <3>3. Head(events.queue) = Len(consumed) + 1
      BY <2>0, <3>1, <3>2, Shifted DEF TakenInOrder
    <3>4. Len(consumed) + 1 <= noted
      <4>1. Len(events.queue) \in Nat \ {0}
        BY <3>1, <3>2, Shifted
      <4> QED
        BY <2>0, <3>2, <4>1 DEF TakenInOrder, Got, Passed
    <3>5. line(noted)[Len(consumed) + 1] = Len(consumed) + 1
      BY <2>0, <3>2, <3>4
    <3> QED
      BY <1>0, <2>0, <3>1, <3>2, <3>3, <3>4, <3>5 DEF Notes!Receive
  <2>4. \/ ProcessNotifies \/ RelayDeliversNote \/ UNCHANGED <<noted, consumed>>
    <3> USE DEF vars, calls, approvals, stream, life
    <3>1. CASE ProcessStep
      BY <3>1 DEF ProcessStep, ProcessReads, ProcessAnswers, ProcessAsks, ProcessSendsNonsense,
         ProcessDies, ProcessEnds
    <3>2. CASE Begin \/ \E c \in CallId : CallStep(c) \/ Expire(c)
      BY <3>2 DEF Begin, CallStep, WriteCall, WriteCallFails, ReceiveResponse, ReceiveDone, Expire
    <3>3. CASE ReaderStep
      BY <3>3 DEF ReaderStep, Read, ReadEnd, Respond, Refuse, RefuseFails
    <3>4. CASE EventRelayStep \/ AskRelayStep
      BY <3>4 DEF EventRelayStep, RelayTakesNote, EventRelayEnds,
         AskRelayStep, RelayTakesAsk, RelayDeliversAsk, AskRelayEnds
    <3>5. CASE \E i \in AskId : ApprovalStep(i)
      BY <3>5 DEF ApprovalStep, RespondApproval, WriteApproval, WriteApprovalFails
    <3>6. CASE WaitForProcess \/ Shutdown \/ ShutdownExpires
      BY <3>6 DEF WaitForProcess, Shutdown, ShutdownExpires
    <3>7. CASE UNCHANGED vars
      BY <3>7
    <3> QED
      BY <3>1, <3>2, <3>3, <3>4, <3>5, <3>6, <3>7, Zenon DEF Next, ClientStep
  <2> QED
    BY <2>1, <2>2, <2>3, <2>4
<1> QED
  BY Invariance, <1>1, <1>2, PTL DEF Spec, NotesAreAStream, Notes!Spec
=============================================================================
