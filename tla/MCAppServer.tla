---------------------------- MODULE MCAppServer ----------------------------
(* Instances of AppServer for TLC: calls, notifications and approval        *)
(* requests, with one fault or two; a long line, without a call that would *)
(* wait for an answer behind it.                                           *)
EXTENDS AppServer

Faultless == [call |-> 0, note |-> 0, ask |-> 0, fault |-> {}, faults |-> 0]
OneFault == [Faultless EXCEPT !.fault = Faults \ {"long"}, !.faults = 1]

Scenarios == {
  [OneFault EXCEPT !.call = 2, !.note = 1],
  [OneFault EXCEPT !.call = 1, !.note = 2],
  [OneFault EXCEPT !.call = 1, !.note = 1, !.ask = 2],
  [OneFault EXCEPT !.note = 1, !.ask = 3],
  [OneFault EXCEPT !.call = 2, !.faults = 2],
  [Faultless EXCEPT !.fault = {"long", "shutdown"}, !.faults = 2]}
=============================================================================
