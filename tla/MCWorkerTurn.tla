---------------------------- MODULE MCWorkerTurn ----------------------------
(* Instances of WorkerTurn for TLC: one run with steers, repeated after      *)
(* lost replies, restarts and the death of App Server, and two runs.        *)
EXTENDS WorkerTurn

Quiet == [run |-> 1, message |-> 0, attempt |-> 1, output |-> 0, foreign |-> 0, interrupt |-> 0,
          lost |-> 0, crash |-> 0, death |-> 0]

Scenarios == {
  [Quiet EXCEPT !.message = 1, !.attempt = 2, !.output = 1, !.lost = 1, !.crash = 1],
  [Quiet EXCEPT !.message = 2, !.output = 1],
  [Quiet EXCEPT !.message = 1, !.output = 1, !.foreign = 1],
  [Quiet EXCEPT !.message = 1, !.output = 2, !.interrupt = 1],
  [Quiet EXCEPT !.message = 1, !.attempt = 2, !.death = 1],
  [Quiet EXCEPT !.run = 2, !.message = 1],
  [Quiet EXCEPT !.run = 2, !.interrupt = 1]}

Late == {[Quiet EXCEPT !.run = 2, !.interrupt = 1]}
=============================================================================
