----------------------------- MODULE MCSchedules -----------------------------
(* Instances of Schedules for TLC.                                           *)
EXTENDS Schedules

CONSTANTS a1, a2

Once(t) == [kind |-> "once", n |-> t]
Cron(n) == [kind |-> "cron", n |-> n]

Quiet == [horizon |-> 5, entered |-> {Cron(1)}, pages |-> FALSE, schedule |-> 1, edit |-> 0,
          message |-> 0, takeover |-> 0, archive |-> 0, crash |-> 0]

Scenarios == {
  [Quiet EXCEPT !.entered = {Cron(2), Once(3)}, !.edit = 2, !.crash = 1, !.message = 1],
  [Quiet EXCEPT !.entered = {Cron(2), Once(2)}, !.schedule = 2],
  [Quiet EXCEPT !.message = 1, !.takeover = 1],
  [Quiet EXCEPT !.archive = 1, !.edit = 1],
  [Quiet EXCEPT !.pages = TRUE]}

\* A cron expression that names no date.
Never == {[Quiet EXCEPT !.entered = {Cron(0)}]}
=============================================================================
