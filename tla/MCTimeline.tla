----------------------------- MODULE MCTimeline -----------------------------
(* Instances of Timeline for TLC: the panel next to a chat, the panel next  *)
(* to other browsers, and the writers of the timeline without a panel.      *)
EXTENDS Timeline

Quiet == [source |-> {}, watched |-> TRUE, run |-> 0, event |-> 0, task |-> 0,
          reset |-> 0, select |-> 0, fault |-> 0, crash |-> 0]

Scenarios == {
  [Quiet EXCEPT !.source = {"manual"}, !.run = 1, !.reset = 1, !.fault = 1, !.crash = 1],
  [Quiet EXCEPT !.reset = 3, !.select = 1],
  [Quiet EXCEPT !.reset = 2, !.select = 1, !.fault = 1],
  [Quiet EXCEPT !.source = Sources, !.watched = FALSE, !.run = 1, !.event = 2, !.task = 1,
                !.fault = 1, !.crash = 1],
  [Quiet EXCEPT !.source = {"schedule"}, !.watched = FALSE, !.run = 2, !.task = 1]}
=============================================================================
