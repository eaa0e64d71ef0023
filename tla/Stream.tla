------------------------------- MODULE Stream -------------------------------
(***************************************************************************)
(* What the App Server client promises about the notifications it passes   *)
(* on, whatever reader, relay, calls and approvals do in between: they     *)
(* arrive once each, in the order they were sent, and none is skipped.     *)
(***************************************************************************)
EXTENDS Naturals, Sequences

VARIABLES sent, received

Init == sent = <<>> /\ received = <<>>

Send ==
  /\ Len(sent') = Len(sent) + 1 /\ SubSeq(sent', 1, Len(sent)) = sent
  /\ UNCHANGED received

Receive ==
  /\ Len(received) < Len(sent)
  /\ received' = Append(received, sent[Len(received) + 1])
  /\ UNCHANGED sent

Spec == Init /\ [][Send \/ Receive]_<<sent, received>>
=============================================================================
