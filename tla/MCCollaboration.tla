-------------------------- MODULE MCCollaboration --------------------------
(* Instances of Collaboration for TLC.                                     *)
EXTENDS Collaboration, TLC

AgentSymmetry == Permutations(Agent)
=============================================================================
