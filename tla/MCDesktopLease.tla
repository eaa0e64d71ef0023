-------------------------- MODULE MCDesktopLease --------------------------
(* Instances of DesktopLease for TLC.                                      *)
EXTENDS DesktopLease
=============================================================================
