---------------------------- MODULE MCInstallation ----------------------------
(* Instances of Installation for TLC.                                      *)
EXTENDS Installation, TLC
=============================================================================
