-------------------------- MODULE MCTerminalService --------------------------
(* Instances of TerminalService for TLC.                                   *)
EXTENDS TerminalService, TLC

Symmetry == Permutations(Peers)
=============================================================================
