----------------------------- MODULE MCFrameRing -----------------------------
(* Instances of FrameRing for TLC.                                        *)
EXTENDS FrameRing

\* Four frames wrap the ring once; the second file need not wrap again.
MCMaxFrame == [i \in 1..MaxInode |-> IF i = 1 THEN 4 ELSE 2]
=============================================================================
