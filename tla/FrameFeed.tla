------------------------------ MODULE FrameFeed ------------------------------
(***************************************************************************)
(* What the frame transport promises a capture call of the client: every   *)
(* picture it receives is one whole frame, at most Window - 1 frames older *)
(* than the newest complete one in the same transport file, and never      *)
(* older than the picture that file supplied before.                       *)
(***************************************************************************)
EXTENDS Integers

CONSTANTS
    Inodes,     \* transport files, one per negotiated geometry
    Parts,      \* the parts of a frame that are copied separately
    Window      \* complete frames a transport file keeps

VARIABLES
    completed,  \* how many frames each transport file has received
    shown       \* the picture of the last capture call that was fed

ffVars == <<completed, shown>>

Whole(n) == [p \in Parts |-> n]
NoPicture == [inode |-> 0, parts |-> Whole(0)]

FFInit ==
    /\ completed = [i \in Inodes |-> 0]
    /\ shown = NoPicture

Complete(i) ==
    /\ completed' = [completed EXCEPT ![i] = @ + 1]
    /\ UNCHANGED shown

Show(i, n) ==
    /\ n > 0
    /\ completed[i] - Window < n
    /\ n <= completed[i]
    /\ shown.inode = i => \A p \in Parts : shown.parts[p] <= n
    /\ shown' = [inode |-> i, parts |-> Whole(n)]
    /\ UNCHANGED completed

FFNext ==
    \E i \in Inodes : Complete(i) \/ \E n \in 1..completed[i] : Show(i, n)

FFSpec == FFInit /\ [][FFNext]_ffVars
=============================================================================
