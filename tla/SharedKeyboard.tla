--------------------------- MODULE SharedKeyboard ---------------------------
(***************************************************************************)
(* What the input bridge promises its clients, independently of how it     *)
(* counts: several clients share one desktop keyboard (and one set of      *)
(* pointer buttons).  A line is down exactly while some client holds it.   *)
(* A call to the desktop may fail; the line it was about is then suspect   *)
(* and nothing is promised about it until the desktop accepts a release.   *)
(***************************************************************************)
CONSTANTS Clients, Lines

VARIABLES
    holders,    \* for each line the clients that hold it down
    down,       \* the lines the desktop considers pressed
    suspect     \* lines whose last failed call has not been repaired

skVars == <<holders, down, suspect>>

SKInit ==
    /\ holders = [l \in Lines |-> {}]
    /\ down = {}
    /\ suspect = {}

(* A client presses a line (again).                                        *)
Hold(k, l) ==
    /\ holders' = [holders EXCEPT ![l] = @ \cup {k}]
    /\ down' = down \cup {l}
    /\ UNCHANGED suspect

(* A client that is not the last holder lets a line go: it stays down.     *)
LetGo(k, l) ==
    /\ k \in holders[l]
    /\ holders[l] # {k}
    /\ holders' = [holders EXCEPT ![l] = @ \ {k}]
    /\ UNCHANGED <<down, suspect>>

(* The last holder lets a line go: the desktop lifts it.                   *)
Lift(k, l) ==
    /\ holders[l] = {k}
    /\ holders' = [holders EXCEPT ![l] = {}]
    /\ down' = down \ {l}
    /\ suspect' = suspect \ {l}

(* The desktop rejects a call.  It may have acted on it all the same: on a *)
(* press whoever asked, on a release only if the last holder asked.        *)
Fault(k, l) ==
    /\ \/ down' \in {down, down \cup {l}}
       \/ holders[l] = {k} /\ down' = down \ {l}
    /\ suspect' = suspect \cup {l}
    /\ UNCHANGED holders

(* A client goes away.  What it still holds, it holds because releasing it *)
(* failed; nobody holds it on its behalf afterwards.                       *)
Leave(k) ==
    /\ \A l \in Lines : k \in holders[l] => l \in suspect
    /\ holders' = [l \in Lines |-> holders[l] \ {k}]
    /\ UNCHANGED <<down, suspect>>

SKNext ==
    \E k \in Clients :
        \/ \E l \in Lines : Hold(k, l) \/ LetGo(k, l) \/ Lift(k, l) \/ Fault(k, l)
        \/ Leave(k)

SKSpec == SKInit /\ [][SKNext]_skVars
=============================================================================
