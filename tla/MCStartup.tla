------------------------------ MODULE MCStartup ------------------------------
(* An instance for TLC of Startup and of ConfigStore.  The two share no    *)
(* state, so a behaviour moves only one of them and nothing is lost; the   *)
(* configuration's is followed until a store is disturbed, after which its *)
(* properties promise nothing.                                             *)
EXTENDS Startup, ConfigStore

VARIABLE moving     \* "start" or "config"

BothInit ==
    /\ Init /\ ConfigInit
    /\ moving \in {"start", "config"}
    /\ moving = "config" => installed = {} /\ ~marker[Legacy]
BothNext ==
    /\ \/ moving = "start" /\ Next /\ UNCHANGED configVars
       \/ moving = "config" /\ ~disturbed /\ ConfigNext /\ UNCHANGED vars
    /\ UNCHANGED moving
BothSpec == BothInit /\ [][BothNext]_<<vars, configVars, moving>>
=============================================================================
