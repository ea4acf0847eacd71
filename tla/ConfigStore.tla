----------------------------- MODULE ConfigStore -----------------------------
(* The configuration file (src/config.rs) and those who use it: setup      *)
(* records the EULA, the display commands choose a source, a session and   *)
(* its bridge take the bridge's token from it, and the session's capture   *)
(* stores every restore token the portal issues.  Each process loads the   *)
(* whole file and later writes all of what it had loaded, without a lock.  *)
EXTENDS Naturals

CONSTANTS
    Started,        \* the processes that are ever started
    MaxSecrets,     \* bound: bridge tokens generated
    MaxGrants       \* bound: restore tokens the portal issues

Users == {"setup", "display", "run", "bridge", "capture"}

ASSUME ConfigAssumption ==
    Started \subseteq Users /\ MaxSecrets \in Nat /\ MaxGrants \in Nat

VARIABLES
    file,       \* the configuration file
    stage,      \* where each process is with it
    snapshot,   \* what it has loaded or is about to store
    secrets,    \* bridge tokens generated
    grants,     \* restore tokens issued
    choice,     \* the source last chosen that no session has started with
    agreed,     \* a setup has recorded the EULA
    stale,      \* processes that loaded the file before its last store
    disturbed   \* a store was cut short or met another access (see below)

historyVars == <<choice, agreed, stale, disturbed>>
configVars == <<file, stage, snapshot, secrets, grants, historyVars>>

DisplaySources == {"monitor", "window"}

Missing == [kind |-> "missing"]
Empty == [kind |-> "empty"]         \* truncated, not written yet
Garbled == [kind |-> "garbled"]     \* one text over the end of a longer one
Default(secret) ==
    [kind |-> "config", eula |-> FALSE, secret |-> secret,
     source |-> "monitor", token |-> 0]
Unread == Default(0)

ConfigInit ==
    /\ file = Missing
    /\ stage = [p \in Users |-> "off"] /\ snapshot = [p \in Users |-> Unread]
    /\ secrets = 0 /\ grants = 0
    /\ choice = "none" /\ agreed = FALSE /\ stale = {} /\ disturbed = FALSE

Moves(p, to) == stage' = [stage EXCEPT ![p] = to]

-----------------------------------------------------------------------------
(* Config::load.  A missing file is created; an empty one is all defaults. *)

(* A bridge or capture process starts in a session.                        *)
MayLoad(p) ==
    p \in Started /\ stage[p] = "off" /\ (p \in {"bridge", "capture"} => stage["run"] = "loaded")

LoadedMutant ==
    IF file.kind = "config" THEN [file EXCEPT !.eula = FALSE] ELSE Default(secrets + 1)
Loaded == IF file.kind = "config" THEN file ELSE Default(secrets + 1)

OnceLoadedMutant == "loaded"
OnceLoaded == IF file = Missing THEN "create" ELSE "loaded"

Load(p) ==
    /\ MayLoad(p) /\ file # Garbled
    /\ file.kind # "config" => secrets < MaxSecrets
    /\ snapshot' = [snapshot EXCEPT ![p] = Loaded]
    /\ secrets' = IF file.kind = "config" THEN secrets ELSE secrets + 1
    /\ Moves(p, OnceLoaded)
    /\ choice' = IF p = "capture" THEN "none" ELSE choice
    /\ stale' = stale \ {p}
    /\ disturbed' = (disturbed \/ file = Empty)
    /\ UNCHANGED <<file, grants, agreed>>

-----------------------------------------------------------------------------
(* Config::store: the file is truncated, then written.                     *)

Truncate(p) ==
    /\ stage[p] \in {"create", "store"}
    /\ file' = Empty
    /\ Moves(p, IF stage[p] = "create" THEN "creating" ELSE "storing")
    /\ UNCHANGED <<snapshot, secrets, grants, historyVars>>

(* A text written meanwhile is only overwritten as far as this one goes.   *)
Write(p) ==
    /\ stage[p] \in {"creating", "storing"}
    /\ file' \in IF file = Empty THEN {snapshot[p]} ELSE {snapshot[p], Garbled}
    /\ Moves(p, IF stage[p] = "creating" \/ p = "capture" THEN "loaded" ELSE "off")
    /\ snapshot' = [snapshot EXCEPT ![p] = IF stage'[p] = "off" THEN Unread ELSE @]
    /\ choice' = IF p = "display" /\ stage[p] = "storing"
                   THEN snapshot[p].source ELSE choice
    /\ agreed' = (agreed \/ (p = "setup" /\ stage[p] = "storing"))
    /\ stale' = {q \in Users : stage[q] # "off"} \ {p}
    /\ disturbed' = (disturbed \/ p \in stale \/ file # Empty)
    /\ UNCHANGED <<secrets, grants>>

-----------------------------------------------------------------------------
(* What the processes change.                                              *)

Stores(p, changed) ==
    /\ stage[p] = "loaded"
    /\ snapshot' = [snapshot EXCEPT ![p] = changed]
    /\ Moves(p, "store")
    /\ UNCHANGED <<file, secrets, historyVars>>

(* setup: "config.eula_accepted = true".                                   *)
Accepts ==
    /\ ~snapshot["setup"].eula
    /\ Stores("setup", [snapshot["setup"] EXCEPT !.eula = TRUE])
    /\ UNCHANGED grants

(* uur display source and uur display backend.                             *)
Chooses(source) ==
    /\ Stores("display", [snapshot["display"] EXCEPT !.source = source, !.token = 0])
    /\ UNCHANGED grants

(* portal_session: a selection or its restoration comes with a new token.  *)
Granted ==
    /\ grants < MaxGrants /\ grants' = grants + 1
    /\ Stores("capture", [snapshot["capture"] EXCEPT !.token = grants'])

(* A process is through with the configuration, or is killed.  A session   *)
(* takes its bridge and its capture with it.                               *)
Leaves(p) ==
    LET gone == IF p = "run" THEN {"run", "bridge", "capture"} ELSE {p} IN
    /\ stage[p] # "off"
    /\ stage' = [q \in Users |-> IF q \in gone THEN "off" ELSE stage[q]]
    /\ snapshot' = [q \in Users |-> IF q \in gone THEN Unread ELSE snapshot[q]]
    /\ stale' = stale \ gone
    /\ disturbed' =
         (disturbed \/ \E q \in gone : stage[q] \in {"creating", "storing"})
    /\ UNCHANGED <<file, secrets, grants, choice, agreed>>

ConfigNext ==
    \/ \E p \in Users : Load(p) \/ Truncate(p) \/ Write(p) \/ Leaves(p)
    \/ Accepts \/ Granted
    \/ \E source \in DisplaySources : Chooses(source)

ConfigSpec == ConfigInit /\ [][ConfigNext]_configVars

-----------------------------------------------------------------------------
(* Properties.  disturbed says that a store was cut short, that it went    *)
(* over one its process had not seen, or that the file was read while it   *)
(* was empty; nothing in the code prevents any of the three.               *)

Configs ==
    [kind : {"config"}, eula : BOOLEAN, secret : 0..MaxSecrets,
     source : DisplaySources, token : 0..MaxGrants]

ConfigTypeOK ==
    /\ file \in Configs \cup {Missing, Empty, Garbled}
    /\ stage \in [Users -> {"off", "loaded", "create", "creating", "store", "storing"}]
    /\ snapshot \in [Users -> Configs]
    /\ secrets \in 0..MaxSecrets /\ grants \in 0..MaxGrants
    /\ choice \in DisplaySources \cup {"none"} /\ agreed \in BOOLEAN
    /\ stale \subseteq Users /\ disturbed \in BOOLEAN

(* A session hands the hook the token its bridge will ask for, although    *)
(* each of them loads, and if need be creates, the file by itself.         *)
SessionAgrees ==
    stage["run"] = "loaded" /\ stage["bridge"] = "loaded" /\ ~disturbed =>
        snapshot["run"].secret = snapshot["bridge"].secret

(* What a process has stored stays: the EULA remains recorded, and until   *)
(* the next session the chosen source is the one without a restore token.  *)
ChangesStay ==
    file.kind = "config" /\ ~disturbed =>
        /\ agreed => file.eula
        /\ choice # "none" => file.source = choice /\ file.token = 0

(* "Wayland capture source changed; the portal will ask for a new          *)
(* selection on the next run" (locales/en.yml): the next capture starts    *)
(* with the chosen source and without a restore token.                     *)
NextRunAsks ==
    [][stage["capture"] = "off" /\ stage'["capture"] = "loaded" /\ choice # "none" =>
         snapshot'["capture"].source = choice /\ snapshot'["capture"].token = 0]_configVars
=============================================================================
