---------------------------- MODULE AdapterDeploy ----------------------------
(* What a session start does to the client's directory (deploy_file and    *)
(* deploy_terminal_proxy of src/session.rs): an executable that an earlier *)
(* uur replaced is restored, then each executable uur replaces today is    *)
(* backed up once, if the client has it, and overwritten by uur's adapter. *)
(* A start can fail or be killed at every step; between starts the client  *)
(* updates itself.                                                         *)
EXTENDS Naturals

CONSTANTS
    Adapters,       \* conpty_bridge.exe and uuyc-mux.exe
    Legacy,         \* powershell.exe
    MaxVersion      \* bound: client releases

ASSUME DeployAssumption == Legacy \notin Adapters /\ MaxVersion \in Nat \ {0}

VARIABLES
    deploying,  \* where deploy_terminal_proxy is
    now,        \* the executable it is at
    todo,       \* the executables still to come
    target,     \* the files by their names,
    backup,     \* their .uur-original
    marker,     \* and their .uur-managed, present or not
    version,    \* the client's release
    cut,        \* backups whose copying was cut short
    bare,       \* adapters put in place where the client had no executable
    torn        \* a start ended with the original restored but still marked

deployVars == <<deploying, now, todo, target, backup, marker, version, cut, bare,
                torn>>
fileVars == <<target, backup, marker>>
logVars == <<cut, bare, torn>>

Absent == [kind |-> "absent", of |-> 0]
Official(v) == [kind |-> "official", of |-> v]
Part(v) == [kind |-> "part", of |-> v]
Adapter == [kind |-> "adapter", of |-> 0]

Names == Adapters \cup {Legacy}

(* An installed client, whose release ships all or some of the executables *)
(* uur replaces today, and whose shell an earlier uur may have replaced.   *)
DeployInit ==
    /\ deploying = "off" /\ now = Legacy /\ todo = {}
    /\ version = 1 /\ cut = {} /\ bare = {} /\ torn = FALSE
    /\ \E managed \in BOOLEAN, shipped \in SUBSET Adapters :
         /\ target = [n \in Names |-> IF n = Legacy /\ managed THEN Adapter
                                      ELSE IF n \in shipped \cup {Legacy} THEN Official(1)
                                      ELSE Absent]
         /\ backup = [n \in Names |-> IF n = Legacy /\ managed THEN Official(1)
                                                              ELSE Absent]
         /\ marker = [n \in Names |-> n = Legacy /\ managed]

At(place) == deploying = place /\ UNCHANGED version
To(place) == deploying' = place

(* The step reports an error: the session start ends.                      *)
GiveUp == To("off") /\ UNCHANGED <<now, todo>>

DeployBegins ==
    /\ At("off")
    /\ To(IF marker[Legacy] THEN "unlink" ELSE "next")
    /\ now' = Legacy /\ todo' = Adapters
    /\ UNCHANGED <<fileVars, logVars>>

-----------------------------------------------------------------------------
(* The executable of an earlier uur.                                       *)

(* Removing it may fail unnoticed.                                         *)
Unlink ==
    /\ At("unlink") /\ To("restore")
    /\ target' \in {target, [target EXCEPT ![Legacy] = Absent]}
    /\ UNCHANGED <<now, todo, backup, marker, logVars>>

RestoreMutant ==
    /\ At("restore") /\ To("unmark")
    /\ backup' = [backup EXCEPT ![Legacy] = Absent]
    /\ UNCHANGED <<now, todo, target, marker, logVars>>
Restore ==
    /\ At("restore")
    /\ IF backup[Legacy] = Absent THEN To("unmark") /\ UNCHANGED fileVars
       ELSE /\ To("unmark")
            /\ target' = [target EXCEPT ![Legacy] = backup[Legacy]]
            /\ backup' = [backup EXCEPT ![Legacy] = Absent]
            /\ UNCHANGED marker
    /\ UNCHANGED <<now, todo, logVars>>

(* Removing the marker may fail unnoticed, too.                            *)
Unmark ==
    /\ At("unmark") /\ To("next")
    /\ marker' \in {marker, [marker EXCEPT ![Legacy] = FALSE]}
    /\ torn' = (torn \/ marker'[Legacy])
    /\ UNCHANGED <<now, todo, target, backup, cut, bare>>

-----------------------------------------------------------------------------
(* Each of today's executables.                                            *)

NextAdapter ==
    /\ At("next")
    /\ IF todo = {} THEN To("done") /\ UNCHANGED <<now, todo>>
       ELSE To("backup") /\ now' \in todo /\ todo' = todo \ {now'}
    /\ UNCHANGED <<fileVars, logVars>>

NeedsBackupMutant == target[now] # Absent /\ ~marker[now]
NeedsBackup == target[now] # Absent /\ ~marker[now] /\ backup[now] = Absent

BackupBegins ==
    /\ At("backup")
    /\ IF NeedsBackup
         THEN To("copy") /\ backup' = [backup EXCEPT ![now] = Part(target[now].of)]
         ELSE To("stage") /\ UNCHANGED backup
    /\ UNCHANGED <<now, todo, target, marker, logVars>>

Copied ==
    /\ At("copy") /\ To("stage")
    /\ backup' = [backup EXCEPT ![now] = target[now]]
    /\ UNCHANGED <<now, todo, target, marker, logVars>>

(* deploy_file writes a temporary file, then renames it.                   *)
StageMutant ==
    /\ At("stage") /\ To("publish")
    /\ target' = [target EXCEPT ![now] = Part(0)]
    /\ UNCHANGED <<now, todo, backup, marker, logVars>>
Stage ==
    /\ At("stage") /\ To("publish")
    /\ UNCHANGED <<now, todo, fileVars, logVars>>

Publish ==
    /\ At("publish") /\ To("mark")
    /\ target' = [target EXCEPT ![now] = Adapter]
    /\ bare' = IF target[now] = Absent /\ backup[now] = Absent THEN bare \cup {now} ELSE bare
    /\ UNCHANGED <<now, todo, backup, marker, cut, torn>>

Mark ==
    /\ At("mark") /\ To("next")
    /\ marker' = [marker EXCEPT ![now] = TRUE]
    /\ UNCHANGED <<now, todo, target, backup, logVars>>

(* An error in a step, or the end of the process, wherever it is.          *)
DeployInterrupted ==
    /\ deploying \notin {"off", "done"} /\ GiveUp
    /\ cut' = IF deploying = "copy" THEN cut \cup {now} ELSE cut
    /\ torn' = (torn \/ deploying = "unmark")
    /\ UNCHANGED <<fileVars, version, bare>>

DeployStep ==
    \/ Unlink \/ Restore \/ Unmark
    \/ NextAdapter \/ BackupBegins \/ Copied \/ Stage \/ Publish \/ Mark
    \/ DeployInterrupted

-----------------------------------------------------------------------------
(* The client's installer puts the executables of its release in place; of *)
(* the others it leaves some and removes the rest.                         *)
ClientUpdates ==
    /\ deploying \in {"off", "done"} /\ version < MaxVersion
    /\ version' = version + 1
    /\ \E shipped, removed \in SUBSET Adapters :
         target' = [n \in Names |-> IF n \in shipped THEN Official(version')
                                    ELSE IF n \in removed THEN Absent
                                    ELSE target[n]]
    /\ UNCHANGED <<deploying, now, todo, backup, marker, logVars>>

DeployEnds ==
    /\ At("done") /\ GiveUp
    /\ UNCHANGED <<fileVars, logVars>>

DeployNext == DeployBegins \/ DeployStep \/ ClientUpdates \/ DeployEnds
DeploySpec == DeployInit /\ [][DeployNext]_deployVars

-----------------------------------------------------------------------------
(* Properties                                                              *)

Versions == 1..MaxVersion
Files ==
    {Absent, Adapter} \cup {Official(v) : v \in Versions} \cup {Part(v) : v \in 0..MaxVersion}

DeployTypeOK ==
    /\ deploying \in {"off", "unlink", "restore", "unmark", "next", "backup",
                      "copy", "stage", "publish", "mark", "done"}
    /\ now \in Names /\ todo \subseteq Adapters
    /\ target \in [Names -> Files] /\ backup \in [Names -> Files]
    /\ marker \in [Names -> BOOLEAN]
    /\ version \in Versions /\ torn \in BOOLEAN
    /\ cut \subseteq Adapters /\ bare \subseteq Adapters

(* "A temporary file in the destination directory keeps the replacement    *)
(* atomic": whatever cut a start short, an executable the client finds is  *)
(* whole.                                                                  *)
ExecutablesAreWhole ==
    \A n \in Adapters : target[n].kind \in {"official", "adapter", "absent"}

(* "The official binary is retained for recovery": where the adapter is in *)
(* place the backup is an official binary, unless its copying was cut      *)
(* short or the adapter once went where the client had no executable.      *)
(* There nothing is backed up, the marker is written all the same, and a   *)
(* later release's own executable is overwritten without a backup.  The    *)
(* backup need not be of the release that was replaced last.               *)
OriginalRetained ==
    \A n \in Adapters :
        target[n] = Adapter /\ n \notin cut \cup bare => backup[n].kind = "official"

(* The executable an earlier uur replaced comes back: its original is in   *)
(* place or in the backup, unless a start ended between restoring it and   *)
(* removing the marker.                                                    *)
LegacyOriginalKept ==
    ~torn => Official(1) \in {target[Legacy], backup[Legacy]}
=============================================================================
