----------------------------- MODULE Installation -----------------------------
(* Setup (src/wine.rs) and uninstall (src/uninstall.rs) of the managed     *)
(* prefix and of a source installation, beside the session that uses them. *)
(* All three take the session lock (src/session.rs), which is a lock on    *)
(* the file they have found at its path: a purge removes that file, with   *)
(* the state, and the next one to come creates another.  Every step may    *)
(* fail and every process may be killed; the next one finds what it left.  *)
EXTENDS Naturals, FiniteSets

CONSTANTS
    MayPurge,       \* whether uninstall may be asked to purge
    MaxLockFiles    \* bound: lock files created

ASSUME InstallationAssumption == MayPurge \in BOOLEAN /\ MaxLockFiles \in Nat

Procs == {"setup", "run", "uninstall"}

(* What uninstall may remove: the files of a source installation, the menu *)
(* entry standing for its libraries too, and what a purge takes besides.   *)
Sources == {"desktop", "bin", "receipt"}
Trees == {"data", "config", "state"}

VARIABLES
    at,         \* where each process is
    opened,     \* the lock file it has opened and not locked yet, 0 for none
    lock,       \* the lock file it has locked, 0 for none
    lockFile,   \* the file at the lock's path, 0 for none
    lockFiles,  \* lock files created so far
    registry,   \* system.reg and user.reg are written
    client,     \* files of the client: its launcher, its server in bin, a copy
    service,    \* the Windows service is registered
    wine,       \* the lock files under which the Wine that runs was started
    damaged,    \* an uninstaller went into it since setup took the lock
    present,    \* entries on disk that uninstall knows
    plan        \* entries it still has to remove

lockVars == <<opened, lock, lockFile, lockFiles>>
prefixVars == <<registry, client, service, damaged>>
vars == <<at, opened, lock, lockFile, lockFiles, registry, client, service,
          wine, damaged, present, plan>>

ClientFiles == {"launcher", "server", "copy"}

(* An installation from source, today's or one without a receipt, or from  *)
(* a package; nothing has been set up.                                     *)
Init ==
    /\ at = [p \in Procs |-> "off"]
    /\ opened = [p \in Procs |-> 0] /\ lock = [p \in Procs |-> 0]
    /\ lockFile = 0 /\ lockFiles = 0
    /\ registry = FALSE /\ client = {} /\ service = FALSE
    /\ wine = {} /\ damaged = FALSE
    /\ present \in {Sources, Sources \ {"receipt"}, {}}
    /\ plan = {}

Go(p, from, to) == at[p] = from /\ at' = [at EXCEPT ![p] = to]

(* acquire_session_lock opens the file at the path, or creates it ...      *)
OpensLock(p, from) ==
    /\ Go(p, from, "lock")
    /\ IF lockFile # 0 THEN UNCHANGED <<lockFile, lockFiles>>
       ELSE /\ lockFiles < MaxLockFiles
            /\ lockFile' = lockFiles + 1 /\ lockFiles' = lockFiles + 1
    /\ opened' = [opened EXCEPT ![p] = lockFile']
    /\ present' = present \cup {"state"}
    /\ UNCHANGED <<lock, prefixVars, wine, plan>>

(* ... and then locks what it has opened, without looking at the path      *)
(* again.  When another process has that file locked, it gives up.         *)
flockMutant(p) ==
    /\ lock' = [lock EXCEPT ![p] = opened[p]]
    /\ opened' = [opened EXCEPT ![p] = 0]
    /\ UNCHANGED <<lockFile, lockFiles>>
flock(p) ==
    /\ \A q \in Procs : lock[q] # opened[p]
    /\ lock' = [lock EXCEPT ![p] = opened[p]]
    /\ opened' = [opened EXCEPT ![p] = 0]
    /\ UNCHANGED <<lockFile, lockFiles>>

(* The end of a process closes the file.                                   *)
Closes(p) ==
    /\ at' = [at EXCEPT ![p] = "off"]
    /\ opened' = [opened EXCEPT ![p] = 0] /\ lock' = [lock EXCEPT ![p] = 0]

(* find_client_dir ranks the directories that hold a launcher: one whose   *)
(* bin holds the server before a flat copy, a launcher alone not at all.   *)
find_client_dir(files) == {"launcher", "server"} \subseteq files \/ "copy" \in files

Usable == find_client_dir(client) /\ service

(* The client's menu entry, if its installer has left a shortcut, becomes  *)
(* uur's.                                                                  *)
Adopts(entries) == present' \in {entries, entries \cup {"alias"}}
UsesWine(p) == wine' = wine \cup {lock[p]}

-----------------------------------------------------------------------------
(* setup                                                                   *)

(* The configuration is read and the EULA recorded before the lock; without*)
(* the user's consent setup ends here.                                     *)
SetupStarts ==
    /\ Go("setup", "off", "open")
    /\ present' = present \cup {"config"}
    /\ UNCHANGED <<lockVars, prefixVars, wine, plan>>

SetupLocks ==
    /\ Go("setup", "lock", "look")
    /\ flock("setup")
    /\ present' = present \cup {"data"}
    /\ damaged' = FALSE
    /\ UNCHANGED <<registry, client, service, wine, plan>>

SetupLooks(repair) ==
    /\ Go("setup", "look", IF ~repair /\ registry /\ Usable THEN "finish" ELSE "boot")
    /\ UNCHANGED <<lockVars, prefixVars, wine, present, plan>>

(* wineboot, then flush_prefix waits until the registry files are there.   *)
(* Nothing works without the data directory.                               *)
Boots ==
    /\ Go("setup", "boot", "flush") /\ "data" \in present
    /\ UsesWine("setup")
    /\ registry' \in {registry, TRUE}
    /\ UNCHANGED <<lockVars, client, service, damaged, present, plan>>

Flushed ==
    /\ Go("setup", "flush", IF Usable THEN "finish" ELSE "install")
    /\ registry' = TRUE
    /\ UNCHANGED <<lockVars, client, service, damaged, wine, present, plan>>

(* The official installer runs; whatever it says, the client may be        *)
(* incomplete.                                                             *)
Installs ==
    /\ Go("setup", "install", "verify") /\ "data" \in present
    /\ UsesWine("setup")
    /\ client' \in {client \cup new : new \in SUBSET ClientFiles}
    /\ service' \in {service, TRUE}
    /\ UNCHANGED <<lockVars, registry, damaged, present, plan>>

VerifiesMutant ==
    /\ Go("setup", "verify", "finish")
    /\ UNCHANGED <<lockVars, prefixVars, wine, present, plan>>
Verifies ==
    /\ Go("setup", "verify", "finish")
    /\ Usable
    /\ UNCHANGED <<lockVars, prefixVars, wine, present, plan>>

(* finish_setup writes the compatibility settings through Wine and adopts  *)
(* the menu entry.                                                         *)
Finishes ==
    /\ Go("setup", "finish", "ok") /\ "data" \in present
    /\ UsesWine("setup") /\ Adopts(present)
    /\ UNCHANGED <<lockVars, registry, client, service, damaged, plan>>

(* It ends: wineserver -k, also when a step has failed ...                 *)
Working == {"look", "boot", "flush", "install", "verify", "finish"}

SetupEnds ==
    /\ at["setup"] \in Working \cup {"open", "lock", "ok"}
    /\ wine' = IF at["setup"] \in {"open", "lock"} THEN wine ELSE {}
    /\ Closes("setup")
    /\ UNCHANGED <<lockFile, lockFiles, prefixVars, present, plan>>

(* ... but not when it is killed, by SIGTERM for example.                  *)
SetupKilled ==
    /\ at["setup"] \in Working \cup {"ok"}
    /\ Closes("setup")
    /\ UNCHANGED <<lockFile, lockFiles, prefixVars, wine, present, plan>>

Setup ==
    \/ SetupStarts \/ OpensLock("setup", "open") \/ SetupLocks
    \/ (\E repair \in BOOLEAN : SetupLooks(repair))
    \/ Boots \/ Flushed \/ Installs \/ Verifies \/ Finishes \/ SetupEnds \/ SetupKilled

-----------------------------------------------------------------------------
(* A session: run takes the lock, then looks whether the prefix is usable. *)

RunLocks ==
    /\ Go("run", "lock", "ready")
    /\ flock("run")
    /\ UNCHANGED <<prefixVars, wine, present, plan>>

RunStarts ==
    /\ Go("run", "ready", "up")
    /\ Usable
    /\ UsesWine("run") /\ Adopts(present \cup {"config", "data"})
    /\ UNCHANGED <<lockVars, registry, client, service, damaged, plan>>

(* It stops Wine when it ends in order, not when it is killed, as SIGTERM  *)
(* does to one that has not registered its handlers yet.                   *)
WineAfterRun == IF at["run"] = "up" THEN {{}, wine} ELSE {wine}

RunEnds ==
    /\ at["run"] \in {"lock", "ready", "up"}
    /\ wine' \in WineAfterRun
    /\ Closes("run")
    /\ UNCHANGED <<lockFile, lockFiles, prefixVars, present, plan>>

Run == OpensLock("run", "off") \/ RunLocks \/ RunStarts \/ RunEnds

-----------------------------------------------------------------------------
(* uninstall                                                               *)

(* source_files: the receipt, or the menu entry of an older installation   *)
(* for the executable that runs.                                           *)
SourceFiles ==
    IF "receipt" \in present \/ {"bin", "desktop"} \subseteq present
      THEN Sources \cap present ELSE {}

(* owns_desktop: menu entries that belong to this prefix.                  *)
OwnEntries == present \cap {"alias"}

(* Plan::build and the user's confirmation.                                *)
Plans(everything) ==
    /\ Go("uninstall", "off", "stop")
    /\ plan' = SourceFiles \cup OwnEntries
                   \cup (IF everything THEN Trees ELSE {})
    /\ UNCHANGED <<lockVars, prefixVars, wine, present>>

(* session::stop ends whoever the lock file at the path names and returns  *)
(* when the process is gone.  With nobody named, or one that has locked    *)
(* the file and not written its name yet or takes too long, it stops Wine. *)
Named(p) == lock[p] # 0 /\ lock[p] = lockFile

Stops ==
    /\ at["uninstall"] = "stop"
    /\ \/ \E p \in {"run", "setup"} :
              /\ Named(p)
              /\ at' = [at EXCEPT !["uninstall"] = "open", ![p] = "off"]
              /\ lock' = [lock EXCEPT ![p] = 0]
              /\ wine' \in IF p = "run" THEN WineAfterRun ELSE {wine}
       \/ /\ at' = [at EXCEPT !["uninstall"] = "open"]
          /\ wine' = {}
          /\ UNCHANGED lock
    /\ UNCHANGED <<opened, lockFile, lockFiles, prefixVars, present, plan>>

Excludes ==
    /\ Go("uninstall", "lock", "wine")
    /\ flock("uninstall")
    /\ UNCHANGED <<prefixVars, wine, present, plan>>

(* stop_prefix, then the plan is validated again.                          *)
StopsPrefixMutant ==
    /\ Go("uninstall", "wine", "remove")
    /\ UNCHANGED <<lockVars, prefixVars, wine, present, plan>>
StopsPrefix ==
    /\ Go("uninstall", "wine", "remove")
    /\ wine' = {}
    /\ UNCHANGED <<lockVars, prefixVars, present, plan>>

(* The executable, then the receipt, after everything else; the order of   *)
(* the rest depends on where the XDG directories are.                      *)
RankMutant(entry) == IF entry = "bin" THEN 1 ELSE 0
Rank(entry) == CASE entry = "receipt" -> 2 [] entry = "bin" -> 1 [] OTHER -> 0

Removes(entry) ==
    /\ at["uninstall"] = "remove"
    /\ entry \in plan /\ \A other \in plan : Rank(entry) <= Rank(other)
    /\ plan' = plan \ {entry} /\ present' = present \ {entry}
    /\ lockFile' = IF entry = "state" THEN 0 ELSE lockFile
    /\ IF entry = "data"
         THEN /\ registry' = FALSE /\ client' = {} /\ service' = FALSE
              /\ damaged' = TRUE
         ELSE UNCHANGED prefixVars
    /\ UNCHANGED <<at, opened, lock, lockFiles, wine>>

(* It ends, having removed everything, after an error or killed, perhaps   *)
(* half way through one of the trees.                                      *)
UninstallEnds ==
    /\ at["uninstall"] # "off"
    /\ Closes("uninstall")
    /\ plan' = {}
    /\ LET half == IF at["uninstall"] = "remove" THEN plan ELSE {}
       IN  /\ lockFile' \in IF "state" \in half THEN {lockFile, 0} ELSE {lockFile}
           /\ IF "data" \in half
                THEN /\ registry' \in {registry, FALSE} /\ client' \in SUBSET client
                     /\ service' \in {service, FALSE} /\ damaged' = TRUE
                ELSE UNCHANGED prefixVars
    /\ UNCHANGED <<lockFiles, wine, present>>

Uninstall ==
    \/ \E everything \in {FALSE, MayPurge} : Plans(everything)
    \/ Stops \/ OpensLock("uninstall", "open") \/ Excludes \/ StopsPrefix
    \/ (\E entry \in Sources \cup Trees \cup {"alias"} : Removes(entry))
    \/ UninstallEnds

Next == Setup \/ Run \/ Uninstall
Spec == Init /\ [][Next]_vars

-----------------------------------------------------------------------------
(* Properties                                                              *)

TypeOK ==
    /\ at \in [Procs -> {"off", "open", "lock", "ready", "up", "ok", "stop", "wine",
                         "remove"} \cup Working]
    /\ opened \in [Procs -> 0..MaxLockFiles] /\ lock \in [Procs -> 0..MaxLockFiles]
    /\ lockFile \in 0..MaxLockFiles /\ lockFiles \in 0..MaxLockFiles
    /\ registry \in BOOLEAN /\ client \subseteq ClientFiles /\ service \in BOOLEAN
    /\ wine \subseteq 1..MaxLockFiles /\ damaged \in BOOLEAN
    /\ present \subseteq Sources \cup Trees \cup {"alias"}
    /\ plan \subseteq Sources \cup Trees \cup {"alias"}

(* The uninstaller has locked the file that is at the lock's path.         *)
LockInPlace == lock["uninstall"] = lockFile

(* "Keep setup/run excluded until the directory cleanup has finished" is   *)
(* true of nobody else: while the file the uninstaller has locked is at    *)
(* the lock's path, a setup or session that works beside it is one that    *)
(* opened an older file before a purge removed it, and locked it since.    *)
ExcludedWhileLocked ==
    at["uninstall"] \in {"wine", "remove"} /\ LockInPlace =>
        \A p \in {"setup", "run"} : lock[p] < lockFile

(* Nothing is removed under a running Wine of the prefix, not even one     *)
(* that a killed setup or session has left, as long as that lock file is   *)
(* in place: any Wine there is was started since by such a latecomer, who  *)
(* has locked an older file.                                               *)
NothingRemovedInUse ==
    [][LockInPlace /\ present' \subseteq present /\ present' # present =>
         \A file \in wine : file < lockFile]_vars

(* A setup that reports success leaves a prefix that run accepts: a client *)
(* with its server, the service and the registry, whatever interrupted     *)
(* setups and uninstalls came before, unless an uninstaller that it did    *)
(* not exclude has gone into the prefix meanwhile.                         *)
SuccessIsUsable ==
    at["setup"] = "ok" /\ ~damaged => Usable /\ registry

(* "Keep the receipt until all installed files are removed, so a failed    *)
(* cleanup can be retried": an installation that has a receipt keeps it    *)
(* while one of its files is there.                                        *)
ReceiptIsLast ==
    [][at["uninstall"] = "remove" /\ "receipt" \in present \ present' =>
         present' \cap Sources = {}]_vars
=============================================================================
