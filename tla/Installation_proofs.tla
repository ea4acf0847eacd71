-------------------------- MODULE Installation_proofs --------------------------
(* Theorems about setup, sessions and uninstall, whether or not purges are *)
(* allowed and however many lock files there are.                          *)
EXTENDS Installation, TLAPS

(* Every step is one of these.  The first lemmas say what a step does to   *)
(* each part of the state; the invariants need no more.                    *)

LEMMA StepIsNamed ==
  ASSUME [Next]_vars
  PROVE  \/ SetupStarts \/ SetupLocks \/ (\E repair \in BOOLEAN : SetupLooks(repair))
         \/ Boots \/ Flushed \/ Installs \/ Verifies \/ Finishes \/ SetupEnds \/ SetupKilled
         \/ RunLocks \/ RunStarts \/ RunEnds
         \/ (\E everything \in BOOLEAN : Plans(everything))
         \/ Stops \/ Excludes \/ StopsPrefix
         \/ (\E entry \in Sources \cup Trees \cup {"alias"} : Removes(entry))
         \/ UninstallEnds
         \/ (\E p \in Procs, from \in {"off", "open"} : OpensLock(p, from))
         \/ UNCHANGED vars
  BY InstallationAssumption DEF Next, Setup, Run, Uninstall, Procs

-----------------------------------------------------------------------------
(* Types and the lock.  The file at the lock's path is the newest one, no  *)
(* file is locked by two processes, and a process works only with a lock.  *)

Locked ==
    /\ lockFile \in {0, lockFiles}
    /\ \A p \in Procs : lock[p] <= lockFiles /\ opened[p] <= lockFiles
    /\ \A p \in Procs : at[p] = "lock" => opened[p] # 0
    /\ \A p, q \in Procs : lock[p] # 0 /\ lock[p] = lock[q] => p = q
    /\ lock["setup"] # 0 <=> at["setup"] \in Working \cup {"ok"}
    /\ lock["run"] # 0 <=> at["run"] \in {"ready", "up"}
    /\ lock["uninstall"] # 0 <=> at["uninstall"] \in {"wine", "remove"}

LockInv == TypeOK /\ Locked

LEMMA TypeInit == Init => TypeOK
<1> SUFFICES ASSUME Init PROVE TypeOK
  OBVIOUS
<1> USE InstallationAssumption DEF Init
<1>1. /\ at \in [Procs -> {"off", "open", "lock", "ready", "up", "ok", "stop", "wine",
                           "remove"} \cup Working]
      /\ opened \in [Procs -> 0..MaxLockFiles] /\ lock \in [Procs -> 0..MaxLockFiles]
  OBVIOUS
<1>2. lockFile \in 0..MaxLockFiles /\ lockFiles \in 0..MaxLockFiles
  OBVIOUS
<1>3. client \subseteq ClientFiles /\ present \subseteq Sources \cup Trees \cup {"alias"}
  BY DEF Sources
<1> QED BY <1>1, <1>2, <1>3, Zenon DEF TypeOK

LEMMA LockedInit == Init => Locked
  BY DEF Init, Locked, Procs, Working

LEMMA OpensType ==
  ASSUME LockInv, NEW p \in Procs, NEW from, OpensLock(p, from)
  PROVE  /\ lockFile' \in 1..MaxLockFiles /\ lockFiles' \in 0..MaxLockFiles
         /\ lockFile' = lockFiles' /\ lockFiles <= lockFiles'
         /\ opened' = [opened EXCEPT ![p] = lockFile']
  BY InstallationAssumption DEF OpensLock, LockInv, TypeOK, Locked

LEMMA FlockType ==
  ASSUME LockInv, NEW p \in Procs, at[p] = "lock", flock(p)
  PROVE  /\ opened' \in [Procs -> 0..MaxLockFiles] /\ lock' \in [Procs -> 0..MaxLockFiles]
         /\ lock'[p] = opened[p] /\ opened[p] # 0
         /\ \A q \in Procs \ {p} : lock'[q] = lock[q] /\ lock[q] # opened[p]
         /\ lockFile' = lockFile /\ lockFiles' = lockFiles
  BY InstallationAssumption DEF flock, LockInv, TypeOK, Locked

LEMMA ClosesType ==
  ASSUME TypeOK, NEW p \in Procs, Closes(p)
  PROVE  /\ opened' \in [Procs -> 0..MaxLockFiles] /\ lock' \in [Procs -> 0..MaxLockFiles]
         /\ at' = [at EXCEPT ![p] = "off"]
         /\ lock' = [lock EXCEPT ![p] = 0] /\ opened' = [opened EXCEPT ![p] = 0]
  BY InstallationAssumption DEF TypeOK, Closes

(* Whoever works in the prefix does so with a lock.                        *)
LEMMA UsesWineType ==
  ASSUME LockInv, NEW p \in {"setup", "run"}, UsesWine(p),
         \/ p = "setup" /\ at[p] \in Working
         \/ p = "run" /\ at[p] = "ready"
  PROVE  wine' \subseteq 1..MaxLockFiles
<1>1. lock[p] # 0
  BY DEF LockInv, Locked
<1>2. lock[p] \in 0..MaxLockFiles
  BY DEF LockInv, TypeOK, Procs
<1>3. lock[p] \in 1..MaxLockFiles
  BY <1>1, <1>2, InstallationAssumption
<1> QED BY <1>3 DEF UsesWine, LockInv, TypeOK

LEMMA TypeStep ==
  ASSUME LockInv, [Next]_vars
  PROVE  TypeOK'
<1>0. TypeOK
  BY DEF LockInv
<1> USE <1>0, InstallationAssumption DEF TypeOK, Go, Working, lockVars, prefixVars
<1> USE DEF Procs
<1>1. CASE SetupStarts
  BY <1>1 DEF SetupStarts, Trees
<1>2. CASE SetupLocks
  <2>1. at["setup"] = "lock" /\ flock("setup")
    BY <1>2 DEF SetupLocks
  <2> QED BY <1>2, <2>1, FlockType DEF SetupLocks, Trees
<1>3. CASE \E repair \in BOOLEAN : SetupLooks(repair)
  BY <1>3 DEF SetupLooks
<1>4. CASE Boots
  BY <1>4, UsesWineType DEF Boots
<1>5. CASE Flushed
  BY <1>5 DEF Flushed
<1>6. CASE Installs
  BY <1>6, UsesWineType DEF Installs
<1>7. CASE Verifies
  BY <1>7 DEF Verifies
<1>8. CASE Finishes
  BY <1>8, UsesWineType DEF Finishes, Adopts
<1>9. CASE SetupEnds
  BY <1>9, ClosesType DEF SetupEnds
<1>10. CASE SetupKilled
  BY <1>10, ClosesType DEF SetupKilled
<1>11. CASE RunLocks
  <2>1. at["run"] = "lock" /\ flock("run")
    BY <1>11 DEF RunLocks
  <2> QED BY <1>11, <2>1, FlockType DEF RunLocks
<1>12. CASE RunStarts
  BY <1>12, UsesWineType DEF RunStarts, Adopts, Trees
<1>13. CASE RunEnds
  BY <1>13, ClosesType DEF RunEnds, WineAfterRun
<1>14. CASE \E everything \in BOOLEAN : Plans(everything)
  BY <1>14 DEF Plans, SourceFiles, OwnEntries
<1>15. CASE Stops
  <2>1. lock' \in [Procs -> 0..MaxLockFiles]
    BY <1>15 DEF Stops
  <2>2. wine' \subseteq 1..MaxLockFiles
    BY <1>15 DEF Stops, WineAfterRun
  <2>3. at' \in [Procs -> {"off", "open", "lock", "ready", "up", "ok", "stop", "wine",
                          "remove"} \cup Working]
    BY <1>15 DEF Stops
  <2> QED BY <1>15, <2>1, <2>2, <2>3 DEF Stops
<1>16. CASE Excludes
  <2>1. at["uninstall"] = "lock" /\ flock("uninstall")
    BY <1>16 DEF Excludes
  <2> QED BY <1>16, <2>1, FlockType DEF Excludes
<1>17. CASE StopsPrefix
  BY <1>17 DEF StopsPrefix
<1>18. ASSUME NEW entry \in Sources \cup Trees \cup {"alias"}, Removes(entry)
       PROVE  TypeOK'
  <2>1. lockFile' \in 0..MaxLockFiles /\ plan' \subseteq plan /\ present' \subseteq present
    BY <1>18 DEF Removes
  <2> QED BY <1>18, <2>1 DEF Removes
<1>19. CASE UninstallEnds
  <2>1. lockFile' \in 0..MaxLockFiles
    BY <1>19 DEF UninstallEnds
  <2>2. /\ registry' \in BOOLEAN /\ client' \subseteq ClientFiles
        /\ service' \in BOOLEAN /\ damaged' \in BOOLEAN
    BY <1>19 DEF UninstallEnds
  <2>3. Closes("uninstall") /\ plan' = {} /\ UNCHANGED <<lockFiles, wine, present>>
    BY <1>19 DEF UninstallEnds
  <2> QED BY <2>1, <2>2, <2>3, ClosesType
<1>20. ASSUME NEW p \in Procs, NEW from \in {"off", "open"}, OpensLock(p, from) PROVE TypeOK'
  <2>1. lockFile' \in 0..MaxLockFiles /\ lockFiles' \in 0..MaxLockFiles
        /\ opened' \in [Procs -> 0..MaxLockFiles]
    BY <1>20, OpensType
  <2> QED BY <1>20, <2>1 DEF OpensLock, Trees
<1>21. CASE UNCHANGED vars
  BY <1>21 DEF vars
<1> QED BY <1>1, <1>2, <1>3, <1>4, <1>5, <1>6, <1>7, <1>8, <1>9, <1>10, <1>11, <1>12,
           <1>13, <1>14, <1>15, <1>16, <1>17, <1>18, <1>19, <1>20, <1>21, StepIsNamed

LEMMA LockedStep ==
  ASSUME LockInv, [Next]_vars
  PROVE  Locked'
<1> USE InstallationAssumption DEF LockInv, Locked, Procs, Working, lockVars
<1>1. CASE SetupStarts
  BY <1>1 DEF SetupStarts, Go, TypeOK
<1>2. CASE (\E repair \in BOOLEAN : SetupLooks(repair))
             \/ Boots \/ Flushed \/ Installs \/ Verifies \/ Finishes
  <2>1. UNCHANGED lockVars /\ \E x \in Working \cup {"ok"} : at' = [at EXCEPT !["setup"] = x]
    BY <1>2 DEF SetupLooks, Boots, Flushed, Installs, Verifies, Finishes, Go
  <2>2. at["setup"] \in Working
    BY <1>2 DEF SetupLooks, Boots, Flushed, Installs, Verifies, Finishes, Go
  <2> QED BY <2>1, <2>2 DEF TypeOK
<1>3. ASSUME NEW p \in Procs, NEW next,
             Go(p, "lock", next), flock(p),
             next = CASE p = "setup" -> "look" [] p = "run" -> "ready" [] OTHER -> "wine"
      PROVE  Locked'
  <2>1. at[p] = "lock"
    BY <1>3 DEF Go
  <2>2. /\ lock' = [lock EXCEPT ![p] = opened[p]] /\ opened' = [opened EXCEPT ![p] = 0]
        /\ opened[p] # 0 /\ opened[p] \in 0..MaxLockFiles
        /\ \A q \in Procs : lock[q] # opened[p]
        /\ lockFile' = lockFile /\ lockFiles' = lockFiles
    BY <1>3, <2>1 DEF flock, TypeOK
  <2>3. /\ lockFile' \in {0, lockFiles'}
        /\ \A q \in Procs : lock'[q] <= lockFiles' /\ opened'[q] <= lockFiles'
    BY <2>2 DEF TypeOK
  <2>4. \A q, r \in Procs : lock'[q] # 0 /\ lock'[q] = lock'[r] => q = r
    BY <2>2 DEF TypeOK
  <2>5. \A q \in Procs : at'[q] = "lock" => opened'[q] # 0
    BY <1>3, <2>2 DEF Go, TypeOK
  <2>6. /\ lock'["setup"] # 0 <=> at'["setup"] \in Working \cup {"ok"}
        /\ lock'["run"] # 0 <=> at'["run"] \in {"ready", "up"}
        /\ lock'["uninstall"] # 0 <=> at'["uninstall"] \in {"wine", "remove"}
    BY <1>3, <2>2 DEF Go, TypeOK
  <2> QED BY <2>3, <2>4, <2>5, <2>6
<1>4. CASE SetupLocks
  BY <1>3, <1>4 DEF SetupLocks
<1>5. CASE RunLocks
  BY <1>3, <1>5 DEF RunLocks
<1>6. CASE Excludes
  BY <1>3, <1>6 DEF Excludes
<1>7. ASSUME NEW p \in Procs, Closes(p), lockFiles' = lockFiles, lockFile' \in {lockFile, 0}
      PROVE  Locked'
  <2>1. /\ lock' = [lock EXCEPT ![p] = 0] /\ opened' = [opened EXCEPT ![p] = 0]
        /\ at' = [at EXCEPT ![p] = "off"]
    BY <1>7 DEF Closes
  <2> QED BY <1>7, <2>1 DEF TypeOK
<1>8. CASE SetupEnds \/ SetupKilled
  BY <1>7, <1>8 DEF SetupEnds, SetupKilled
<1>9. CASE RunEnds
  BY <1>7, <1>9 DEF RunEnds
<1>10. CASE UninstallEnds
  <2>1. Closes("uninstall") /\ lockFiles' = lockFiles /\ lockFile' \in {lockFile, 0}
    BY <1>10 DEF UninstallEnds
  <2> QED BY <1>7, <2>1
<1>11. CASE RunStarts
  BY <1>11 DEF RunStarts, Go, TypeOK
<1>12. CASE \E everything \in BOOLEAN : Plans(everything)
  BY <1>12 DEF Plans, Go, TypeOK
<1>13. CASE Stops
  BY <1>13 DEF Stops, Named, TypeOK
<1>14. CASE StopsPrefix
  BY <1>14 DEF StopsPrefix, Go, TypeOK
<1>15. ASSUME NEW entry \in Sources \cup Trees \cup {"alias"}, Removes(entry) PROVE Locked'
  BY <1>15 DEF Removes, TypeOK
<1>16. ASSUME NEW p \in Procs, NEW from \in {"off", "open"}, OpensLock(p, from) PROVE Locked'
  <2>1. /\ lockFile' \in 1..MaxLockFiles /\ lockFiles' \in 0..MaxLockFiles
        /\ lockFile' = lockFiles' /\ lockFiles <= lockFiles'
        /\ opened' = [opened EXCEPT ![p] = lockFile']
    BY <1>16, OpensType
  <2>2. lock' = lock /\ at' = [at EXCEPT ![p] = "lock"] /\ at[p] = from
    BY <1>16 DEF OpensLock, Go
  <2> QED BY <2>1, <2>2 DEF TypeOK
<1>17. CASE UNCHANGED vars
  BY <1>17 DEF vars
<1> QED BY <1>1, <1>2, <1>4, <1>5, <1>6, <1>8, <1>9, <1>10, <1>11, <1>12, <1>13,
           <1>14, <1>15, <1>16, <1>17, StepIsNamed

LEMMA LockInvariant == Spec => []LockInv
<1>1. Init => LockInv
  BY TypeInit, LockedInit DEF LockInv
<1>2. LockInv /\ [Next]_vars => LockInv'
  BY TypeStep, LockedStep DEF LockInv
<1> QED BY <1>1, <1>2, PTL DEF Spec

(* The state is well typed.                                                *)
THEOREM TypeCorrect == Spec => []TypeOK
<1>1. LockInv => TypeOK
  BY DEF LockInv
<1> QED BY <1>1, LockInvariant, PTL

(* While the file the uninstaller has locked is at the lock's path, no     *)
(* setup or session works beside it but on an older file, which it opened  *)
(* before a purge removed it: opening (session.rs:260-265) and locking     *)
(* (session.rs:266) are two steps, and others may come between them.       *)
LEMMA AloneOnItsFile == LockInv => ExcludedWhileLocked
<1> SUFFICES ASSUME LockInv, at["uninstall"] \in {"wine", "remove"}, LockInPlace,
                    NEW p \in {"setup", "run"}
             PROVE  lock[p] < lockFile
  BY DEF ExcludedWhileLocked
<1> USE DEF LockInv, Locked, Procs, LockInPlace, TypeOK
<1>1. lockFile = lockFiles /\ lockFile # 0 /\ lock["uninstall"] = lockFile
  OBVIOUS
<1>2. lock[p] <= lockFiles /\ lock[p] # lockFile
  BY <1>1
<1>3. lock[p] \in Nat /\ lockFile \in Nat
  BY InstallationAssumption
<1> QED BY <1>1, <1>2, <1>3

THEOREM ExcludedCorrect == Spec => []ExcludedWhileLocked
  BY AloneOnItsFile, LockInvariant, PTL

-----------------------------------------------------------------------------
(* Wine.  Once the uninstaller has stopped it, only such a latecomer can   *)
(* start it again.                                                         *)

Stopped == LockInPlace /\ at["uninstall"] = "remove" => \A file \in wine : file < lockFile

LEMMA StoppedStep ==
  ASSUME LockInv, Stopped, [Next]_vars
  PROVE  Stopped'
<1> USE DEF Stopped, LockInPlace, Procs, Working, lockVars
<1>0. /\ at["uninstall"] = "remove" => lock["uninstall"] # 0
      /\ TypeOK
  BY DEF LockInv, Locked
<1>1. CASE SetupStarts \/ Flushed \/ Verifies \/ \E repair \in BOOLEAN : SetupLooks(repair)
  BY <1>0, <1>1 DEF SetupStarts, SetupLooks, Flushed, Verifies, Go, TypeOK
<1>2. ASSUME NEW p \in {"setup", "run"}, UsesWine(p), UNCHANGED lockVars,
             at'["uninstall"] = at["uninstall"]
      PROVE  Stopped'
  <2>1. LockInPlace /\ at["uninstall"] = "remove" => lock[p] < lockFile
    BY AloneOnItsFile DEF ExcludedWhileLocked
  <2> QED BY <1>2, <2>1 DEF UsesWine
<1>3. CASE Boots \/ Installs \/ Finishes
  BY <1>0, <1>2, <1>3 DEF Boots, Installs, Finishes, Go, TypeOK
<1>4. CASE RunStarts
  BY <1>0, <1>2, <1>4 DEF RunStarts, Go, TypeOK
<1>5. CASE SetupLocks \/ RunLocks
  BY <1>0, <1>5 DEF SetupLocks, RunLocks, flock, Go, TypeOK
<1>6. CASE SetupEnds \/ SetupKilled
  <2>1. wine' \subseteq wine /\ lockFile' = lockFile /\ Closes("setup")
    BY <1>6 DEF SetupEnds, SetupKilled
  <2>2. lock'["uninstall"] = lock["uninstall"] /\ at'["uninstall"] = at["uninstall"]
    BY <1>0, <2>1 DEF Closes, TypeOK
  <2> QED BY <2>1, <2>2
<1>7. CASE RunEnds
  BY <1>0, <1>7 DEF RunEnds, Closes, WineAfterRun, TypeOK
<1>8. CASE (\E everything \in BOOLEAN : Plans(everything)) \/ Excludes
  BY <1>0, <1>8 DEF Plans, Excludes, Go, TypeOK
<1>9. CASE Stops
  BY <1>0, <1>9 DEF Stops, TypeOK
<1>10. CASE StopsPrefix
  BY <1>10 DEF StopsPrefix
<1>11. ASSUME NEW entry \in Sources \cup Trees \cup {"alias"}, Removes(entry) PROVE Stopped'
  BY <1>0, <1>11 DEF Removes
<1>12. CASE UninstallEnds
  BY <1>0, <1>12 DEF UninstallEnds, Closes, TypeOK
<1>13. ASSUME NEW p \in Procs, NEW from \in {"off", "open"}, OpensLock(p, from) PROVE Stopped'
  <2>1. at'["uninstall"] = "remove" => at["uninstall"] = "remove"
    BY <1>0, <1>13 DEF OpensLock, Go, TypeOK
  <2>2. wine' = wine /\ lock' = lock
    BY <1>13 DEF OpensLock
  <2>3. lockFile' # lockFile => lockFile' = lockFiles + 1
    BY <1>13 DEF OpensLock
  <2>4. lock["uninstall"] <= lockFiles /\ lock["uninstall"] \in Nat /\ lockFiles \in Nat
    BY InstallationAssumption DEF LockInv, Locked, TypeOK
  <2> QED BY <2>1, <2>2, <2>3, <2>4
<1>14. CASE UNCHANGED vars
  BY <1>14 DEF vars
<1> QED BY <1>1, <1>3, <1>4, <1>5, <1>6, <1>7, <1>8, <1>9, <1>10, <1>11, <1>12,
           <1>13, <1>14, StepIsNamed

(* Only Removes makes the installation smaller.                            *)
LEMMA OnlyRemoves ==
  ASSUME [Next]_vars, present' \subseteq present, present' # present
  PROVE  \E entry \in Sources \cup Trees \cup {"alias"} : Removes(entry)
  BY StepIsNamed
     DEF SetupStarts, SetupLocks, SetupLooks, Boots, Flushed, Installs, Verifies, Finishes,
         Adopts, SetupEnds, SetupKilled, RunLocks, RunStarts, RunEnds, Plans, Stops,
         Excludes, StopsPrefix, UninstallEnds, OpensLock, vars

(* Nothing is removed under a running Wine while the uninstaller's file is *)
(* at the lock's path, except under one that a process has started on an   *)
(* older lock file, opened before a purge removed it and locked since.     *)
THEOREM NothingRemovedInUseCorrect == Spec => NothingRemovedInUse
<1>1. Init => Stopped
  BY DEF Init, Stopped, Procs
<1>2. LockInv /\ Stopped /\ [Next]_vars => Stopped'
  BY StoppedStep
<1>3. Stopped /\ [Next]_vars
        => [LockInPlace /\ present' \subseteq present /\ present' # present =>
              \A file \in wine : file < lockFile]_vars
  BY OnlyRemoves DEF Stopped, Removes
<1> QED BY <1>1, <1>2, <1>3, LockInvariant, PTL DEF Spec, NothingRemovedInUse

-----------------------------------------------------------------------------
(* What setup has found and done by the step it is at.                     *)

Progress ==
    ~damaged =>
        /\ at["setup"] \in {"install", "verify"} => registry
        /\ at["setup"] \in {"finish", "ok"} => Usable /\ registry

LEMMA ProgressStep ==
  ASSUME TypeOK, Progress, [Next]_vars
  PROVE  Progress'
<1> USE DEF Progress, Usable, find_client_dir, Procs, Working, TypeOK, prefixVars
<1>1. CASE SetupStarts
  BY <1>1 DEF SetupStarts, Go
<1>2. CASE SetupLocks
  BY <1>2 DEF SetupLocks, Go
<1>3. CASE \E repair \in BOOLEAN : SetupLooks(repair)
  BY <1>3 DEF SetupLooks, Go
<1>4. CASE Boots
  BY <1>4 DEF Boots, Go
<1>5. CASE Flushed
  BY <1>5 DEF Flushed, Go
<1>6. CASE Installs
  BY <1>6 DEF Installs, Go
<1>7. CASE Verifies
  BY <1>7 DEF Verifies, Go
<1>8. CASE Finishes
  BY <1>8 DEF Finishes, Go
<1>9. CASE SetupEnds \/ SetupKilled
  BY <1>9 DEF SetupEnds, SetupKilled, Closes
<1>10. CASE RunLocks
  BY <1>10 DEF RunLocks, Go
<1>11. CASE RunStarts
  BY <1>11 DEF RunStarts, Go
<1>12. CASE RunEnds
  BY <1>12 DEF RunEnds, Closes
<1>13. CASE \E everything \in BOOLEAN : Plans(everything)
  BY <1>13 DEF Plans, Go
<1>14. CASE Stops
  BY <1>14 DEF Stops
<1>15. CASE Excludes \/ StopsPrefix
  BY <1>15 DEF Excludes, StopsPrefix, Go
<1>16. ASSUME NEW entry \in Sources \cup Trees \cup {"alias"}, Removes(entry) PROVE Progress'
  BY <1>16 DEF Removes
<1>17. CASE UninstallEnds
  BY <1>17 DEF UninstallEnds, Closes
<1>18. ASSUME NEW p \in Procs, NEW from \in {"off", "open"}, OpensLock(p, from) PROVE Progress'
  BY <1>18 DEF OpensLock, Go
<1>19. CASE UNCHANGED vars
  BY <1>19 DEF vars
<1> QED BY <1>1, <1>2, <1>3, <1>4, <1>5, <1>6, <1>7, <1>8, <1>9, <1>10, <1>11, <1>12,
           <1>13, <1>14, <1>15, <1>16, <1>17, <1>18, <1>19, StepIsNamed

(* A setup that reports success leaves a prefix that run accepts, unless   *)
(* an uninstaller that it did not exclude went into it.                    *)
THEOREM SuccessIsUsableCorrect == Spec => []SuccessIsUsable
<1>1. Init => Progress
  BY DEF Init, Progress, Procs
<1>2. TypeOK /\ Progress /\ [Next]_vars => Progress'
  BY ProgressStep
<1>3. Progress => SuccessIsUsable
  BY DEF Progress, SuccessIsUsable
<1> QED BY <1>1, <1>2, <1>3, TypeCorrect, PTL DEF Spec

-----------------------------------------------------------------------------
(* The receipt is planned together with everything it lists.               *)

Listed == "receipt" \in plan => Sources \cap present \subseteq plan

LEMMA ListedStep ==
  ASSUME Listed, [Next]_vars
  PROVE  Listed'
<1> USE DEF Listed, Sources
<1>1. CASE \E everything \in BOOLEAN : Plans(everything)
  BY <1>1 DEF Plans, SourceFiles, OwnEntries, Trees
<1>2. ASSUME NEW entry \in Sources \cup Trees \cup {"alias"}, Removes(entry) PROVE Listed'
  BY <1>2 DEF Removes
<1>3. CASE UninstallEnds
  BY <1>3 DEF UninstallEnds
<1>4. CASE plan' = plan /\ Sources \cap present' = Sources \cap present
  BY <1>4
<1> QED BY <1>1, <1>2, <1>3, <1>4, StepIsNamed
    DEF SetupStarts, SetupLocks, SetupLooks, Boots, Flushed, Installs, Verifies, Finishes,
        Adopts, SetupEnds, SetupKilled, RunLocks, RunStarts, RunEnds, Stops, Excludes,
        StopsPrefix, OpensLock, Trees, vars

(* The receipt goes when all the files it lists have gone.                 *)
THEOREM ReceiptIsLastCorrect == Spec => ReceiptIsLast
<1>1. Init => Listed
  BY DEF Init, Listed
<1>2. Listed /\ [Next]_vars => Listed'
  BY ListedStep
<1>3. Listed /\ [Next]_vars
        => [at["uninstall"] = "remove" /\ "receipt" \in present \ present' =>
              present' \cap Sources = {}]_vars
  <2> SUFFICES ASSUME Listed, [Next]_vars, "receipt" \in present \ present'
               PROVE  present' \cap Sources = {}
    OBVIOUS
  <2>1. PICK entry \in Sources \cup Trees \cup {"alias"} : Removes(entry)
    BY StepIsNamed
       DEF SetupStarts, SetupLocks, SetupLooks, Boots, Flushed, Installs, Verifies, Finishes,
           Adopts, SetupEnds, SetupKilled, RunLocks, RunStarts, RunEnds, Plans, Stops,
           Excludes, StopsPrefix, UninstallEnds, OpensLock, vars
  <2>2. entry = "receipt" /\ "receipt" \in plan
    BY <2>1 DEF Removes
  <2>3. \A other \in plan : Rank("receipt") <= Rank(other)
    BY <2>1, <2>2 DEF Removes
  <2>4. plan = {"receipt"}
    BY <2>2, <2>3 DEF Rank
  <2> QED BY <2>1, <2>2, <2>4 DEF Listed, Removes
<1> QED BY <1>1, <1>2, <1>3, PTL DEF Spec, ReceiptIsLast
=============================================================================
