---------------------------- MODULE Startup_proofs ----------------------------
(* Theorems about the steps of a session start and about the configuration *)
(* file, for any executables, applications and bounds.                     *)
EXTENDS Startup, ConfigStore, FiniteSetTheorems, WellFoundedInduction, TLAPS

(* A step of a start is a step of its parts or leaves them alone.          *)
LEMMA StepOfParts ==
  [Next]_vars => [DeployNext]_deployVars /\ [LaunchNext]_launchVars
<1> SUFFICES ASSUME [Next]_vars
             PROVE  [DeployNext]_deployVars /\ [LaunchNext]_launchVars
  OBVIOUS
<1>1. CASE Adapt
  BY <1>1 DEF Adapt, DeployNext, deployVars, launchVars
<1>2. CASE Prepare
  BY <1>2 DEF Prepare, LaunchNext, deployVars, launchVars
<1>3. CASE Ends
  BY <1>3 DEF Ends, DeployNext, LaunchNext, deployVars, launchVars
<1>4. CASE World
  BY <1>4 DEF World, DeployNext, LaunchNext, deployVars, launchVars
<1>5. CASE UNCHANGED vars
  BY <1>5 DEF vars, deployVars, launchVars
<1> QED BY <1>1, <1>2, <1>3, <1>4, <1>5 DEF Next

-----------------------------------------------------------------------------
(* The adapters.  A backup whose copying was not cut short is official,    *)
(* except while it is being copied, and an adapter is put in place before  *)
(* one only where there is nothing to back up; the legacy original is in   *)
(* place unless its executable is marked, and then in the backup until it  *)
(* is restored.                                                            *)

BackedUp(n) == n \notin cut \cup bare => backup[n].kind = "official"
NothingThere(n) == target[n] = Absent /\ backup[n] = Absent

Backups ==
    /\ deploying \in {"backup", "copy", "stage", "publish", "mark"} => now \in Adapters
    /\ \A n \in Adapters : n \in cut => backup[n] # Absent
    /\ \A n \in Adapters : marker[n] \/ target[n] = Adapter => BackedUp(n)
    /\ \A n \in Adapters :
         backup[n] # Absent => BackedUp(n) \/ (deploying = "copy" /\ n = now)
    /\ deploying = "copy" =>
         /\ now \notin bare => target[now].kind = "official"
         /\ target[now] # Absent /\ backup[now] # Absent
    /\ deploying \in {"stage", "publish"} => BackedUp(now) \/ NothingThere(now)
    /\ deploying = "mark" => BackedUp(now)

LegacyInv ==
    /\ deploying \in {"unlink", "restore", "unmark"} => marker[Legacy]
    /\ ~torn =>
         IF marker[Legacy] /\ deploying # "unmark"
           THEN backup[Legacy] = Official(1) ELSE target[Legacy] = Official(1)

DeployInv == DeployTypeOK /\ ExecutablesAreWhole /\ Backups /\ LegacyInv

LEMMA DeployInvInit == DeployInit => DeployInv
<1> SUFFICES ASSUME DeployInit PROVE DeployInv
  OBVIOUS
<1> USE DeployAssumption DEF DeployInit, Names
<1> PICK managed \in BOOLEAN, shipped \in SUBSET Adapters :
      /\ target = [n \in Names |-> IF n = Legacy /\ managed THEN Adapter
                                   ELSE IF n \in shipped \cup {Legacy} THEN Official(1)
                                   ELSE Absent]
      /\ backup = [n \in Names |-> IF n = Legacy /\ managed THEN Official(1) ELSE Absent]
      /\ marker = [n \in Names |-> n = Legacy /\ managed]
  OBVIOUS
<1>1. DeployTypeOK
  <2>1. 1 \in Versions /\ {Absent, Adapter, Official(1)} \subseteq Files
    BY DEF Versions, Files
  <2> QED BY <2>1 DEF DeployTypeOK
<1>2. \A n \in Adapters : target[n] \in {Official(1), Absent} /\ backup[n] = Absent /\ ~marker[n]
  OBVIOUS
<1>3. ExecutablesAreWhole
  BY <1>2 DEF ExecutablesAreWhole, Official, Absent
<1>4. Backups
  BY <1>2 DEF Backups, BackedUp, Official, Adapter, Absent
<1>5. LegacyInv
  BY DEF LegacyInv
<1> QED BY <1>1, <1>3, <1>4, <1>5 DEF DeployInv

LEMMA DeployTypeStep ==
  ASSUME DeployTypeOK, ExecutablesAreWhole, Backups, [DeployNext]_deployVars
  PROVE  DeployTypeOK'
<1> USE DeployAssumption
    DEF DeployTypeOK, Names, At, To, GiveUp, fileVars, logVars
<1>1. CASE DeployBegins
  BY <1>1 DEF DeployBegins
<1>2. CASE Unlink
  BY <1>2 DEF Unlink, Files
<1>3. CASE Restore
  BY <1>3 DEF Restore, Files
<1>4. CASE Unmark
  BY <1>4 DEF Unmark
<1>5. CASE NextAdapter
  BY <1>5 DEF NextAdapter
<1>6. CASE BackupBegins
  <2>1. NeedsBackup => target[now].of \in 0..MaxVersion
    BY <1>6 DEF Files, Versions, Absent, Adapter, Official, Part
  <2> QED BY <2>1, <1>6 DEF BackupBegins, Files
<1>7. CASE Copied
  BY <1>7 DEF Copied
<1>8. CASE Stage
  BY <1>8 DEF Stage
<1>9. CASE Publish
  <2>1. now \in Adapters
    BY <1>9 DEF Publish, Backups
  <2> QED BY <1>9, <2>1 DEF Publish, Files
<1>10. CASE Mark
  BY <1>10 DEF Mark
<1>11. CASE DeployInterrupted
  BY <1>11 DEF DeployInterrupted, Backups
<1>12. CASE ClientUpdates
  <2>1. version' \in Versions /\ Official(version') \in Files /\ Absent \in Files
    BY <1>12 DEF ClientUpdates, Versions, Files
  <2> QED BY <2>1, <1>12 DEF ClientUpdates
<1>13. CASE DeployEnds
  BY <1>13 DEF DeployEnds
<1>14. CASE UNCHANGED deployVars
  BY <1>14 DEF deployVars
<1> QED BY <1>1, <1>2, <1>3, <1>4, <1>5, <1>6, <1>7, <1>8, <1>9, <1>10, <1>11, <1>12,
           <1>13, <1>14 DEF DeployNext, DeployStep

LEMMA WholeStep ==
  ASSUME DeployInv, [DeployNext]_deployVars
  PROVE  ExecutablesAreWhole'
<1> USE DeployAssumption
    DEF DeployInv, DeployTypeOK, ExecutablesAreWhole, Names, At, To, GiveUp, fileVars, logVars
<1>1. CASE Publish
  BY <1>1 DEF Publish, Adapter
<1>2. CASE ClientUpdates
  BY <1>2 DEF ClientUpdates, Official, Absent
<1>3. CASE Unlink
  BY <1>3 DEF Unlink
<1>4. CASE Restore
  BY <1>4 DEF Restore
<1>5. CASE UNCHANGED target
  BY <1>5
<1> QED BY <1>1, <1>2, <1>3, <1>4, <1>5
        DEF DeployNext, DeployStep, DeployBegins, Unmark, NextAdapter, BackupBegins,
            Copied, Stage, Mark, DeployInterrupted, DeployEnds, deployVars

LEMMA BackupsStep ==
  ASSUME DeployInv, [DeployNext]_deployVars
  PROVE  Backups'
<1> USE DeployAssumption
    DEF DeployInv, DeployTypeOK, Backups, BackedUp, Names, At, To, GiveUp, fileVars, logVars
<1>1. CASE DeployBegins
  BY <1>1 DEF DeployBegins
<1>2. CASE Unlink
  BY <1>2 DEF Unlink
<1>3. CASE Restore
  BY <1>3 DEF Restore
<1>4. CASE Unmark
  BY <1>4 DEF Unmark
<1>5. CASE NextAdapter
  BY <1>5 DEF NextAdapter
<1>6. CASE BackupBegins
  <2>1. target[now].kind \in {"official", "adapter", "absent"}
    BY <1>6 DEF BackupBegins, ExecutablesAreWhole
  <2>2. target[now] \in Files
    BY <1>6 DEF BackupBegins
  <2>3. target[now].kind = "adapter" => target[now] = Adapter
    BY <2>2 DEF Files, Absent, Adapter, Official, Part
  <2>4. /\ now \in Adapters /\ deploying = "backup" /\ now' = now
        /\ UNCHANGED <<target, marker, cut, bare>>
    BY <1>6 DEF BackupBegins
  <2>5. CASE NeedsBackup
    <3>1. /\ now \notin cut /\ target[now] # Absent /\ ~marker[now]
          /\ target[now] = Adapter => now \in bare
      BY <2>4, <2>5 DEF NeedsBackup, Absent, Adapter
    <3>2. deploying' = "copy" /\ backup' = [backup EXCEPT ![now] = Part(target[now].of)]
      BY <1>6, <2>5 DEF BackupBegins
    <3>3. backup'[now] # Absent
      BY <2>4, <3>2 DEF Absent, Part
    <3>4. now \notin bare => target[now].kind = "official"
      BY <2>1, <2>3, <3>1, <2>4, <2>2 DEF Files, Absent, Adapter, Official, Part
    <3> QED BY <2>4, <3>1, <3>2, <3>3, <3>4
  <2>6. CASE ~NeedsBackup
    <3>1. deploying' = "stage" /\ backup' = backup
      BY <1>6, <2>6 DEF BackupBegins
    <3>2. BackedUp(now) \/ NothingThere(now)
      BY <2>4, <2>6 DEF NeedsBackup, NothingThere
    <3> QED BY <2>4, <3>1, <3>2 DEF NothingThere
  <2> QED BY <2>5, <2>6
<1>7. CASE Copied
  <2>1. target[now] # Absent
    BY <1>7 DEF Copied, Absent
  <2> QED BY <1>7, <2>1 DEF Copied
<1>8. CASE Stage
  BY <1>8 DEF Stage, NothingThere
<1>9. CASE Publish
  <2>1. BackedUp(now) \/ NothingThere(now)
    BY <1>9 DEF Publish
  <2> QED BY <1>9, <2>1 DEF Publish, NothingThere
<1>10. CASE Mark
  BY <1>10 DEF Mark
<1>11. CASE DeployInterrupted
  BY <1>11 DEF DeployInterrupted
<1>12. CASE ClientUpdates
  <2>1. \A n \in Adapters : target'[n] = Adapter => target[n] = Adapter
    BY <1>12 DEF ClientUpdates, Official, Absent, Adapter
  <2> QED BY <1>12, <2>1 DEF ClientUpdates
<1>13. CASE DeployEnds
  BY <1>13 DEF DeployEnds
<1>14. CASE UNCHANGED deployVars
  BY <1>14 DEF deployVars, NothingThere
<1> QED BY <1>1, <1>2, <1>3, <1>4, <1>5, <1>6, <1>7, <1>8, <1>9, <1>10, <1>11, <1>12,
           <1>13, <1>14 DEF DeployNext, DeployStep

LEMMA LegacyStep ==
  ASSUME DeployInv, [DeployNext]_deployVars
  PROVE  LegacyInv'
<1> USE DeployAssumption
    DEF DeployInv, DeployTypeOK, LegacyInv, Backups, Names, At, To, GiveUp, fileVars, logVars
<1>1. CASE DeployBegins
  BY <1>1 DEF DeployBegins
<1>2. CASE Unlink
  BY <1>2 DEF Unlink
<1>3. CASE Restore
  BY <1>3 DEF Restore, Official, Absent
<1>4. CASE Unmark
  BY <1>4 DEF Unmark
<1>5. CASE NextAdapter \/ BackupBegins \/ Copied \/ Stage \/ Publish \/ Mark
  BY <1>5 DEF NextAdapter, BackupBegins, Copied, Stage, Publish, Mark
<1>6. CASE DeployInterrupted
  BY <1>6 DEF DeployInterrupted
<1>7. CASE ClientUpdates
  BY <1>7 DEF ClientUpdates
<1>8. CASE DeployEnds
  BY <1>8 DEF DeployEnds
<1>9. CASE UNCHANGED deployVars
  BY <1>9 DEF deployVars
<1> QED BY <1>1, <1>2, <1>3, <1>4, <1>5, <1>6, <1>7, <1>8, <1>9 DEF DeployNext, DeployStep

LEMMA DeployInvariant == Spec => []DeployInv
<1>1. Init => DeployInv
  BY DeployInvInit DEF Init
<1>2. DeployInv /\ [Next]_vars => DeployInv'
  BY StepOfParts, DeployTypeStep, WholeStep, BackupsStep, LegacyStep DEF DeployInv
<1> QED BY <1>1, <1>2, PTL DEF Spec

(* Wherever a start is cut short, the client finds whole executables.      *)
THEOREM ExecutablesAreWholeCorrect == Spec => []ExecutablesAreWhole
<1>1. DeployInv => ExecutablesAreWhole
  BY DEF DeployInv
<1> QED BY <1>1, DeployInvariant, PTL

(* Behind every adapter in place there is an official binary, unless its   *)
(* copying was cut short or an adapter once went where the client had no   *)
(* executable (session.rs:191, session.rs:202), for releases that ship any *)
(* of the executables, updates that bring or remove them, and starts that  *)
(* end anywhere.                                                           *)
THEOREM OriginalRetainedCorrect == Spec => []OriginalRetained
<1>1. DeployInv => OriginalRetained
  BY DEF DeployInv, Backups, BackedUp, OriginalRetained
<1> QED BY <1>1, DeployInvariant, PTL

(* The executable an earlier uur replaced is never lost, unless a start    *)
(* ended between restoring it and removing its marker.                     *)
THEOREM LegacyOriginalCorrect == Spec => []LegacyOriginalKept
<1>1. DeployInv => LegacyOriginalKept
  BY DEF DeployInv, LegacyInv, LegacyOriginalKept
<1> QED BY <1>1, DeployInvariant, PTL

-----------------------------------------------------------------------------
(* The quick-launch entries.  A finite set of numbers has a largest one:   *)
(* the element above which the fewest lie.                                 *)

LEMMA HasLargest ==
  ASSUME NEW S, S \subseteq Nat, IsFiniteSet(S), S # {}
  PROVE  \E m \in S : \A n \in S : n <= m
<1> DEFINE Above(m) == {n \in S : m < n}
           Tails == {Above(m) : m \in S}
           R == StrictSubsetOrdering(S)
<1>1. Tails \subseteq FiniteSubsetsOf(S) /\ Tails # {}
  <2>1. Tails \subseteq SUBSET S /\ Tails # {}
    OBVIOUS
  <2> QED BY <2>1, FS_FiniteSubsetsOfFinite
<1>2. IsWellFoundedOn(R, FiniteSubsetsOf(S))
  BY FS_StrictSubsetOrderingWellFounded
<1> HIDE DEF R, Tails
<1>3. PICK T \in Tails : \A U \in Tails : ~ (<<U, T>> \in R)
  BY <1>1, <1>2, WFMin
<1>4. PICK m \in S : T = Above(m)
  BY DEF Tails
<1>5. ASSUME NEW n \in S, m < n PROVE FALSE
  <2>1. n \in Above(m) /\ n \notin Above(n)
    BY <1>5
  <2>2. Above(n) \subseteq Above(m)
    <3>1. \A k \in S : n < k => m < k
      BY <1>5
    <3> QED BY <3>1
  <2>3. Above(n) \in Tails
    BY DEF Tails
  <2>4. <<Above(n), T>> \in R
    BY <1>4, <2>1, <2>2 DEF R, StrictSubsetOrdering
  <2> QED BY <1>3, <2>3, <2>4
<1>6. \A n \in S : n <= m
  BY <1>5
<1> QED BY <1>6

(* The quick launch takes MaxApps applications at most.                    *)
LEMMA TakenIsBounded ==
  ASSUME NEW apps \in SUBSET Apps
  PROVE  /\ Taken(apps) \subseteq apps /\ IsFiniteSet(Taken(apps))
         /\ Cardinality(Taken(apps)) <= MaxApps
<1> DEFINE T == Taken(apps)
<1>1. T \subseteq apps /\ apps \subseteq Nat /\ IsFiniteSet(apps) /\ MaxApps \in Nat
  BY LaunchAssumption, FS_Subset DEF Taken
<1>2. IsFiniteSet(T)
  BY <1>1, FS_Subset
<1>3. CASE T = {}
  <2>1. Cardinality(T) = 0
    BY <1>3, FS_EmptySet
  <2> QED BY <1>1, <1>2, <2>1
<1>4. CASE T # {}
  <2>1. T \subseteq Nat
    BY <1>1
  <2> HIDE DEF T
  <2>2. PICK m \in T : \A n \in T : n <= m
    BY <1>2, <1>4, <2>1, HasLargest
  <2> DEFINE Upto == {b \in apps : b <= m}
  <2>3. T \subseteq Upto /\ Upto \subseteq apps
    BY <1>1, <2>2
  <2>4. IsFiniteSet(Upto) /\ Cardinality(Upto) \in Nat /\ Cardinality(T) \in Nat
    BY <1>1, <1>2, <2>3, FS_Subset, FS_CardinalityType
  <2>5. Cardinality(T) <= Cardinality(Upto)
    BY <2>3, <2>4, FS_Subset
  <2>6. Cardinality(Upto) <= MaxApps
    BY <2>2 DEF T, Taken
  <2>7. Cardinality(T) <= MaxApps
    BY <1>1, <2>4, <2>5, <2>6
  <2> QED BY <1>1, <1>2, <2>7 DEF T
<1> QED BY <1>3, <1>4

(* The keys file and the registry agree while nothing was cut short; from  *)
(* WriteKeys to Import the registry still has the entries of old.          *)
Tracked ==
    /\ Cardinality(chosen) <= MaxApps
    /\ preparing = "stage" => old = keys
    /\ preparing = "import" => keys = chosen
    /\ ~untidy =>
         /\ registry = IF preparing = "import" THEN old ELSE keys
         /\ Cardinality(keys) <= MaxApps

LaunchInv == LaunchTypeOK /\ Tracked

LEMMA LaunchInvInit == LaunchInit => LaunchInv
<1> SUFFICES ASSUME LaunchInit PROVE LaunchInv
  OBVIOUS
<1>1. LaunchTypeOK
  BY DEF LaunchInit, LaunchTypeOK
<1>2. Cardinality({}) <= MaxApps
  BY FS_EmptySet, LaunchAssumption
<1>3. Tracked
  BY <1>2 DEF LaunchInit, Tracked
<1> QED BY <1>1, <1>3 DEF LaunchInv

LEMMA LaunchInvStep ==
  ASSUME LaunchInv, [LaunchNext]_launchVars
  PROVE  LaunchInv'
<1> USE DEF LaunchInv, LaunchTypeOK, Tracked, Step
<1>1. CASE Catalog
  <2>1. Taken(installed) \subseteq Apps /\ Cardinality(Taken(installed)) <= MaxApps
    BY TakenIsBounded
  <2> QED BY <1>1, <2>1 DEF Catalog
<1>2. CASE Wipe
  BY <1>2 DEF Wipe
<1>3. CASE \E app \in Apps : StageOne(app)
  BY <1>3 DEF StageOne
<1>4. CASE WriteKeys
  BY <1>4 DEF WriteKeys
<1>5. CASE Import
  <2>1. ~untidy => (registry \ old) \cup chosen = keys
    BY <1>5 DEF Import
  <2> QED BY <1>5, <2>1 DEF Import
<1>6. CASE PrepareInterrupted
  <2>1. LaunchTypeOK'
    BY <1>6 DEF PrepareInterrupted
  <2>2. ~untidy' => ~untidy /\ preparing # "import" /\ keys' = keys /\ registry' = registry
    <3>1. untidy' = (untidy \/ preparing = "import" \/ keys' # keys)
      BY <1>6 DEF PrepareInterrupted
    <3>2. preparing # "import" => registry' = registry
      BY <1>6 DEF PrepareInterrupted
    <3> QED BY <3>1, <3>2, Zenon
  <2>3. preparing' = "off" /\ chosen' = chosen
    BY <1>6 DEF PrepareInterrupted
  <2> QED BY <2>1, <2>2, <2>3
<1>7. CASE Serve
  BY <1>7 DEF Serve
<1>8. CASE LaunchEnds
  BY <1>8 DEF LaunchEnds
<1>9. CASE \E app \in Apps : DesktopChanges(app)
  BY <1>9 DEF DesktopChanges
<1>10. CASE UNCHANGED launchVars
  BY <1>10 DEF launchVars
<1> QED BY <1>1, <1>2, <1>3, <1>4, <1>5, <1>6, <1>7, <1>8, <1>9, <1>10
        DEF LaunchNext, PrepareStep

LEMMA LaunchInvariant == Spec => []LaunchInv
<1>1. Init => LaunchInv
  BY LaunchInvInit DEF Init
<1>2. LaunchInv /\ [Next]_vars => LaunchInv'
  BY StepOfParts, LaunchInvStep
<1> QED BY <1>1, <1>2, PTL DEF Spec

(* Every entry is in the keys file, and there are at most MaxApps of them, *)
(* unless a start was cut short between the two.                           *)
THEOREM EntriesAreTrackedCorrect == Spec => []EntriesAreTracked
<1>1. LaunchInv => EntriesAreTracked
  BY DEF LaunchInv, Tracked, EntriesAreTracked
<1> QED BY <1>1, LaunchInvariant, PTL

(* The state of a session start is well typed.                             *)
THEOREM StartTypeCorrect == Spec => []TypeOK
<1>1. DeployInv /\ LaunchInv => TypeOK
  BY DEF DeployInv, LaunchInv, TypeOK
<1> QED BY <1>1, DeployInvariant, LaunchInvariant, PTL

-----------------------------------------------------------------------------
(* The configuration file.  While no store has been disturbed, a process   *)
(* that is not stale holds what the file says, but for what it changes.    *)

Reflects(c) ==
    /\ agreed => c.eula
    /\ choice # "none" => c.source = choice /\ c.token = 0

Reflecting ==
    /\ file # Garbled
    /\ file = Missing => ~agreed /\ choice = "none"
    /\ file.kind = "config" => Reflects(file)
    /\ \A p \in Users \ stale :
         /\ stage[p] \in {"loaded", "create", "creating"} => Reflects(snapshot[p])
         /\ stage[p] \in {"store", "storing"} =>
              /\ agreed => snapshot[p].eula
              /\ IF p = "display" THEN snapshot[p].token = 0 ELSE Reflects(snapshot[p])
    /\ "capture" \notin stale /\ stage["capture"] # "off" => choice = "none"

Storing ==
    /\ \A p \in Users :
         stage[p] \in {"store", "storing"} => p \in {"setup", "display", "capture"}
    /\ stage["setup"] \in {"store", "storing"} => snapshot["setup"].eula

(* They all have the secret of the file: a process that creates the file   *)
(* is stale as soon as another one has done so.                            *)

Holds(p) == stage[p] \in {"loaded", "store", "storing"}

OneSecret ==
    /\ \A p \in Users : Holds(p) =>
         /\ file # Missing
         /\ file.kind = "config" => snapshot[p].secret = file.secret
         /\ \A q \in Users : Holds(q) => snapshot[p].secret = snapshot[q].secret
    /\ \A p \in Users \ stale : stage[p] \in {"create", "creating"} =>
         file.kind # "config" /\ \A q \in Users : ~Holds(q)

ConfigInv ==
    ConfigTypeOK /\ Storing /\ (~disturbed => Reflecting /\ OneSecret)

LEMMA ConfigInvInit == ConfigInit => ConfigInv
<1> SUFFICES ASSUME ConfigInit PROVE ConfigInv
  OBVIOUS
<1> USE ConfigAssumption DEF ConfigInit
<1>1. ConfigTypeOK
  <2>1. Unread \in Configs
    BY DEF Configs, Unread, Default, DisplaySources
  <2>2. snapshot \in [Users -> Configs]
    BY <2>1
  <2>3. stage \in [Users -> {"off", "loaded", "create", "creating", "store", "storing"}]
    OBVIOUS
  <2>4. secrets \in 0..MaxSecrets /\ grants \in 0..MaxGrants
    OBVIOUS
  <2> QED BY <2>2, <2>3, <2>4, Zenon DEF ConfigTypeOK
<1>2. Storing
  BY DEF Storing, Users
<1>3. Reflecting
  BY DEF Reflecting, Missing, Garbled
<1>4. OneSecret
  BY DEF OneSecret, Holds
<1> QED BY <1>1, <1>2, <1>3, <1>4 DEF ConfigInv

LEMMA ConfigTypeStep ==
  ASSUME ConfigTypeOK, [ConfigNext]_configVars
  PROVE  ConfigTypeOK'
<1> USE ConfigAssumption DEF ConfigTypeOK, Moves, historyVars
<1>1. ASSUME NEW p \in Users, Load(p) PROVE ConfigTypeOK'
  <2>1. Loaded \in Configs /\ secrets' \in 0..MaxSecrets
    <3>1. CASE file.kind = "config"
      BY <1>1, <3>1 DEF Load, Loaded, Missing, Empty, Garbled
    <3>2. CASE file.kind # "config"
      BY <1>1, <3>2 DEF Load, Loaded, Default, Configs, DisplaySources
    <3> QED BY <3>1, <3>2
  <2> QED BY <1>1, <2>1 DEF Load, OnceLoaded
<1>2. ASSUME NEW p \in Users, Truncate(p) PROVE ConfigTypeOK'
  BY <1>2 DEF Truncate
<1>3. ASSUME NEW p \in Users, Write(p) PROVE ConfigTypeOK'
  <2>1. Unread \in Configs
    BY DEF Configs, Unread, Default, DisplaySources
  <2>2. snapshot[p].source \in DisplaySources
    BY DEF Configs
  <2>3. file' \in Configs \cup {Garbled}
    BY <1>3 DEF Write
  <2>4. /\ stage' \in [Users -> {"off", "loaded", "create", "creating", "store", "storing"}]
        /\ snapshot' \in [Users -> Configs]
    BY <1>3, <2>1 DEF Write
  <2>5. choice' \in DisplaySources \cup {"none"} /\ stale' \subseteq Users
    BY <1>3, <2>2 DEF Write
  <2>6. agreed' \in BOOLEAN /\ disturbed' \in BOOLEAN
    BY <1>3 DEF Write
  <2> QED BY <1>3, <2>3, <2>4, <2>5, <2>6 DEF Write
<1>4. ASSUME NEW p \in Users, NEW c \in Configs, Stores(p, c), grants' \in 0..MaxGrants
      PROVE  ConfigTypeOK'
  BY <1>4 DEF Stores
<1>5. CASE Accepts
  <2>1. [snapshot["setup"] EXCEPT !.eula = TRUE] \in Configs
    BY ZenonT(30) DEF Users, Configs
  <2> QED BY <1>4, <1>5, <2>1 DEF Accepts, Users
<1>6. ASSUME NEW source \in DisplaySources, Chooses(source) PROVE ConfigTypeOK'
  <2>1. snapshot["display"] \in Configs /\ 0 \in 0..MaxGrants
    BY DEF Users
  <2>2. [snapshot["display"] EXCEPT !.source = source, !.token = 0] \in Configs
    BY <1>6, <2>1 DEF Configs
  <2> QED BY <1>4, <1>6, <2>2 DEF Chooses, Users
<1>7. CASE Granted
  <2>1. grants' \in 0..MaxGrants
    BY <1>7 DEF Granted
  <2>2. [snapshot["capture"] EXCEPT !.token = grants'] \in Configs
    BY <2>1 DEF Users, Configs
  <2> QED BY <1>4, <1>7, <2>1, <2>2 DEF Granted, Users
<1>8. ASSUME NEW p \in Users, Leaves(p) PROVE ConfigTypeOK'
  <2>1. Unread \in Configs
    BY DEF Configs, Unread, Default, DisplaySources
  <2> QED BY <1>8, <2>1 DEF Leaves
<1>9. CASE UNCHANGED configVars
  BY <1>9 DEF configVars
<1> QED BY <1>1, <1>2, <1>3, <1>5, <1>6, <1>7, <1>8, <1>9 DEF ConfigNext

LEMMA StoringStep ==
  ASSUME ConfigTypeOK, Storing, [ConfigNext]_configVars
  PROVE  Storing'
<1> USE DEF ConfigTypeOK, Storing, Moves, historyVars
<1>1. ASSUME NEW p \in Users, Load(p) PROVE Storing'
  BY <1>1 DEF Load, OnceLoaded
<1>2. ASSUME NEW p \in Users, Truncate(p) PROVE Storing'
  BY <1>2 DEF Truncate
<1>3. ASSUME NEW p \in Users, Write(p) PROVE Storing'
  BY <1>3 DEF Write
<1>4. CASE Accepts
  <2>1. [snapshot["setup"] EXCEPT !.eula = TRUE].eula
    BY DEF Users, Configs
  <2> QED BY <1>4, <2>1 DEF Accepts, Stores
<1>5. ASSUME NEW source \in DisplaySources, Chooses(source) PROVE Storing'
  BY <1>5 DEF Chooses, Stores
<1>6. CASE Granted
  BY <1>6 DEF Granted, Stores
<1>7. ASSUME NEW p \in Users, Leaves(p) PROVE Storing'
  <2>1. \A q \in Users : stage'[q] = "off" \/ (stage'[q] = stage[q] /\ snapshot'[q] = snapshot[q])
    BY <1>7 DEF Leaves
  <2> QED BY <2>1 DEF Users
<1>8. CASE UNCHANGED configVars
  BY <1>8 DEF configVars
<1> QED BY <1>1, <1>2, <1>3, <1>4, <1>5, <1>6, <1>7, <1>8 DEF ConfigNext

(* disturbed stays, and while it is false a written file was empty and its *)
(* writer not stale.                                                       *)
LEMMA UndisturbedWrite ==
  ASSUME ConfigTypeOK, NEW p \in Users, Write(p), ~disturbed'
  PROVE  /\ ~disturbed /\ p \notin stale /\ file = Empty /\ file' = snapshot[p]
         /\ stale' = {q \in Users : stage[q] # "off"} \ {p}
<1>1. ~disturbed /\ p \notin stale /\ file = Empty
  BY Zenon DEF Write, ConfigTypeOK
<1> QED BY <1>1 DEF Write

LEMMA ReflectingStep ==
  ASSUME ConfigInv, [ConfigNext]_configVars, ~disturbed'
  PROVE  Reflecting'
<1> USE DEF ConfigInv, ConfigTypeOK, Reflecting, Reflects, Moves, historyVars
<1>1. ASSUME NEW p \in Users, Load(p) PROVE Reflecting'
  <2>1. ~disturbed /\ file # Empty
    BY <1>1, Zenon DEF Load
  <2>2. file \in Configs \/ file = Missing
    BY <2>1
  <2>3. agreed => Loaded.eula
    BY <2>1, <2>2 DEF Loaded, Configs, Missing
  <2>4. choice # "none" => Loaded.source = choice /\ Loaded.token = 0
    BY <2>1, <2>2 DEF Loaded, Configs, Missing
  <2>5. stage'[p] \in {"loaded", "create"} /\ snapshot'[p] = Loaded
    BY <1>1 DEF Load, OnceLoaded
  <2>6. \A q \in Users \ {p} : stage'[q] = stage[q] /\ snapshot'[q] = snapshot[q]
    BY <1>1 DEF Load
  <2>7. choice' \in {choice, "none"} /\ (p = "capture" => choice' = "none")
    BY <1>1 DEF Load
  <2> QED BY <1>1, <2>1, <2>2, <2>3, <2>4, <2>5, <2>6, <2>7 DEF Load
<1>2. ASSUME NEW p \in Users, Truncate(p) PROVE Reflecting'
  <2>1. ~disturbed
    BY <1>2 DEF Truncate
  <2> QED BY <1>2, <2>1 DEF Truncate, Empty, Missing, Garbled
<1>3. ASSUME NEW p \in Users, Write(p) PROVE Reflecting'
  <2>1. /\ ~disturbed /\ p \notin stale /\ file' = snapshot[p]
        /\ stale' = {q \in Users : stage[q] # "off"} \ {p}
    BY <1>3, UndisturbedWrite
  <2>2. file'.kind = "config" /\ file' # Garbled /\ file' # Missing
    BY <2>1 DEF Configs, Garbled, Missing
  <2>3. /\ stage[p] \in {"creating", "storing"} /\ stage'[p] \in {"loaded", "off"}
        /\ stage'[p] = "loaded" => snapshot'[p] = snapshot[p]
    BY <1>3 DEF Write
  <2>4. \A q \in Users \ {p} : stage'[q] = stage[q]
    BY <1>3 DEF Write
  <2>5. agreed' => snapshot[p].eula
    BY <1>3, <2>1 DEF Write, Storing
  <2>6. choice' # "none" => snapshot[p].source = choice' /\ snapshot[p].token = 0
    BY <1>3, <2>1, <2>3 DEF Write, Storing
  <2>7. p = "capture" => choice' = "none"
    BY <1>3, <2>1, <2>3 DEF Write
  <2>8. file' # Garbled /\ (file' = Missing => ~agreed' /\ choice' = "none")
    BY <2>2
  <2>9. Reflects(file)'
    BY <2>1, <2>5, <2>6
  <2>10. \A q \in Users \ stale' : stage'[q] \in {"off", "loaded"}
    BY <2>1, <2>3, <2>4
  <2>11. \A q \in Users \ stale' : stage'[q] = "loaded" => Reflects(snapshot[q])'
    BY <2>1, <2>3, <2>4, <2>5, <2>6
  <2>12. "capture" \notin stale' /\ stage'["capture"] # "off" => choice' = "none"
    BY <2>1, <2>3, <2>4, <2>7 DEF Users
  <2> QED BY <2>8, <2>9, <2>10, <2>11, <2>12
<1>4. CASE Accepts
  BY <1>4 DEF Accepts, Stores, Users, Configs
<1>5. ASSUME NEW source \in DisplaySources, Chooses(source) PROVE Reflecting'
  BY <1>5 DEF Chooses, Stores, Users, Configs
<1>6. CASE Granted
  BY <1>6 DEF Granted, Stores, Users, Configs
<1>7. ASSUME NEW p \in Users, Leaves(p) PROVE Reflecting'
  <2>1. ~disturbed
    BY <1>7, Zenon DEF Leaves
  <2>2. \A q \in Users :
          \/ stage'[q] = "off"
          \/ stage'[q] = stage[q] /\ snapshot'[q] = snapshot[q] /\ (q \in stale => q \in stale')
    BY <1>7 DEF Leaves
  <2> QED BY <1>7, <2>1, <2>2 DEF Leaves, Users
<1>8. CASE UNCHANGED configVars
  BY <1>8 DEF configVars
<1> QED BY <1>1, <1>2, <1>3, <1>4, <1>5, <1>6, <1>7, <1>8 DEF ConfigNext

LEMMA OneSecretStep ==
  ASSUME ConfigInv, [ConfigNext]_configVars, ~disturbed'
  PROVE  OneSecret'
<1> USE DEF ConfigInv, ConfigTypeOK, OneSecret, Holds, Moves, historyVars
<1>1. ASSUME NEW p \in Users, Load(p) PROVE OneSecret'
  <2>1. ~disturbed /\ file # Empty
    BY <1>1, Zenon DEF Load
  <2>2. CASE file = Missing
    <3>1. stage'[p] = "create"
      BY <1>1, <2>2 DEF Load, OnceLoaded
    <3> QED BY <1>1, <2>1, <2>2, <3>1 DEF Load, Missing
  <2>3. CASE file \in Configs
    <3>1. file.kind = "config" /\ file # Missing
      BY <2>3 DEF Configs, Missing
    <3>2. stage'[p] = "loaded" /\ snapshot'[p] = file
      BY <1>1, <3>1 DEF Load, Loaded, OnceLoaded
    <3> QED BY <1>1, <2>1, <3>1, <3>2 DEF Load
  <2> QED BY <1>1, <2>1, <2>2, <2>3 DEF Load
<1>2. ASSUME NEW p \in Users, Truncate(p) PROVE OneSecret'
  <2>1. ~disturbed /\ file' = Empty
    BY <1>2 DEF Truncate
  <2> QED BY <1>2, <2>1 DEF Truncate, Empty, Missing
<1>3. ASSUME NEW p \in Users, Write(p) PROVE OneSecret'
  <2>1. /\ ~disturbed /\ p \notin stale /\ file' = snapshot[p]
        /\ stale' = {q \in Users : stage[q] # "off"} \ {p}
    BY <1>3, UndisturbedWrite
  <2>2. file' # Missing
    BY <2>1 DEF Configs, Missing
  <2>3. /\ stage[p] \in {"creating", "storing"} /\ stage'[p] \in {"loaded", "off"}
        /\ stage'[p] = "loaded" => snapshot'[p] = snapshot[p]
    BY <1>3 DEF Write
  <2>4. \A q \in Users \ {p} : stage'[q] = stage[q] /\ snapshot'[q] = snapshot[q]
    BY <1>3 DEF Write
  <2>5. \A q \in Users : Holds(q)' => snapshot'[q].secret = snapshot[p].secret
    BY <2>1, <2>3, <2>4
  <2> QED BY <2>1, <2>2, <2>3, <2>4, <2>5
<1>4. ASSUME NEW p \in Users, NEW c, Stores(p, c), c.secret = snapshot[p].secret
      PROVE  OneSecret'
  BY <1>4 DEF Stores
<1>5. CASE Accepts
  <2>1. [snapshot["setup"] EXCEPT !.eula = TRUE].secret = snapshot["setup"].secret
    BY DEF Users, Configs
  <2> QED BY <1>4, <1>5, <2>1 DEF Accepts, Users
<1>6. ASSUME NEW source \in DisplaySources, Chooses(source) PROVE OneSecret'
  <2>1. [snapshot["display"] EXCEPT !.source = source, !.token = 0].secret
          = snapshot["display"].secret
    BY DEF Users, Configs
  <2> QED BY <1>4, <1>6, <2>1 DEF Chooses, Users
<1>7. CASE Granted
  <2>1. [snapshot["capture"] EXCEPT !.token = grants'].secret = snapshot["capture"].secret
    BY DEF Users, Configs
  <2> QED BY <1>4, <1>7, <2>1 DEF Granted, Users
<1>8. ASSUME NEW p \in Users, Leaves(p) PROVE OneSecret'
  <2>1. ~disturbed
    BY <1>8, Zenon DEF Leaves
  <2>2. \A q \in Users :
          \/ stage'[q] = "off"
          \/ stage'[q] = stage[q] /\ snapshot'[q] = snapshot[q] /\ (q \in stale => q \in stale')
    BY <1>8 DEF Leaves
  <2> QED BY <1>8, <2>1, <2>2 DEF Leaves
<1>9. CASE UNCHANGED configVars
  BY <1>9 DEF configVars
<1> QED BY <1>1, <1>2, <1>3, <1>5, <1>6, <1>7, <1>8, <1>9 DEF ConfigNext

LEMMA ConfigInvariant == ConfigSpec => []ConfigInv
<1>1. ConfigInv /\ [ConfigNext]_configVars => ConfigInv'
  BY ConfigTypeStep, StoringStep, ReflectingStep, OneSecretStep DEF ConfigInv
<1> QED BY <1>1, ConfigInvInit, PTL DEF ConfigSpec

(* The state of the configuration and of its users is well typed.          *)
THEOREM ConfigTypeCorrect == ConfigSpec => []ConfigTypeOK
<1>1. ConfigInv => ConfigTypeOK
  BY DEF ConfigInv
<1> QED BY <1>1, ConfigInvariant, PTL

(* A session and its bridge have the same token, unless a store was        *)
(* disturbed.                                                              *)
THEOREM SessionAgreesCorrect == ConfigSpec => []SessionAgrees
<1>1. ConfigInv => SessionAgrees
  BY DEF ConfigInv, OneSecret, Holds, SessionAgrees, Users
<1> QED BY <1>1, ConfigInvariant, PTL

(* The EULA stays recorded and the chosen source without a token stays     *)
(* chosen until a session starts, unless a store was disturbed.            *)
THEOREM ChangesStayCorrect == ConfigSpec => []ChangesStay
<1>1. ConfigInv => ChangesStay
  BY DEF ConfigInv, Reflecting, Reflects, ChangesStay
<1> QED BY <1>1, ConfigInvariant, PTL
=============================================================================
