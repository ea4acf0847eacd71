----------------------------- MODULE QuickLaunch -----------------------------
(* Quick launch (src/launcher.rs): prepare writes the desktop's            *)
(* applications into Wine's Uninstall registry, each with a launcher of    *)
(* its own, and records the keys it wrote so that the next start can       *)
(* delete them; the service launches what a launcher asks for.             *)
EXTENDS Naturals, FiniteSets

CONSTANTS
    Apps,       \* desktop ids, numbered in their order
    MaxApps     \* MAX_APPS

ASSUME LaunchAssumption == Apps \subseteq Nat /\ IsFiniteSet(Apps) /\ MaxApps \in Nat

VARIABLES
    preparing,  \* where prepare is
    installed,  \* applications the desktop shows
    chosen,     \* those prepare has picked
    old,        \* the keys it has read
    keys,       \* the keys file
    staged,     \* applications with a launcher in the prefix
    registry,   \* applications in Wine's registry
    served,     \* the service's catalogue, empty while there is none
    untidy      \* a prepare was cut short after it rewrote the keys

launchVars == <<preparing, installed, chosen, old, keys, staged, registry,
                served, untidy>>

LaunchInit ==
    /\ preparing = "off"
    /\ installed \in SUBSET Apps
    /\ chosen = {} /\ old = {} /\ keys = {} /\ staged = {} /\ registry = {}
    /\ served = {} /\ untidy = FALSE

(* apps.values().take(MAX_APPS)                                            *)
Taken(apps) == {a \in apps : Cardinality({b \in apps : b <= a}) <= MaxApps}

Step(from, to) == preparing = from /\ preparing' = to

Catalog ==
    /\ Step("off", "wipe")
    /\ chosen' = Taken(installed)
    /\ UNCHANGED <<installed, old, keys, staged, registry, served, untidy>>

Wipe ==
    /\ Step("wipe", "stage")
    /\ staged' = {}
    /\ old' = keys
    /\ UNCHANGED <<installed, chosen, keys, registry, served, untidy>>

StageOne(app) ==
    /\ Step("stage", "stage")
    /\ app \in chosen \ staged
    /\ staged' = staged \cup {app}
    /\ UNCHANGED <<installed, chosen, old, keys, registry, served, untidy>>

WriteKeys ==
    /\ Step("stage", "import") /\ staged = chosen
    /\ keys' = chosen
    /\ UNCHANGED <<installed, chosen, old, staged, registry, served, untidy>>

ImportMutant ==
    /\ Step("import", "done")
    /\ registry' = registry \cup chosen
    /\ UNCHANGED <<installed, chosen, old, keys, staged, served, untidy>>
Import ==
    /\ Step("import", "done")
    /\ registry' = (registry \ old) \cup chosen
    /\ UNCHANGED <<installed, chosen, old, keys, staged, served, untidy>>

(* A step fails or the process ends, in the middle of the step if need be. *)
PrepareInterrupted ==
    /\ preparing \notin {"off", "done"} /\ preparing' = "off"
    /\ staged' \in IF preparing = "wipe" THEN SUBSET staged ELSE {staged}
    /\ keys' \in IF preparing = "stage" /\ staged = chosen
                   THEN {keys} \cup SUBSET chosen ELSE {keys}
    /\ registry' \in IF preparing = "import"
                       THEN {(registry \ gone) \cup new :
                                gone \in SUBSET old, new \in SUBSET chosen}
                       ELSE {registry}
    /\ untidy' = (untidy \/ preparing = "import" \/ keys' # keys)
    /\ UNCHANGED <<installed, chosen, old, served>>

PrepareStep ==
    Wipe \/ (\E app \in Apps : StageOne(app)) \/ WriteKeys \/ Import

(* The service scans the desktop anew and answers until the session ends.  *)
Serve ==
    /\ preparing = "done" /\ served = {}
    /\ served' = installed
    /\ UNCHANGED <<preparing, installed, chosen, old, keys, staged, registry, untidy>>

LaunchEnds ==
    /\ Step("done", "off")
    /\ served' = {}
    /\ UNCHANGED <<installed, chosen, old, keys, staged, registry, untidy>>

(* Applications come and go.                                               *)
DesktopChanges(app) ==
    /\ installed' \in {installed \cup {app}, installed \ {app}}
    /\ UNCHANGED <<preparing, chosen, old, keys, staged, registry, served, untidy>>

LaunchNext ==
    \/ Catalog \/ PrepareStep \/ PrepareInterrupted \/ Serve \/ LaunchEnds
    \/ \E app \in Apps : DesktopChanges(app)
LaunchSpec == LaunchInit /\ [][LaunchNext]_launchVars

-----------------------------------------------------------------------------
(* Properties                                                              *)

LaunchTypeOK ==
    /\ preparing \in {"off", "wipe", "stage", "import", "done"}
    /\ installed \subseteq Apps /\ chosen \subseteq Apps /\ old \subseteq Apps
    /\ keys \subseteq Apps /\ staged \subseteq Apps /\ registry \subseteq Apps
    /\ served \subseteq Apps /\ untidy \in BOOLEAN

(* Every entry uur wrote is in the keys file, from which the next start    *)
(* deletes it, and there are at most MaxApps of them, so that they cannot  *)
(* pile up -- unless a start was cut short between writing the keys and    *)
(* importing them: such entries stay for good.                             *)
EntriesAreTracked ==
    ~untidy /\ preparing # "import" =>
        registry = keys /\ Cardinality(registry) <= MaxApps
=============================================================================
