------------------------------- MODULE Session -------------------------------
(***************************************************************************)
(* The session supervisor (src/session.rs).  `uur run` takes the session   *)
(* lock, prepares the Wine prefix, starts its helpers in order, watches    *)
(* them and the client, and shuts everything down in reverse order.  `uur  *)
(* stop` is another process, or a thread of the tray helper: it reads the  *)
(* identity in the lock file, signals that process, and cleans up itself   *)
(* when there is none or when it takes too long.                           *)
(***************************************************************************)
EXTENDS Naturals, Sequences

CONSTANTS
    Runs,       \* processes that execute `uur run`
    Stops,      \* executions of `uur stop`
    NoRun,      \* no such process
    Startup,    \* the helpers, in the order of their start
    MaxCrashes  \* bound: supervisors killed by something else than uur

ASSUME SessionAssumption ==
    /\ NoRun \notin Runs
    /\ Startup \in Seq(STRING)
    /\ MaxCrashes \in Nat

Names == {Startup[i] : i \in DOMAIN Startup}
Required == {"__bridge", "__capture", "__terminal", "__launcher", "winlogon"}
Spare == {"__tray", "__inhibit"}
Awaited == {"__terminal", "__launcher", "__bridge", "__capture"}

VARIABLES
    lock,       \* who holds the flock on session.lock
    identity,   \* whose process the file names, NoRun when it is empty
    phase,      \* where each run is
    signal,     \* its SIGTERM: "default", "armed" (handler set) or "stop"
    next,       \* the next helper to start
    helpers,    \* resources.helpers: started and not yet terminated
    living,     \* helpers alive, as <<run, name>>
    wine,       \* runs with processes in the Wine prefix
    frames,     \* whose frames are at the transport's path
    stop,       \* where each execution of stop is
    host,       \* the run whose tray executes it, NoRun for a command
    target,     \* the process it found in the lock file
    crashes     \* supervisors killed by something else than uur

lockVars == <<lock, identity>>
runVars == <<next, helpers>>
world == <<living, wine, frames>>
stopVars == <<stop, host, target>>
vars == <<lock, identity, phase, signal, next, helpers, living, wine, frames,
          stop, host, target, crashes>>

Live(r) == phase[r] \notin {"new", "refused", "ended", "killed"}

Init ==
    /\ lock = NoRun /\ identity = NoRun
    /\ phase = [r \in Runs |-> "new"]
    /\ signal = [r \in Runs |-> "default"]
    /\ next = [r \in Runs |-> 1]
    /\ helpers = [r \in Runs |-> {}]
    /\ living = {} /\ wine = {} /\ frames = NoRun
    /\ stop = [s \in Stops |-> "new"]
    /\ host = [s \in Stops |-> NoRun]
    /\ target = [s \in Stops |-> NoRun]
    /\ crashes = 0

-----------------------------------------------------------------------------
(* Steps shared by several actions.                                        *)

Goes(r, from, to) == phase[r] \in from /\ phase' = [phase EXCEPT ![r] = to]

(* A supervisor ends: its lock is free and its memory is gone.             *)
Ends(r, as) ==
    /\ phase' = [phase EXCEPT ![r] = as]
    /\ lock' = NoRun
    /\ signal' = [signal EXCEPT ![r] = "default"]
    /\ next' = [next EXCEPT ![r] = 1]
    /\ helpers' = [helpers EXCEPT ![r] = {}]

(* Helpers die, and with a tray the stop that it executes.                 *)
Dies(dead) ==
    /\ living' = living \ dead
    /\ stop' = [s \in Stops |->
                  IF <<host[s], "__tray">> \in dead /\ stop[s] \notin {"new", "done"}
                    THEN "gone" ELSE stop[s]]
    /\ host' = [s \in Stops |-> IF <<host[s], "__tray">> \in dead THEN NoRun ELSE host[s]]

-----------------------------------------------------------------------------
(* acquire_session_lock                                                    *)

(* The file is opened truncated.                                           *)
LockMutant(r) ==
    /\ phase[r] = "new"
    /\ identity' = NoRun
    /\ IF lock = NoRun
         THEN lock' = r /\ phase' = [phase EXCEPT ![r] = "locked"]
         ELSE UNCHANGED lock /\ phase' = [phase EXCEPT ![r] = "refused"]
    /\ UNCHANGED <<signal, runVars, world, stopVars, crashes>>
Lock(r) ==
    /\ phase[r] = "new"
    /\ IF lock = NoRun
         THEN lock' = r /\ phase' = [phase EXCEPT ![r] = "locked"]
         ELSE UNCHANGED lock /\ phase' = [phase EXCEPT ![r] = "refused"]
    /\ UNCHANGED <<identity, signal, runVars, world, stopVars, crashes>>

Truncate(r) ==
    /\ Goes(r, {"locked"}, "cleared")
    /\ identity' = NoRun
    /\ UNCHANGED <<lock, signal, runVars, world, stopVars, crashes>>

(* The file is not kept: it is closed when acquire_session_lock returns.   *)
RecordMutant(r) ==
    /\ Goes(r, {"cleared"}, "recorded")
    /\ identity' = r
    /\ lock' = NoRun
    /\ UNCHANGED <<signal, runVars, world, stopVars, crashes>>
Record(r) ==
    /\ Goes(r, {"cleared"}, "recorded")
    /\ identity' = r
    /\ UNCHANGED <<lock, signal, runVars, world, stopVars, crashes>>

(* An error before there are any resources to shut down.                   *)
Abandon(r) ==
    /\ Goes(r, {"locked", "cleared", "recorded"}, "cleaned")
    /\ UNCHANGED <<lockVars, signal, runVars, world, stopVars, crashes>>

-----------------------------------------------------------------------------
(* start                                                                   *)

(* Hooks, registry and adapters are put into the prefix, which runs Wine,  *)
(* and the previous frames are removed.  Until the handlers are registered *)
(* a SIGTERM ends the process on the spot.                                 *)
Prepare(r) ==
    /\ Goes(r, {"recorded"}, "prepared")
    /\ wine' = wine \cup {r}
    /\ frames' = NoRun
    /\ UNCHANGED <<lockVars, signal, runVars, living, stopVars, crashes>>

Arm(r) ==
    /\ Goes(r, {"prepared"}, "starting")
    /\ signal' = [signal EXCEPT ![r] = "armed"]
    /\ UNCHANGED <<lockVars, runVars, world, stopVars, crashes>>

StartHelper(r, name) ==
    /\ next[r] \in DOMAIN Startup
    /\ Startup[next[r]] = name
    /\ Goes(r, {"starting"}, IF name \in Awaited THEN "awaiting" ELSE "starting")
    /\ next' = [next EXCEPT ![r] = @ + 1]
    /\ helpers' = [helpers EXCEPT ![r] = @ \cup {name}]
    /\ living' = living \cup {<<r, name>>}
    /\ wine' = IF name = "winlogon" THEN wine \cup {r} ELSE wine
    /\ UNCHANGED <<lockVars, signal, frames, stopVars, crashes>>

(* start goes on without a spare helper and ends without any other.        *)
SpawnFails(r, name) ==
    /\ next[r] \in DOMAIN Startup
    /\ Startup[next[r]] = name
    /\ IF name \in Spare
         THEN Goes(r, {"starting"}, "starting") /\ next' = [next EXCEPT ![r] = @ + 1]
         ELSE Goes(r, {"starting"}, "closing") /\ UNCHANGED next
    /\ UNCHANGED <<lockVars, signal, helpers, world, stopVars, crashes>>

(* check_required_helpers, ensure_running                                  *)
Missing(r, names) == \E name \in helpers[r] \cap names : <<r, name>> \notin living

(* The helpers that a wait or the watch looks at.                          *)
Watched(r) ==
    IF phase[r] = "awaiting" /\ Startup[next[r] - 1] # "__capture"
      THEN {Startup[next[r] - 1]} \cap {"__bridge"}
      ELSE Required

(* wait_for_runtime_file, wait_for_bridge, wait_for_capture                *)
Ready(r) ==
    /\ Goes(r, {"awaiting"}, "starting")
    /\ signal[r] # "stop"
    /\ ~Missing(r, Watched(r))
    /\ Startup[next[r] - 1] = "__capture" => frames # NoRun
    /\ UNCHANGED <<lockVars, signal, runVars, world, stopVars, crashes>>

Started(r) ==
    /\ next[r] \notin DOMAIN Startup
    /\ Goes(r, {"starting"}, "service")
    /\ UNCHANGED <<lockVars, signal, runVars, world, stopVars, crashes>>

(* The service runs, which is looked at before the stop flag; the client   *)
(* is launched.                                                            *)
Serves(r) ==
    /\ Goes(r, {"service"}, "watching")
    /\ wine' = wine \cup {r}
    /\ UNCHANGED <<lockVars, signal, runVars, living, frames, stopVars, crashes>>

(* What ends a wait or the watch: the stop flag, a helper that is gone ... *)
InterruptibleMutant == {"awaiting", "service"}
Interruptible == {"awaiting", "service", "watching"}

Cancelled(r) ==
    /\ signal[r] = "stop"
    /\ Goes(r, Interruptible, "closing")
    /\ UNCHANGED <<lockVars, signal, runVars, world, stopVars, crashes>>

HelperMissed(r) ==
    /\ Goes(r, {"awaiting", "service", "watching"}, "closing")
    /\ Missing(r, Watched(r))
    /\ UNCHANGED <<lockVars, signal, runVars, world, stopVars, crashes>>

(* ... a deadline, an error, or the end of the client.                     *)
Leaves(r) ==
    /\ Goes(r, {"prepared", "starting", "awaiting", "service", "watching"}, "closing")
    /\ UNCHANGED <<lockVars, signal, runVars, world, stopVars, crashes>>

-----------------------------------------------------------------------------
(* SessionResources::shutdown                                              *)

(* terminate kills what is still there a second after SIGTERM, such as a   *)
(* tray whose stop waits for this very supervisor to end.                  *)
KilledMutant(r, name) ==
    {<<r, name>>} \ {<<host[s], "__tray">> : s \in {x \in Stops : stop[x] = "wait"}}
Killed(r, name) == {<<r, name>>}

Terminate(r, name) ==
    /\ phase[r] = "closing"
    /\ name \in helpers[r]
    /\ \E i \in DOMAIN Startup :
         /\ Startup[i] = name
         /\ \A j \in DOMAIN Startup : j > i => Startup[j] \notin helpers[r]
    /\ Dies(Killed(r, name))
    /\ helpers' = [helpers EXCEPT ![r] = @ \ {name}]
    /\ UNCHANGED <<lockVars, phase, signal, next, wine, frames, target, crashes>>

(* stop_wineserver ends every Wine process of the prefix, also winlogon.   *)
ShutdownWine(r) ==
    /\ Goes(r, {"closing"}, "unwined")
    /\ helpers[r] = {}
    /\ wine' = {}
    /\ living' = living \ (Runs \X {"winlogon"})
    /\ UNCHANGED <<lockVars, signal, runVars, frames, stopVars, crashes>>

RemoveFrames(r) ==
    /\ Goes(r, {"unwined"}, "cleaned")
    /\ frames' = NoRun
    /\ UNCHANGED <<lockVars, signal, runVars, living, wine, stopVars, crashes>>

(* The lock file is the last of start's values to be dropped.              *)
Exit(r) ==
    /\ phase[r] = "cleaned"
    /\ Ends(r, "ended")
    /\ UNCHANGED <<identity, world, stopVars, crashes>>

-----------------------------------------------------------------------------
(* stop                                                                    *)

BeginStop(s, h) ==
    /\ stop[s] = "new"
    /\ h # NoRun => <<h, "__tray">> \in living
    /\ host' = [host EXCEPT ![s] = h]
    /\ target' = [target EXCEPT ![s] = identity]
    /\ stop' = [stop EXCEPT ![s] = IF identity = NoRun THEN "wine" ELSE "look"]
    /\ UNCHANGED <<lockVars, phase, signal, runVars, world, crashes>>

(* Does the process that the file names still exist?                       *)
LookFor(s) ==
    /\ stop[s] = "look"
    /\ stop' = [stop EXCEPT ![s] = IF Live(target[s]) THEN "signal" ELSE "wine"]
    /\ UNCHANGED <<lockVars, phase, signal, runVars, world, host, target, crashes>>

SendSignal(s) ==
    /\ stop[s] = "signal"
    /\ stop' = [stop EXCEPT ![s] = "wait"]
    /\ IF Live(target[s]) /\ signal[target[s]] = "default"
         THEN Ends(target[s], "killed")
         ELSE /\ signal' = IF Live(target[s])
                             THEN [signal EXCEPT ![target[s]] = "stop"] ELSE signal
              /\ UNCHANGED <<lock, phase, runVars>>
    /\ UNCHANGED <<identity, world, host, target, crashes>>

(* It ended within ten seconds, and stop returns at once ...               *)
SeesEnd(s) ==
    /\ stop[s] = "wait"
    /\ ~Live(target[s])
    /\ stop' = [stop EXCEPT ![s] = "done"]
    /\ UNCHANGED <<lockVars, phase, signal, runVars, world, host, target, crashes>>

(* ... or it did not, and stop cleans up.                                  *)
WaitsNoLonger(s) ==
    /\ stop[s] = "wait"
    /\ stop' = [stop EXCEPT ![s] = "wine"]
    /\ UNCHANGED <<lockVars, phase, signal, runVars, world, host, target, crashes>>

StopStopsWine(s) ==
    /\ stop[s] = "wine"
    /\ wine' = {}
    /\ living' = living \ (Runs \X {"winlogon"})
    /\ stop' = [stop EXCEPT ![s] = "frames"]
    /\ UNCHANGED <<lockVars, phase, signal, runVars, frames, host, target, crashes>>

StopRemovesFrames(s) ==
    /\ stop[s] = "frames"
    /\ frames' = NoRun
    /\ stop' = [stop EXCEPT ![s] = "done"]
    /\ UNCHANGED <<lockVars, phase, signal, runVars, living, wine, host, target, crashes>>

-----------------------------------------------------------------------------
(* Helpers, and what may end a supervisor: a signal of the terminal, which *)
(* sets the flag once the handlers are registered, or a kill.              *)

HelperDies(r, name) ==
    /\ <<r, name>> \in living
    /\ Dies({<<r, name>>})
    /\ UNCHANGED <<lockVars, phase, signal, runVars, wine, frames, target, crashes>>

Publishes(r) ==
    /\ <<r, "__capture">> \in living
    /\ frames' = r
    /\ UNCHANGED <<lockVars, phase, signal, runVars, living, wine, stopVars, crashes>>

(* show_client: the tray starts the client of the session it finds.        *)
ShowsClientMutant(r) ==
    /\ <<r, "__tray">> \in living
    /\ wine' = wine \cup {identity}
    /\ UNCHANGED <<lockVars, phase, signal, runVars, living, frames, stopVars, crashes>>
ShowsClient(r) ==
    /\ <<r, "__tray">> \in living
    /\ identity # NoRun
    /\ Live(identity)
    /\ wine' = wine \cup {identity}
    /\ UNCHANGED <<lockVars, phase, signal, runVars, living, frames, stopVars, crashes>>

Interrupt(r) ==
    /\ Live(r)
    /\ signal[r] = "armed"
    /\ signal' = [signal EXCEPT ![r] = "stop"]
    /\ UNCHANGED <<lockVars, phase, runVars, world, stopVars, crashes>>

Crash(r) ==
    /\ crashes < MaxCrashes
    /\ Live(r)
    /\ Ends(r, "killed")
    /\ crashes' = crashes + 1
    /\ UNCHANGED <<identity, world, stopVars>>

-----------------------------------------------------------------------------
Own(r) ==
    \/ Truncate(r) \/ Record(r) \/ Prepare(r) \/ Arm(r)
    \/ \E name \in Names : StartHelper(r, name) \/ SpawnFails(r, name) \/ Terminate(r, name)
    \/ Ready(r) \/ Started(r) \/ Serves(r)
    \/ Cancelled(r) \/ HelperMissed(r)
    \/ ShutdownWine(r) \/ RemoveFrames(r) \/ Exit(r)

Run(r) == Lock(r) \/ Own(r) \/ Abandon(r) \/ Leaves(r) \/ Interrupt(r) \/ Crash(r)

Helper(r) ==
    \/ \E name \in Names : HelperDies(r, name)
    \/ Publishes(r) \/ ShowsClient(r)

StopCommand(s) ==
    \/ \E h \in Runs \cup {NoRun} : BeginStop(s, h)
    \/ LookFor(s) \/ SendSignal(s) \/ SeesEnd(s) \/ WaitsNoLonger(s)
    \/ StopStopsWine(s) \/ StopRemovesFrames(s)

Next ==
    \/ \E r \in Runs : Run(r) \/ Helper(r)
    \/ \E s \in Stops : StopCommand(s)

(* A supervisor that holds the lock and can take a step does; the rest of  *)
(* the world need not.                                                     *)
Fairness == \A r \in Runs : WF_vars(Own(r))

Spec == Init /\ [][Next]_vars
FairSpec == Spec /\ Fairness

-----------------------------------------------------------------------------
(* Properties                                                              *)

Phases == {"new", "refused", "locked", "cleared", "recorded", "prepared", "starting",
           "awaiting", "service", "watching", "closing", "unwined", "cleaned", "ended",
           "killed"}

TypeOK ==
    /\ lock \in Runs \cup {NoRun}
    /\ identity \in Runs \cup {NoRun}
    /\ phase \in [Runs -> Phases]
    /\ signal \in [Runs -> {"default", "armed", "stop"}]
    /\ next \in [Runs -> Nat \ {0}]
    /\ helpers \in [Runs -> SUBSET Names]
    /\ living \subseteq Runs \X Names
    /\ wine \subseteq Runs
    /\ frames \in Runs \cup {NoRun}
    /\ stop \in [Stops -> {"new", "look", "signal", "wait", "wine", "frames", "done", "gone"}]
    /\ host \in [Stops -> Runs \cup {NoRun}]
    /\ target \in [Stops -> Runs \cup {NoRun}]
    /\ \A s \in Stops : stop[s] \in {"look", "signal", "wait"} => target[s] \in Runs
    /\ crashes \in Nat

(* stop and the tray find a running session through session.lock: once it  *)
(* has written its identity, the file names it until it has ended, however *)
(* many other runs are refused or end meanwhile.                           *)
Recorded(r) == Live(r) /\ phase[r] \notin {"locked", "cleared", "cleaned"}
IdentityNamesHolder == \A r \in Runs : Recorded(r) => lock = r /\ identity = r

(* Two supervisors never run helpers side by side: unless a supervisor was *)
(* killed, a helper that is alive belongs to the run that holds the lock,  *)
(* so two of them cannot fight for the bridge's port or for the frames.    *)
HelpersUnderLock == crashes = 0 => \A h \in living : h[1] = lock

(* A session that ends by itself leaves nothing behind, wherever it was in *)
(* its start or its watch, whichever helpers had died and whichever stop   *)
(* ran beside it: no helper, no Wine process, no frame.                    *)
EndedLeavesNothing ==
    crashes = 0 =>
        \A r \in Runs : phase[r] = "ended" =>
            /\ \A name \in Names : <<r, name>> \notin living
            /\ r \notin wine
            /\ frames # r

(* "Stop every uur-owned process and the managed Wine prefix"              *)
(* (src/main.rs): a stop that saw its session end leaves nothing of it.    *)
StopLeavesNothing ==
    \A s \in Stops : stop[s] = "done" /\ target[s] # NoRun =>
        Live(target[s]) \/ (/\ \A name \in Names : <<target[s], name>> \notin living
                            /\ target[s] \notin wine)

(* A stop that is noted ends the run, also while it waits for a helper,    *)
(* for the service or for the client, and also when the stop comes from    *)
(* the tray, which the supervisor must end first.                          *)
StopEndsRun == \A r \in Runs : signal[r] = "stop" ~> ~Live(r)
=============================================================================
