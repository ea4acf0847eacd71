--------------------------- MODULE Session_proofs ---------------------------
(* Theorems about the session supervisor, for any runs, stops and helpers. *)
EXTENDS Session, Integers, FiniteSetTheorems, TLAPS

-----------------------------------------------------------------------------
(* The inductive invariant.  A run that is live holds the lock, and the    *)
(* file names it once it has recorded itself.                              *)

Holding ==
    \A r \in Runs : /\ Live(r) => lock = r
                    /\ Recorded(r) => identity = r

(* As long as only uur ends supervisors, every helper that is alive is     *)
(* still in the list of a supervisor that will end it, and Wine processes  *)
(* and frames belong to one that has yet to stop and to remove them, or    *)
(* that a stop has killed before it could note a signal.                   *)

Running == {"starting", "awaiting", "service", "watching", "closing"}

Owned ==
    /\ \A r \in Runs, name \in Names : <<r, name>> \in living => name \in helpers[r]
    /\ \A r \in Runs : helpers[r] # {} => phase[r] \in Running /\ signal[r] # "default"
    /\ \A r \in Runs :
         phase[r] \in {"starting", "awaiting", "service", "watching"} => signal[r] # "default"
    /\ \A r \in wine : phase[r] \in Running \cup {"prepared", "killed"}
    /\ frames # NoRun =>
         phase[frames] \in Running \cup {"unwined"} /\ signal[frames] # "default"

Inv == TypeOK /\ Holding /\ (crashes = 0 => Owned)

LEMMA InvInit == Init => Inv
<1> SUFFICES ASSUME Init PROVE Inv
  OBVIOUS
<1>1. TypeOK
  BY SessionAssumption DEF Init, TypeOK, Phases
<1>2. Holding
  BY DEF Init, Holding, Live, Recorded
<1>3. Owned
  BY DEF Init, Owned, Running
<1> QED BY <1>1, <1>2, <1>3 DEF Inv

-----------------------------------------------------------------------------
(* Types.                                                                  *)

LEMMA EndsType ==
  ASSUME TypeOK, NEW r \in Runs, NEW as \in Phases, Ends(r, as)
  PROVE  /\ lock' \in Runs \cup {NoRun}
         /\ phase' \in [Runs -> Phases]
         /\ signal' \in [Runs -> {"default", "armed", "stop"}]
         /\ next' \in [Runs -> Nat \ {0}]
         /\ helpers' \in [Runs -> SUBSET Names]
<1>1. lock' \in Runs \cup {NoRun} /\ phase' \in [Runs -> Phases]
  BY DEF Ends, TypeOK
<1>2. signal' \in [Runs -> {"default", "armed", "stop"}] /\ next' \in [Runs -> Nat \ {0}]
  BY DEF Ends, TypeOK
<1>3. helpers' \in [Runs -> SUBSET Names]
  BY DEF Ends, TypeOK
<1> QED BY <1>1, <1>2, <1>3

LEMMA DiesType ==
  ASSUME TypeOK, NEW dead, Dies(dead), UNCHANGED target
  PROVE  /\ living' \subseteq Runs \X Names
         /\ stop' \in [Stops -> {"new", "look", "signal", "wait", "wine", "frames", "done", "gone"}]
         /\ host' \in [Stops -> Runs \cup {NoRun}]
         /\ \A s \in Stops : stop'[s] \in {"look", "signal", "wait"} => target'[s] \in Runs
BY DEF Dies, TypeOK

LEMMA HelperType ==
  ASSUME TypeOK, NEW r \in Runs, NEW name \in Names,
         StartHelper(r, name) \/ SpawnFails(r, name) \/ Terminate(r, name)
           \/ HelperDies(r, name)
  PROVE  TypeOK'
<1>1. CASE StartHelper(r, name)
  BY <1>1 DEF StartHelper, Goes, TypeOK, Phases, lockVars, stopVars
<1>2. CASE SpawnFails(r, name)
  BY <1>2 DEF SpawnFails, Goes, TypeOK, Phases, lockVars, world, stopVars
<1>3. CASE Terminate(r, name)
  BY <1>3, DiesType DEF Terminate, TypeOK, lockVars
<1>4. CASE HelperDies(r, name)
  BY <1>4, DiesType DEF HelperDies, TypeOK, lockVars, runVars
<1> QED BY <1>1, <1>2, <1>3, <1>4

LEMMA RunType ==
  ASSUME TypeOK, NEW r \in Runs, Run(r) \/ Helper(r)
  PROVE  TypeOK'
<1>1. ASSUME NEW name \in Names,
             StartHelper(r, name) \/ SpawnFails(r, name) \/ Terminate(r, name)
               \/ HelperDies(r, name)
      PROVE TypeOK'
  BY <1>1, HelperType
<1>2. CASE Lock(r) \/ Truncate(r) \/ Record(r) \/ Abandon(r)
  BY <1>2 DEF Lock, Truncate, Record, Abandon, Goes, TypeOK, Phases, lockVars, runVars,
              world, stopVars
<1>3. CASE Prepare(r) \/ Arm(r) \/ Ready(r) \/ Started(r) \/ Serves(r)
  BY <1>3 DEF Prepare, Arm, Ready, Started, Serves, Goes, TypeOK, Phases, lockVars,
              runVars, world, stopVars
<1>4. CASE Cancelled(r) \/ HelperMissed(r) \/ Leaves(r)
  BY <1>4 DEF Cancelled, HelperMissed, Leaves, Goes, TypeOK, Phases, lockVars, runVars,
              world, stopVars
<1>5. CASE ShutdownWine(r) \/ RemoveFrames(r)
  BY <1>5 DEF ShutdownWine, RemoveFrames, Goes, TypeOK, Phases, lockVars, runVars,
              world, stopVars
<1>6. CASE Exit(r) \/ Crash(r)
  <2>1. Ends(r, "ended") \/ Ends(r, "killed")
    BY <1>6 DEF Exit, Crash
  <2>2. crashes' \in Nat /\ UNCHANGED <<identity, world, stopVars>>
    BY <1>6 DEF Exit, Crash, TypeOK
  <2>3. "ended" \in Phases /\ "killed" \in Phases
    BY DEF Phases
  <2> QED BY <2>1, <2>2, <2>3, EndsType DEF TypeOK, world, stopVars
<1>7. CASE Interrupt(r) \/ Publishes(r) \/ ShowsClient(r)
  BY <1>7 DEF Interrupt, Publishes, ShowsClient, TypeOK, lockVars, runVars, world, stopVars
<1> QED BY <1>1, <1>2, <1>3, <1>4, <1>5, <1>6, <1>7 DEF Run, Own, Helper

LEMMA StopType ==
  ASSUME TypeOK, NEW s \in Stops, StopCommand(s)
  PROVE  TypeOK'
<1>1. ASSUME NEW h \in Runs \cup {NoRun}, BeginStop(s, h) PROVE TypeOK'
  BY <1>1 DEF BeginStop, TypeOK, lockVars, runVars, world
<1>2. CASE LookFor(s) \/ SeesEnd(s) \/ WaitsNoLonger(s)
  BY <1>2 DEF LookFor, SeesEnd, WaitsNoLonger, TypeOK, lockVars, runVars, world
<1>3. CASE SendSignal(s)
  <2>1. target[s] \in Runs
    BY <1>3 DEF SendSignal, TypeOK
  <2>2. /\ stop' \in [Stops -> {"new", "look", "signal", "wait", "wine", "frames", "done", "gone"}]
        /\ \A x \in Stops : stop'[x] \in {"look", "signal", "wait"} => target'[x] \in Runs
        /\ UNCHANGED <<identity, world, host, target, crashes>>
    BY <1>3, <2>1 DEF SendSignal, TypeOK
  <2>3. CASE Ends(target[s], "killed")
    BY <2>1, <2>2, <2>3, EndsType DEF TypeOK, world, Phases
  <2>4. CASE /\ UNCHANGED <<lock, phase, runVars>>
             /\ signal' \in {signal, [signal EXCEPT ![target[s]] = "stop"]}
    BY <2>1, <2>2, <2>4 DEF TypeOK, world, runVars
  <2> QED BY <1>3, <2>3, <2>4 DEF SendSignal
<1>4. CASE StopStopsWine(s) \/ StopRemovesFrames(s)
  BY <1>4 DEF StopStopsWine, StopRemovesFrames, TypeOK, lockVars, runVars
<1> QED BY <1>1, <1>2, <1>3, <1>4 DEF StopCommand

LEMMA TypeNext == ASSUME TypeOK, [Next]_vars PROVE TypeOK'
<1>1. CASE UNCHANGED vars
  BY <1>1 DEF vars, TypeOK
<1> QED BY <1>1, RunType, StopType DEF Next

-----------------------------------------------------------------------------
(* The lock and its file.                                                  *)

(* A step that changes neither of them, nor which runs are live or have    *)
(* recorded themselves, except that they may end.                          *)
LEMMA HoldingKept ==
  ASSUME TypeOK, Holding, UNCHANGED lockVars,
         \A r \in Runs : (Live(r)' => Live(r)) /\ (Recorded(r)' => Recorded(r))
  PROVE  Holding'
BY DEF Holding, lockVars

LEMMA HoldingEnds ==
  ASSUME TypeOK, Holding, NEW r \in Runs, Live(r), NEW as \in {"ended", "killed"},
         Ends(r, as), UNCHANGED identity
  PROVE  Holding'
<1>1. \A q \in Runs : ~Live(q)'
  BY SessionAssumption DEF Holding, Ends, Live, TypeOK
<1> QED BY <1>1 DEF Holding, Recorded

LEMMA HoldingNext == ASSUME TypeOK, Holding, [Next]_vars PROVE Holding'
<1>1. CASE UNCHANGED vars
  BY <1>1 DEF vars, Holding, Live, Recorded
<1>2. ASSUME NEW r \in Runs, Run(r) \/ Helper(r) PROVE Holding'
  <2>1. CASE Lock(r)
    BY <2>1, SessionAssumption DEF Lock, Holding, Live, Recorded, TypeOK
  <2>2. CASE Truncate(r)
    BY <2>2 DEF Truncate, Goes, Holding, Live, Recorded, TypeOK
  <2>3. CASE Record(r)
    BY <2>3 DEF Record, Goes, Holding, Live, Recorded, TypeOK
  <2>4. CASE Exit(r) \/ Crash(r)
    <3>1. Live(r) /\ UNCHANGED identity
      BY <2>4 DEF Exit, Crash, Live
    <3> QED BY <2>4, <3>1, HoldingEnds DEF Exit, Crash
  <2>5. CASE \/ Abandon(r) \/ Prepare(r) \/ Arm(r) \/ Ready(r) \/ Started(r) \/ Serves(r)
             \/ Cancelled(r) \/ HelperMissed(r) \/ Leaves(r)
             \/ ShutdownWine(r) \/ RemoveFrames(r)
             \/ \E name \in Names : StartHelper(r, name) \/ SpawnFails(r, name)
    <3>1. UNCHANGED lockVars
      BY <2>5 DEF Abandon, Prepare, Arm, Ready, Started, Serves, Cancelled, HelperMissed,
                  Leaves, ShutdownWine, RemoveFrames, StartHelper, SpawnFails
    <3>2. \E from, to : /\ from \subseteq Phases \ {"new", "refused", "ended", "killed"}
                        /\ Goes(r, from, to)
                        /\ to \in {"starting", "awaiting", "service", "watching", "closing",
                                   "prepared", "unwined"} => "locked" \notin from
                        /\ to \in {"starting", "awaiting", "service", "watching", "closing",
                                   "prepared", "unwined", "cleaned"}
                        /\ to # "cleaned" => from \cap {"locked", "cleared", "cleaned"} = {}
      BY <2>5 DEF Abandon, Prepare, Arm, Ready, Started, Serves, Cancelled, HelperMissed,
                  Leaves, ShutdownWine, RemoveFrames, StartHelper, SpawnFails,
                  Interruptible, Phases
    <3>3. \A q \in Runs : (Live(q)' => Live(q)) /\ (Recorded(q)' => Recorded(q))
      BY <3>2 DEF Goes, Live, Recorded, TypeOK
    <3> QED BY <3>1, <3>3, HoldingKept
  <2>6. CASE \/ Interrupt(r) \/ Publishes(r) \/ ShowsClient(r)
             \/ \E name \in Names : Terminate(r, name) \/ HelperDies(r, name)
    BY <2>6, HoldingKept
       DEF Interrupt, Publishes, ShowsClient, Terminate, HelperDies, Live, Recorded, lockVars
  <2> QED BY <1>2, <2>1, <2>2, <2>3, <2>4, <2>5, <2>6 DEF Run, Own, Helper
<1>3. ASSUME NEW s \in Stops, StopCommand(s) PROVE Holding'
  <2>1. CASE SendSignal(s)
    <3>1. target[s] \in Runs /\ UNCHANGED identity
      BY <2>1 DEF SendSignal, TypeOK
    <3>2. CASE Live(target[s]) /\ Ends(target[s], "killed")
      BY <3>1, <3>2, HoldingEnds
    <3>3. CASE UNCHANGED <<lock, phase>>
      BY <3>1, <3>3, HoldingKept DEF Live, Recorded, lockVars
    <3> QED BY <2>1, <3>2, <3>3 DEF SendSignal
  <2>2. CASE ~SendSignal(s)
    BY <1>3, <2>2, HoldingKept
       DEF StopCommand, BeginStop, LookFor, SeesEnd, WaitsNoLonger, StopStopsWine,
           StopRemovesFrames, Live, Recorded, lockVars
  <2> QED BY <2>1, <2>2
<1> QED BY <1>1, <1>2, <1>3 DEF Next

-----------------------------------------------------------------------------
(* What a session owns.                                                    *)

(* The shape of most steps of a run: it moves on, and what it owns stays.  *)
LEMMA OwnedGoes ==
  ASSUME TypeOK, Owned, NEW r \in Runs, NEW from, NEW to, Goes(r, from, to),
         UNCHANGED <<signal, helpers, living, wine, frames>>,
         phase[r] \in Running => to \in Running \/ (helpers[r] = {} /\ r \notin wine /\ frames # r),
         phase[r] \notin Running \cup {"prepared"} => r \notin wine,
         r \in wine => to \in Running \cup {"prepared"},
         frames = r => to \in Running \cup {"unwined"},
         to \in {"starting", "awaiting", "service", "watching"} => signal[r] # "default"
  PROVE  Owned'
<1>1. \A q \in Runs \ {r} : phase'[q] = phase[q]
  BY DEF Goes, TypeOK
<1>2. phase'[r] = to
  BY DEF Goes, TypeOK
<1>3. \A q \in Runs : helpers[q] # {} => phase'[q] \in Running /\ signal[q] # "default"
  BY <1>1, <1>2 DEF Owned
<1>4. \A q \in wine : phase'[q] \in Running \cup {"prepared", "killed"}
  BY <1>1, <1>2 DEF Owned, TypeOK
<1>5. frames # NoRun => phase'[frames] \in Running \cup {"unwined"} /\ signal[frames] # "default"
  BY <1>1, <1>2 DEF Owned, TypeOK
<1>6. \A q \in Runs :
        phase'[q] \in {"starting", "awaiting", "service", "watching"} => signal[q] # "default"
  BY <1>1, <1>2 DEF Owned
<1> QED BY <1>3, <1>4, <1>5, <1>6 DEF Owned

LEMMA OwnedEnds ==
  ASSUME TypeOK, Owned, NEW r \in Runs, NEW as \in {"ended", "killed"}, Ends(r, as),
         UNCHANGED world, helpers[r] = {}, frames # r, as = "killed" \/ r \notin wine
  PROVE  Owned'
<1>1. \A q \in Runs \ {r} : /\ phase'[q] = phase[q] /\ signal'[q] = signal[q]
                            /\ helpers'[q] = helpers[q]
  BY DEF Ends, TypeOK
<1>2. phase'[r] = as /\ helpers'[r] = {}
  BY DEF Ends, TypeOK
<1>3. \A q \in Runs, name \in Names : <<q, name>> \in living' => name \in helpers'[q]
  BY <1>1, <1>2 DEF Owned, world
<1>4. \A q \in Runs :
        /\ helpers'[q] # {} => phase'[q] \in Running /\ signal'[q] # "default"
        /\ phase'[q] \in {"starting", "awaiting", "service", "watching"}
             => signal'[q] # "default"
  BY <1>1, <1>2 DEF Owned
<1>5. \A q \in wine' : phase'[q] \in Running \cup {"prepared", "killed"}
  BY <1>1, <1>2 DEF Owned, world, TypeOK
<1>6. frames' # NoRun =>
        phase'[frames'] \in Running \cup {"unwined"} /\ signal'[frames'] # "default"
  BY <1>1 DEF Owned, world, TypeOK
<1> QED BY <1>3, <1>4, <1>5, <1>6 DEF Owned

LEMMA OwnedHelper ==
  ASSUME TypeOK, Owned, NEW r \in Runs, NEW name \in Names,
         StartHelper(r, name) \/ SpawnFails(r, name) \/ Terminate(r, name)
           \/ HelperDies(r, name)
  PROVE  Owned'
<1>1. CASE StartHelper(r, name)
  <2>1. /\ phase[r] = "starting" /\ phase' = [phase EXCEPT ![r] = phase'[r]]
        /\ phase'[r] \in {"starting", "awaiting"} /\ signal' = signal /\ frames' = frames
        /\ helpers' = [helpers EXCEPT ![r] = @ \cup {name}]
        /\ living' = living \cup {<<r, name>>}
        /\ wine' \subseteq wine \cup {r}
    BY <1>1 DEF StartHelper, Goes, TypeOK
  <2>2. signal[r] # "default"
    BY <2>1 DEF Owned
  <2> QED BY <2>1, <2>2 DEF Owned, TypeOK, Running
<1>2. CASE SpawnFails(r, name)
  <2>1. PICK to \in {"starting", "closing"} : Goes(r, {"starting"}, to)
    BY <1>2 DEF SpawnFails
  <2>2. UNCHANGED <<signal, helpers, living, wine, frames>> /\ phase[r] = "starting"
    BY <1>2, <2>1 DEF SpawnFails, Goes, world
  <2>3. signal[r] # "default"
    BY <2>2 DEF Owned
  <2> QED BY <2>1, <2>2, <2>3, OwnedGoes DEF Running
<1>3. CASE Terminate(r, name)
  BY <1>3 DEF Terminate, Dies, Killed, Owned, TypeOK
<1>4. CASE HelperDies(r, name)
  BY <1>4 DEF HelperDies, Dies, runVars, Owned, TypeOK
<1> QED BY <1>1, <1>2, <1>3, <1>4

LEMMA OwnedStops == ASSUME TypeOK, Owned, NEW s \in Stops, StopCommand(s) PROVE Owned'
<1>1. CASE SendSignal(s)
  <2>1. target[s] \in Runs /\ UNCHANGED world
    BY <1>1 DEF SendSignal, TypeOK
  <2>2. CASE Live(target[s]) /\ signal[target[s]] = "default"
    <3>1. helpers[target[s]] = {} /\ frames # target[s]
      BY <2>1, <2>2, SessionAssumption DEF Owned
    <3>2. Ends(target[s], "killed")
      BY <1>1, <2>2 DEF SendSignal
    <3> QED BY <2>1, <3>1, <3>2, OwnedEnds
  <2>3. CASE ~(Live(target[s]) /\ signal[target[s]] = "default")
    <3>1. /\ UNCHANGED <<phase, helpers, living, wine, frames>>
          /\ \A q \in Runs : signal'[q] = "default" => signal[q] = "default"
      BY <1>1, <2>1, <2>3 DEF SendSignal, runVars, world, TypeOK
    <3> QED BY <3>1 DEF Owned, TypeOK
  <2> QED BY <2>2, <2>3
<1>2. CASE StopStopsWine(s) \/ StopRemovesFrames(s)
  BY <1>2 DEF StopStopsWine, StopRemovesFrames, runVars, Owned
<1>3. CASE LookFor(s) \/ SeesEnd(s) \/ WaitsNoLonger(s)
  BY <1>3 DEF LookFor, SeesEnd, WaitsNoLonger, runVars, world, Owned
<1>4. ASSUME NEW h \in Runs \cup {NoRun}, BeginStop(s, h) PROVE Owned'
  BY <1>4 DEF BeginStop, runVars, world, Owned
<1> QED BY <1>1, <1>2, <1>3, <1>4 DEF StopCommand

LEMMA OwnedNext ==
  ASSUME TypeOK, Holding, crashes = 0 => Owned, [Next]_vars
  PROVE  (crashes = 0 => Owned)'
<1> SUFFICES ASSUME crashes' = 0 PROVE Owned'
  OBVIOUS
<1>1. CASE UNCHANGED vars
  BY <1>1 DEF vars, Owned
<1>2. ASSUME NEW r \in Runs, Run(r) \/ Helper(r) PROVE Owned'
  <2>1. CASE Crash(r)
    <3>1. crashes \in Nat /\ crashes' = crashes + 1
      BY <2>1 DEF Crash, TypeOK
    <3> QED BY <3>1
  <2>2. ASSUME NEW name \in Names,
               StartHelper(r, name) \/ SpawnFails(r, name) \/ Terminate(r, name)
                 \/ HelperDies(r, name)
        PROVE Owned'
    <3>1. UNCHANGED crashes
      BY <2>2 DEF StartHelper, SpawnFails, Terminate, HelperDies
    <3> QED BY <2>2, <3>1, OwnedHelper
  <2>3. CASE ~Crash(r) /\ ~(\E name \in Names :
                 StartHelper(r, name) \/ SpawnFails(r, name) \/ Terminate(r, name)
                   \/ HelperDies(r, name))
    <3>0. Owned
      BY <1>2, <2>3
         DEF Run, Own, Helper, Lock, Truncate, Record, Abandon, Prepare, Arm, Ready, Started,
             Serves, Cancelled, HelperMissed, Leaves, ShutdownWine, RemoveFrames, Exit,
             Interrupt, Publishes, ShowsClient
    <3>1. CASE Lock(r)
      <4>1. PICK to \in {"locked", "refused"} : Goes(r, {"new"}, to)
        BY <3>1 DEF Lock, Goes
      <4>2. UNCHANGED <<signal, helpers, living, wine, frames>> /\ phase[r] = "new"
        BY <3>1 DEF Lock, runVars, world
      <4>3. r \notin wine /\ frames # r
        BY <3>0, <4>2, SessionAssumption DEF Owned, Running
      <4> QED BY <3>0, <4>1, <4>2, <4>3, OwnedGoes DEF Running
    <3>2. CASE Truncate(r) \/ Record(r) \/ Abandon(r)
      <4>1. PICK to \in {"cleared", "recorded", "cleaned"} :
                 Goes(r, {"locked", "cleared", "recorded"}, to)
        BY <3>2 DEF Truncate, Record, Abandon, Goes
      <4>2. /\ UNCHANGED <<signal, helpers, living, wine, frames>>
            /\ phase[r] \in {"locked", "cleared", "recorded"}
        BY <3>2, <4>1 DEF Truncate, Record, Abandon, Goes, runVars, world
      <4>3. r \notin wine /\ frames # r
        BY <3>0, <4>2, SessionAssumption DEF Owned, Running
      <4> QED BY <3>0, <4>1, <4>2, <4>3, OwnedGoes DEF Running
    <3>3. CASE Prepare(r)
      <4>1. helpers[r] = {}
        BY <3>0, <3>3 DEF Owned, Prepare, Goes, Running
      <4> QED BY <3>0, <3>3, <4>1 DEF Prepare, Goes, runVars, Owned, TypeOK, Running
    <3>4. CASE Arm(r)
      <4>1. helpers[r] = {} /\ frames # r
        BY <3>0, <3>4, SessionAssumption DEF Owned, Arm, Goes, Running
      <4> QED BY <3>0, <3>4, <4>1 DEF Arm, Goes, runVars, world, Owned, TypeOK, Running
    <3>5. CASE Ready(r) \/ Started(r) \/ Cancelled(r) \/ HelperMissed(r)
      <4>1. PICK to \in {"starting", "service", "closing"} :
                 Goes(r, {"starting", "awaiting", "service", "watching"}, to)
        BY <3>5 DEF Ready, Started, Cancelled, HelperMissed, Interruptible, Goes
      <4>2. /\ UNCHANGED <<signal, helpers, living, wine, frames>>
            /\ phase[r] \in {"starting", "awaiting", "service", "watching"}
        BY <3>5, <4>1 DEF Ready, Started, Cancelled, HelperMissed, Goes, runVars, world
      <4>3. signal[r] # "default"
        BY <3>0, <4>2 DEF Owned
      <4> QED BY <3>0, <4>1, <4>2, <4>3, OwnedGoes DEF Running
    <3>6. CASE Leaves(r)
      <4>1. /\ UNCHANGED <<signal, helpers, living, wine, frames>>
            /\ Goes(r, {"prepared", "starting", "awaiting", "service", "watching"}, "closing")
            /\ phase[r] \in Running \cup {"prepared"}
        BY <3>6 DEF Leaves, Goes, runVars, world, Running
      <4> QED BY <3>0, <4>1, OwnedGoes DEF Running
    <3>7. CASE Serves(r)
      <4>1. signal[r] # "default"
        BY <3>0, <3>7 DEF Serves, Goes, Owned
      <4> QED BY <3>0, <3>7, <4>1 DEF Serves, Goes, runVars, Owned, TypeOK, Running
    <3>8. CASE ShutdownWine(r)
      BY <3>0, <3>8 DEF ShutdownWine, Goes, runVars, Owned, TypeOK, Running
    <3>9. CASE RemoveFrames(r)
      <4>1. helpers[r] = {} /\ r \notin wine
        BY <3>0, <3>9 DEF RemoveFrames, Goes, Owned, Running
      <4> QED BY <3>0, <3>9, <4>1 DEF RemoveFrames, Goes, runVars, Owned, TypeOK, Running
    <3>10. CASE Exit(r)
      <4>1. helpers[r] = {} /\ r \notin wine /\ frames # r
        BY <3>0, <3>10, SessionAssumption DEF Exit, Owned, Running
      <4> QED BY <3>0, <3>10, <4>1, OwnedEnds DEF Exit
    <3>11. CASE Interrupt(r)
      BY <3>0, <3>11 DEF Interrupt, runVars, world, Owned, TypeOK
    <3>12. CASE Publishes(r)
      <4>1. "__capture" \in helpers[r]
        BY <3>0, <3>12 DEF Publishes, Owned, TypeOK
      <4> QED BY <3>0, <3>12, <4>1 DEF Publishes, runVars, Owned
    <3>13. CASE ShowsClient(r)
      <4>1. "__tray" \in helpers[r]
        BY <3>0, <3>13 DEF ShowsClient, Owned, TypeOK
      <4>2. Live(r) /\ phase[r] \in Running
        BY <3>0, <4>1 DEF Owned, Running, Live
      <4>3. identity = r
        BY <3>13, <4>2 DEF ShowsClient, Holding, TypeOK
      <4> QED BY <3>0, <3>13, <4>2, <4>3 DEF ShowsClient, runVars, Owned
    <3> QED BY <1>2, <2>3, <3>1, <3>2, <3>3, <3>4, <3>5, <3>6, <3>7, <3>8, <3>9, <3>10,
               <3>11, <3>12, <3>13 DEF Run, Own, Helper
  <2> QED BY <2>1, <2>2, <2>3
<1>3. ASSUME NEW s \in Stops, StopCommand(s) PROVE Owned'
  <2>1. UNCHANGED crashes
    BY <1>3 DEF StopCommand, BeginStop, LookFor, SendSignal, SeesEnd, WaitsNoLonger,
                StopStopsWine, StopRemovesFrames
  <2> QED BY <1>3, <2>1, OwnedStops
<1> QED BY <1>1, <1>2, <1>3 DEF Next

-----------------------------------------------------------------------------
LEMMA InvNext == ASSUME Inv, [Next]_vars PROVE Inv'
BY TypeNext, HoldingNext, OwnedNext DEF Inv

(* The session's state is well typed.                                      *)
THEOREM TypeCorrect == Spec => []TypeOK
<1>1. Inv => TypeOK
  BY DEF Inv
<1> QED BY InvInit, InvNext, <1>1, PTL DEF Spec

(* session.lock names the session that holds it, whatever runs that are    *)
(* refused, runs that end and executions of stop do at the same time.      *)
THEOREM IdentityCorrect == Spec => []IdentityNamesHolder
<1>1. Inv => IdentityNamesHolder
  BY DEF Inv, Holding, IdentityNamesHolder, Recorded
<1> QED BY InvInit, InvNext, <1>1, PTL DEF Spec

(* Without crashes only the holder of the lock has helpers: two sessions   *)
(* never run side by side.                                                 *)
THEOREM HelpersUnderLockCorrect == Spec => []HelpersUnderLock
<1>1. Inv => HelpersUnderLock
  <2> SUFFICES ASSUME Inv, crashes = 0, NEW h \in living PROVE h[1] = lock
    BY DEF HelpersUnderLock
  <2>1. PICK r \in Runs, name \in Names : h = <<r, name>>
    BY DEF Inv, TypeOK
  <2>2. phase[r] \in Running
    BY <2>1 DEF Inv, Owned
  <2> QED BY <2>1, <2>2 DEF Inv, Holding, Live, Running
<1> QED BY InvInit, InvNext, <1>1, PTL DEF Spec

(* A session that ends by itself leaves nothing behind, from wherever in   *)
(* its start or its watch it was made to end.                              *)
THEOREM EndedCorrect == Spec => []EndedLeavesNothing
<1>1. Inv => EndedLeavesNothing
  <2> SUFFICES ASSUME Inv, crashes = 0, NEW r \in Runs, phase[r] = "ended"
               PROVE  /\ \A name \in Names : <<r, name>> \notin living
                      /\ r \notin wine
                      /\ frames # r
    BY DEF EndedLeavesNothing
  <2>1. Owned
    BY DEF Inv
  <2>2. helpers[r] = {}
    BY <2>1 DEF Owned, Running
  <2>3. r \notin wine
    BY <2>1 DEF Owned, Running
  <2>4. frames # r
    BY <2>1, SessionAssumption DEF Owned, Running
  <2> QED BY <2>1, <2>2, <2>3, <2>4 DEF Owned
<1> QED BY InvInit, InvNext, <1>1, PTL DEF Spec

-----------------------------------------------------------------------------
(* The bound of a run that was told to stop: the helpers it may still      *)
(* start, those it has to terminate, and the phases up to its exit.        *)

Rank(r) ==
    CASE phase[r] = "starting" -> 7
      [] phase[r] = "awaiting" -> 6
      [] phase[r] = "service"  -> 5
      [] phase[r] = "watching" -> 4
      [] phase[r] = "closing"  -> 3
      [] phase[r] = "unwined"  -> 2
      [] phase[r] = "cleaned"  -> 1
      [] OTHER -> 0

Unstarted(r) == Len(Startup) + 1 - next[r]
StepsLeft(r) == Rank(r) + 2 * Unstarted(r) + Cardinality(helpers[r])

(* Nothing is signalled before the handler is registered, and the list of  *)
(* helpers is worked through once.                                         *)
Early == {"new", "locked", "cleared", "recorded", "prepared"}

Bounds ==
    \A r \in Runs : /\ phase[r] \in Early => signal[r] = "default"
                    /\ next[r] <= Len(Startup) + 1
                    /\ IsFiniteSet(helpers[r])

Stopping(r) == Live(r) /\ signal[r] = "stop"
Acts(r) == Own(r) \/ Leaves(r) \/ Abandon(r)

(* A step of the supervisor brings it closer to its end; no other step     *)
(* takes it further away or makes it forget the stop.                      *)
StepsDecrease ==
    \A r \in Runs : Stopping(r) =>
        \/ ~Live(r)'
        \/ Stopping(r)' /\ IF Acts(r) THEN StepsLeft(r)' < StepsLeft(r)
                                      ELSE StepsLeft(r)' = StepsLeft(r)

StepsInBounds == \A r \in Runs : Stopping(r) => StepsLeft(r) \in Nat \ {0}

LEMMA StartupType == Len(Startup) \in Nat /\ DOMAIN Startup = 1..Len(Startup)
  BY SessionAssumption

(* What a step can do to one run.                                          *)
Passes(r, from, to) == phase[r] \in from /\ phase'[r] = to
Keeps(r) == signal'[r] = signal[r] /\ next'[r] = next[r] /\ helpers'[r] = helpers[r]

RunEnds(r) ==
    /\ phase'[r] \in {"ended", "killed"}
    /\ signal'[r] = "default" /\ next'[r] = 1 /\ helpers'[r] = {}
StartsOne(r) ==
    /\ phase[r] = "starting" /\ phase'[r] \in {"starting", "awaiting"}
    /\ next[r] <= Len(Startup) /\ next'[r] = next[r] + 1
    /\ signal'[r] = signal[r]
    /\ \E name \in Names : helpers'[r] \in {helpers[r], helpers[r] \cup {name}}
TerminatesOne(r) ==
    /\ phase[r] = "closing" /\ phase'[r] = "closing"
    /\ signal'[r] = signal[r] /\ next'[r] = next[r]
    /\ \E name \in helpers[r] : helpers'[r] = helpers[r] \ {name}
GoesOn(r) ==
    /\ Keeps(r)
    /\ \/ Passes(r, {"prepared", "starting", "awaiting", "service", "watching"}, "closing")
       \/ Passes(r, {"starting"}, "service") \/ Passes(r, {"service"}, "watching")
       \/ Passes(r, {"closing"}, "unwined") \/ Passes(r, {"unwined"}, "cleaned")
       \/ Passes(r, {"locked", "cleared", "recorded"}, "cleaned")
Readied(r) ==
    /\ Keeps(r) /\ Passes(r, {"awaiting"}, "starting")
    /\ signal[r] # "stop"
Begins(r) ==
    /\ phase[r] \in Early /\ next'[r] = next[r] /\ helpers'[r] = helpers[r]
    /\ \/ phase'[r] \in Early \cup {"refused"} /\ signal'[r] = signal[r]
       \/ phase'[r] = "starting" /\ signal'[r] = "armed"

LEMMA ActsEffect ==
  ASSUME TypeOK, NEW r \in Runs, Acts(r)
  PROVE  RunEnds(r) \/ StartsOne(r) \/ TerminatesOne(r) \/ GoesOn(r) \/ Readied(r) \/ Begins(r)
<1> USE DEF TypeOK, Goes
<1>1. CASE Truncate(r) \/ Record(r) \/ Prepare(r) \/ Arm(r)
  BY <1>1 DEF Truncate, Record, Prepare, Arm, Begins, Early, runVars
<1>2. ASSUME NEW name \in Names, StartHelper(r, name) PROVE StartsOne(r)
  BY <1>2, StartupType DEF StartHelper, StartsOne
<1>3. ASSUME NEW name \in Names, SpawnFails(r, name)
      PROVE  StartsOne(r) \/ GoesOn(r)
  BY <1>3, StartupType DEF SpawnFails, StartsOne, GoesOn, Keeps, Passes
<1>4. ASSUME NEW name \in Names, Terminate(r, name) PROVE TerminatesOne(r)
  BY <1>4 DEF Terminate, TerminatesOne
<1>5. CASE Ready(r)
  BY <1>5 DEF Ready, Readied, Keeps, Passes, runVars
<1>6. CASE Started(r) \/ Serves(r) \/ Cancelled(r) \/ HelperMissed(r) \/ Leaves(r)
  BY <1>6 DEF Started, Serves, Cancelled, HelperMissed, Leaves, Interruptible, GoesOn,
              Keeps, Passes, runVars
<1>7. CASE ShutdownWine(r) \/ RemoveFrames(r) \/ Abandon(r)
  BY <1>7 DEF ShutdownWine, RemoveFrames, Abandon, GoesOn, Keeps, Passes, runVars
<1>8. CASE Exit(r)
  BY <1>8 DEF Exit, Ends, RunEnds
<1> QED BY <1>1, <1>2, <1>3, <1>4, <1>5, <1>6, <1>7, <1>8 DEF Acts, Own

(* Every other step leaves a run that is starting or later where it is,    *)
(* though it may note a stop or be killed.                                 *)
Noted(r) ==
    /\ phase'[r] = phase[r] /\ next'[r] = next[r] /\ helpers'[r] = helpers[r]
    /\ signal'[r] = signal[r] \/ (signal[r] # "default" /\ signal'[r] = "stop")

LEMMA OthersEffect ==
  ASSUME TypeOK, [Next]_vars, NEW r \in Runs, ~Acts(r)
  PROVE  RunEnds(r) \/ Noted(r) \/ Begins(r)
<1> USE DEF TypeOK
<1>1. CASE UNCHANGED vars
  BY <1>1 DEF vars, Noted, runVars
<1>2. ASSUME NEW q \in Runs, Helper(q) PROVE Noted(r)
  BY <1>2 DEF Helper, HelperDies, Publishes, ShowsClient, Noted, lockVars, runVars
<1>3. ASSUME NEW s \in Stops, StopCommand(s) PROVE RunEnds(r) \/ Noted(r)
  <2>1. CASE SendSignal(s)
    <3>1. CASE Ends(target[s], "killed")
      BY <3>1, <2>1 DEF Ends, RunEnds, Noted
    <3>2. CASE /\ UNCHANGED <<phase, runVars>>
               /\ \/ signal' = signal
                  \/ signal[target[s]] # "default" /\ signal' = [signal EXCEPT ![target[s]] = "stop"]
      BY <3>2 DEF Noted, runVars
    <3> QED BY <2>1, <3>1, <3>2 DEF SendSignal
  <2>2. CASE ~SendSignal(s)
    BY <1>3, <2>2 DEF StopCommand, BeginStop, LookFor, SeesEnd, WaitsNoLonger, StopStopsWine,
                      StopRemovesFrames, Noted, lockVars, runVars
  <2> QED BY <2>1, <2>2
<1>4. ASSUME Lock(r) \/ Interrupt(r) \/ Crash(r)
      PROVE  RunEnds(r) \/ Noted(r) \/ Begins(r)
  BY <1>4 DEF Lock, Interrupt, Crash, Ends, RunEnds, Noted, Begins, Early, runVars
<1>5. ASSUME NEW q \in Runs \ {r}, Run(q) PROVE Noted(r)
  <2>1. CASE Lock(q) \/ Interrupt(q) \/ Crash(q) \/ Abandon(q) \/ Leaves(q)
    BY <1>5, <2>1 DEF Lock, Interrupt, Crash, Abandon, Leaves, Goes, Ends, Noted, runVars
  <2>2. ASSUME NEW name \in Names,
               StartHelper(q, name) \/ SpawnFails(q, name) \/ Terminate(q, name)
        PROVE  Noted(r)
    BY <1>5, <2>2 DEF StartHelper, SpawnFails, Terminate, Goes, Noted, lockVars
  <2>3. CASE Truncate(q) \/ Record(q) \/ Prepare(q) \/ Arm(q) \/ Ready(q) \/ Started(q)
               \/ Serves(q)
    BY <1>5, <2>3 DEF Truncate, Record, Prepare, Arm, Ready, Started, Serves, Goes, Noted, runVars
  <2>4. CASE Cancelled(q) \/ HelperMissed(q) \/ ShutdownWine(q) \/ RemoveFrames(q) \/ Exit(q)
    BY <1>5, <2>4 DEF Cancelled, HelperMissed, ShutdownWine, RemoveFrames, Exit, Goes, Ends,
                      Noted, runVars
  <2> QED BY <1>5, <2>1, <2>2, <2>3, <2>4 DEF Run, Own
<1> QED BY <1>1, <1>2, <1>3, <1>4, <1>5 DEF Next, Run, Acts

LEMMA BoundsInit == Init => Bounds
<1>1. IsFiniteSet({}) /\ 1 <= Len(Startup) + 1
  BY StartupType, FS_EmptySet
<1> QED BY <1>1 DEF Init, Bounds

LEMMA BoundsStep == ASSUME TypeOK, Bounds, [Next]_vars PROVE Bounds'
<1> SUFFICES ASSUME NEW r \in Runs
             PROVE  /\ phase'[r] \in Early => signal'[r] = "default"
                    /\ next'[r] <= Len(Startup) + 1
                    /\ IsFiniteSet(helpers'[r])
  BY DEF Bounds
<1>1. /\ phase[r] \in Early => signal[r] = "default"
      /\ next[r] <= Len(Startup) + 1 /\ next[r] \in Nat
      /\ IsFiniteSet(helpers[r])
  BY DEF Bounds, TypeOK
<1>2. next'[r] <= Len(Startup) + 1
  BY <1>1, StartupType, ActsEffect, OthersEffect
     DEF RunEnds, StartsOne, TerminatesOne, GoesOn, Readied, Keeps, Begins, Noted
<1>3. phase'[r] \in Early => signal'[r] = "default"
  BY <1>1, ActsEffect, OthersEffect
     DEF RunEnds, StartsOne, TerminatesOne, GoesOn, Readied, Keeps, Passes, Begins, Noted, Early
<1>4. \/ helpers'[r] = {} \/ helpers'[r] = helpers[r]
      \/ \E name : helpers'[r] \in {helpers[r] \cup {name}, helpers[r] \ {name}}
  BY ActsEffect, OthersEffect
     DEF RunEnds, StartsOne, TerminatesOne, GoesOn, Readied, Keeps, Begins, Noted
<1>5. IsFiniteSet(helpers'[r])
  <2>1. IsFiniteSet(helpers[r]) /\ IsFiniteSet({})
    BY <1>1, FS_EmptySet
  <2>2. \A name : IsFiniteSet(helpers[r] \cup {name}) /\ IsFiniteSet(helpers[r] \ {name})
    BY <2>1, FS_AddElement, FS_RemoveElement
  <2> QED BY <1>4, <2>1, <2>2
<1> QED BY <1>2, <1>3, <1>5

LEMMA StepsType == TypeOK /\ Bounds => StepsInBounds
<1> SUFFICES ASSUME TypeOK, Bounds, NEW r \in Runs, Stopping(r)
             PROVE  StepsLeft(r) \in Nat \ {0}
  BY DEF StepsInBounds
<1>1. Unstarted(r) \in Nat /\ Cardinality(helpers[r]) \in Nat
  BY StartupType, FS_CardinalityType DEF Bounds, TypeOK, Unstarted
<1>2. Rank(r) \in Nat \ {0}
  <2>1. phase[r] \in Phases \ {"new", "refused", "ended", "killed"}
    BY DEF Stopping, Live, TypeOK
  <2>2. phase[r] \notin Early
    BY DEF Stopping, Bounds
  <2>3. phase[r] \in {"starting", "awaiting", "service", "watching",
                     "closing", "unwined", "cleaned"}
    BY <2>1, <2>2 DEF Phases, Early
  <2> QED BY <2>3 DEF Rank
<1> QED BY <1>1, <1>2 DEF StepsLeft

LEMMA StepsStep == ASSUME TypeOK, Bounds, [Next]_vars PROVE [StepsDecrease]_vars
<1> SUFFICES ASSUME NEW r \in Runs, Stopping(r), Live(r)'
             PROVE  Stopping(r)' /\ IF Acts(r) THEN StepsLeft(r)' < StepsLeft(r)
                                               ELSE StepsLeft(r)' = StepsLeft(r)
  BY DEF StepsDecrease
<1>1. signal[r] = "stop" /\ phase[r] \notin Early
  BY DEF Stopping, Bounds
<1>2. ~RunEnds(r) /\ ~Begins(r) /\ ~Readied(r)
  BY <1>1 DEF RunEnds, Begins, Readied, Live
<1>3. CASE ~Acts(r)
  BY <1>1, <1>2, <1>3, OthersEffect DEF Noted, Stopping, StepsLeft, Rank, Unstarted
<1>4. CASE Acts(r)
  <2>0. /\ StartsOne(r) \/ TerminatesOne(r) \/ GoesOn(r)
    BY <1>2, <1>4, ActsEffect
  <2>1. Stopping(r)'
    BY <1>1, <2>0 DEF StartsOne, TerminatesOne, GoesOn, Keeps, Stopping
  <2>2. /\ IsFiniteSet(helpers[r]) /\ Cardinality(helpers[r]) \in Nat
        /\ Unstarted(r) \in Nat /\ next[r] \in Nat /\ Len(Startup) \in Nat
    BY StartupType, FS_CardinalityType DEF Bounds, TypeOK, Unstarted
  <2>3. CASE StartsOne(r)
    <3>1. Rank(r) = 7 /\ Rank(r)' \in {6, 7}
      BY <2>3 DEF StartsOne, Rank
    <3>2. Unstarted(r)' = Unstarted(r) - 1
      BY <2>2, <2>3 DEF StartsOne, Unstarted
    <3>3. Cardinality(helpers'[r]) \in {Cardinality(helpers[r]), Cardinality(helpers[r]) + 1}
      <4>1. \/ helpers'[r] = helpers[r]
            \/ \E name : helpers'[r] = helpers[r] \cup {name}
        BY <2>3 DEF StartsOne
      <4> QED BY <2>2, <4>1, FS_AddElement
    <3> QED BY <1>4, <2>1, <2>2, <3>1, <3>2, <3>3 DEF StepsLeft
  <2>4. CASE TerminatesOne(r)
    <3>1. Rank(r) = 3 /\ Rank(r)' = 3 /\ Unstarted(r)' = Unstarted(r)
      BY <2>4 DEF TerminatesOne, Rank, Unstarted
    <3>2. Cardinality(helpers'[r]) = Cardinality(helpers[r]) - 1
      BY <2>2, <2>4, FS_RemoveElement DEF TerminatesOne
    <3> QED BY <1>4, <2>1, <2>2, <3>1, <3>2 DEF StepsLeft
  <2>5. CASE GoesOn(r)
    <3>1. Rank(r) \in Nat /\ Rank(r)' \in Nat /\ Rank(r)' < Rank(r)
      BY <1>1, <2>5 DEF GoesOn, Passes, Rank, Early
    <3>2. Unstarted(r)' = Unstarted(r) /\ helpers'[r] = helpers[r]
      BY <2>5 DEF GoesOn, Keeps, Unstarted
    <3> QED BY <1>4, <2>1, <2>2, <3>1, <3>2 DEF StepsLeft
  <2> QED BY <2>0, <2>3, <2>4, <2>5
<1> QED BY <1>3, <1>4

(* A run that was told to stop takes a bounded number of steps to its end: *)
(* each of its own steps uses one up, the helpers it has yet to start and  *)
(* to terminate included, and nothing that helpers, other runs or other    *)
(* stops do adds to them or clears the flag.  StopEndsRun follows, since a *)
(* supervisor that can take a step does.                                   *)
THEOREM StopIsBounded == Spec => [][StepsDecrease]_vars /\ []StepsInBounds
<1>1. Init => TypeOK /\ Bounds
  BY InvInit, BoundsInit DEF Inv
<1> QED BY <1>1, TypeNext, BoundsStep, StepsType, StepsStep, PTL DEF Spec
=============================================================================
