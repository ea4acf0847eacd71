----------------------------- MODULE PortalInput -----------------------------
(***************************************************************************)
(* The RemoteDesktop portal backend (src/input/portal.rs) as the bridge    *)
(* drives it for one client (src/bridge.rs).  The bridge's thread hands    *)
(* key, button and wheel events to a worker thread through a queue and     *)
(* waits at most three seconds for the portal's answer.  Pointer motions   *)
(* do not queue: they are merged into one pending motion, and a flag says  *)
(* whether a FlushMotion event is on its way to the worker.  The bridge's  *)
(* mutex admits one call at a time; the worker runs beside it.             *)
(***************************************************************************)
EXTENDS Integers, Sequences, FiniteSets

CONSTANTS
    Lines,      \* desktop keys and buttons
    Wheel,      \* the subject of a wheel event
    Kinds,      \* kinds of motion clients send
    MaxMotions, \* bound: motions issued
    MaxQueue    \* bound: events waiting for the worker

ASSUME PortalAssumption ==
    /\ Wheel \notin Lines
    /\ Kinds \subseteq {"absolute", "relative"}
    /\ MaxMotions \in Nat /\ MaxQueue \in Nat

(* What a behaviour is given and no step changes.                          *)
VARIABLES
    timely,     \* the portal accepts every event, and within three seconds
    kinds       \* the kinds of motion this client sends

VARIABLES
    client,     \* the hook connection: "on", "leaving" or "gone"
    held,       \* what it holds: ConnectionInput.keys and held_keys
    todo,       \* what release_all still has to submit
    caller,     \* the bridge's thread inside the backend
    call,       \* the event it waits for
    reply,      \* the reply channel of that event
    queue,      \* the worker's event channel
    pending,    \* pending_motion
    queued,     \* motion_queued
    worker,     \* what the worker is doing
    current,    \* the event or motion it is busy with
    desktop,    \* the lines the desktop considers pressed
    issued,     \* motions accepted so far
    meant,      \* where they were meant to take the pointer
    pointer     \* where it is

given == <<timely, kinds>>
clientVars == <<client, held, todo>>
callVars == <<caller, call, reply>>
motionVars == <<issued, meant>>
vars == <<given, client, held, todo, caller, call, reply, queue, pending, queued,
          worker, current, desktop, issued, meant, pointer>>

Event(line, down) == [kind |-> "event", line |-> line, down |-> down, live |-> TRUE]
Flush == [kind |-> "flush"]
Nothing == [kind |-> "nothing"]

(* A motion to the place named by the number of the motion that asked for  *)
(* it, or by a number of steps; a pointer position is a place and the      *)
(* steps taken from there.                                                 *)
Absolute(k) == [kind |-> "absolute", place |-> k]
Relative(n) == [kind |-> "relative", steps |-> n]

Moved(position, motion) ==
    IF motion.kind = "absolute" THEN [place |-> motion.place, steps |-> 0]
                                ELSE [position EXCEPT !.steps = @ + motion.steps]

Origin == [place |-> 0, steps |-> 0]

Init ==
    /\ timely \in BOOLEAN /\ kinds \in SUBSET Kinds
    /\ client = "on" /\ held = {} /\ todo = {}
    /\ caller = "idle" /\ call = Nothing /\ reply = "none"
    /\ queue = <<>>
    /\ pending = Nothing /\ queued = FALSE
    /\ worker = "recv" /\ current = Nothing
    /\ desktop = {}
    /\ issued = 0 /\ meant = Origin /\ pointer = Origin

-----------------------------------------------------------------------------
(* The bridge's thread.                                                    *)

(* submit: the event is queued unless the worker has gone.                 *)
Submit(event) ==
    /\ caller = "idle"
    /\ worker # "dead"
    /\ Len(queue) < MaxQueue
    /\ queue' = Append(queue, event)
    /\ caller' = "wait"
    /\ call' = event
    /\ reply' = "none"
    /\ UNCHANGED <<pending, queued, worker, current, desktop, given, motionVars, pointer>>

(* A client presses a key it may already hold, releases one it holds, or   *)
(* turns the wheel.                                                        *)
Input(line, down) ==
    /\ client = "on"
    /\ line # Wheel /\ ~down => line \in held
    /\ Submit(Event(line, down))
    /\ UNCHANGED clientVars

(* release_all of the connection submits a release of all that it holds.   *)
ReleaseHeld(line) ==
    /\ client = "leaving"
    /\ line \in todo
    /\ todo' = todo \ {line}
    /\ Submit(Event(line, FALSE))
    /\ UNCHANGED <<client, held>>

(* The answer is positive: the key is held or not held any more.           *)
RecordedMutant ==
    IF call.down \/ call.line = Wheel THEN held ELSE held \ {call.line}
Recorded ==
    IF call.line = Wheel THEN held
    ELSE IF call.down THEN held \cup {call.line} ELSE held \ {call.line}

Succeeds ==
    /\ caller = "wait"
    /\ reply = "ok"
    /\ held' = Recorded
    /\ caller' = "idle"
    /\ UNCHANGED <<client, todo, call, reply, queue, pending, queued, worker,
                   current, desktop, given, motionVars, pointer>>

(* pump ends on the first error, release_all remembers it and goes on.     *)
Disconnects ==
    IF client = "on" THEN client' = "leaving" /\ todo' = held
                     ELSE UNCHANGED <<client, todo>>

Fails ==
    /\ caller = "wait"
    /\ reply = "failed" \/ (reply = "none" /\ worker = "dead")
    /\ caller' = "idle"
    /\ Disconnects
    /\ UNCHANGED <<held, call, reply, queue, pending, queued, worker,
                   current, desktop, given, motionVars, pointer>>

(* Nobody listens for the answer any more, but the event stays queued.     *)
Unheard(e) == IF e.kind = "event" THEN [e EXCEPT !.live = FALSE] ELSE e

TimesOut ==
    /\ ~timely
    /\ caller = "wait"
    /\ reply = "none"
    /\ worker # "dead"
    /\ caller' = "idle"
    /\ queue' = [i \in DOMAIN queue |-> Unheard(queue[i])]
    /\ current' = Unheard(current)
    /\ Disconnects
    /\ UNCHANGED <<held, call, reply, pending, queued, worker, desktop,
                   given, motionVars, pointer>>

(* A submit to a worker that has gone fails at once.                       *)
Refused ==
    /\ caller = "idle"
    /\ worker = "dead"
    /\ \/ client = "on" /\ Disconnects
       \/ client = "leaving" /\ todo # {} /\ todo' = {} /\ UNCHANGED client
    /\ UNCHANGED <<held, callVars, queue, pending, queued, worker, current,
                   desktop, given, motionVars, pointer>>

(* merge_motion: steps add up, anything else replaces what is pending.     *)
merge_motionMutant(motion) ==
    IF motion.kind = "relative" /\ pending.kind = "relative"
      THEN pending ELSE motion
merge_motion(motion) ==
    IF motion.kind = "relative" /\ pending.kind = "relative"
      THEN Relative(pending.steps + motion.steps) ELSE motion

Motion(kind) ==
    LET motion == IF kind = "absolute" THEN Absolute(issued + 1) ELSE Relative(1)
    IN  /\ client = "on"
        /\ caller = "idle"
        /\ kind \in kinds
        /\ issued < MaxMotions
        /\ pending' = merge_motion(motion)
        /\ meant' = Moved(meant, motion)
        /\ issued' = issued + 1
        /\ caller' = "merged"
        /\ UNCHANGED <<given, clientVars, call, reply, queue, queued, worker,
                       current, desktop, pointer>>

(* motion_queued.swap(true)                                                *)
SwapMutant ==
    /\ caller = "merged"
    /\ queued' = TRUE
    /\ caller' = "send"
    /\ UNCHANGED <<clientVars, call, reply, queue, pending, worker, current,
                   desktop, given, motionVars, pointer>>
Swap ==
    /\ caller = "merged"
    /\ queued' = TRUE
    /\ caller' = IF queued THEN "idle" ELSE "send"
    /\ UNCHANGED <<clientVars, call, reply, queue, pending, worker, current,
                   desktop, given, motionVars, pointer>>

SendFlush ==
    /\ caller = "send"
    /\ caller' = "idle"
    /\ IF worker = "dead"
         THEN queued' = FALSE /\ UNCHANGED queue /\ Disconnects
         ELSE queue' = Append(queue, Flush) /\ UNCHANGED <<queued, client, todo>>
    /\ UNCHANGED <<held, call, reply, pending, worker, current, desktop,
                   given, motionVars, pointer>>

(* The client's stream ends; release_all runs; later it connects again.    *)
Leave ==
    /\ client = "on"
    /\ caller = "idle"
    /\ client' = "leaving"
    /\ todo' = held
    /\ UNCHANGED <<held, callVars, queue, pending, queued, worker, current,
                   desktop, given, motionVars, pointer>>

Gone ==
    /\ client = "leaving"
    /\ caller = "idle"
    /\ todo = {}
    /\ client' = "gone"
    /\ held' = {}
    /\ UNCHANGED <<todo, callVars, queue, pending, queued, worker, current,
                   desktop, given, motionVars, pointer>>

Connect ==
    /\ client = "gone"
    /\ client' = "on"
    /\ UNCHANGED <<held, todo, callVars, queue, pending, queued, worker, current,
                   desktop, given, motionVars, pointer>>

-----------------------------------------------------------------------------
(* The worker.                                                             *)

Rest == UNCHANGED <<given, clientVars, caller, call, motionVars>>

Receive ==
    /\ worker = "recv"
    /\ queue # <<>>
    /\ queue' = Tail(queue)
    /\ current' = Head(queue)
    /\ worker' = IF Head(queue).kind = "flush" THEN "take" ELSE "notify"
    /\ Rest /\ UNCHANGED <<reply, pending, queued, desktop, pointer>>

(* The portal acts on the event; when it reports an error it may have.     *)
Effect ==
    IF current.line = Wheel THEN desktop
    ELSE IF current.down THEN desktop \cup {current.line}
                         ELSE desktop \ {current.line}

Notified ==
    /\ worker = "notify"
    /\ \/ desktop' = Effect /\ worker' = "accepted"
       \/ ~timely /\ desktop' \in {desktop, Effect} /\ worker' = "rejected"
    /\ Rest /\ UNCHANGED <<reply, queue, pending, queued, current, pointer>>

(* answer: an error also ends the worker and drops what is still queued.   *)
AnswerMutant ==
    /\ worker \in {"accepted", "rejected"}
    /\ reply' = IF ~current.live THEN reply
                ELSE IF worker = "accepted" THEN "ok" ELSE "failed"
    /\ worker' = "next"
    /\ current' = Nothing
    /\ Rest /\ UNCHANGED <<queue, pending, queued, desktop, pointer>>
Answer ==
    /\ worker \in {"accepted", "rejected"}
    /\ reply' = IF ~current.live THEN reply
                ELSE IF worker = "accepted" THEN "ok" ELSE "failed"
    /\ IF worker = "accepted"
         THEN worker' = "recv" /\ UNCHANGED queue
         ELSE worker' = "dead" /\ queue' = <<>>
    /\ current' = Nothing
    /\ Rest /\ UNCHANGED <<pending, queued, desktop, pointer>>

(* FlushMotion: motions are taken until there is none ...                  *)
Take ==
    /\ worker = "take"
    /\ current' = pending
    /\ pending' = Nothing
    /\ worker' = IF pending = Nothing THEN "clear" ELSE "move"
    /\ Rest /\ UNCHANGED <<reply, queue, queued, desktop, pointer>>

Move ==
    /\ worker = "move"
    /\ pointer' \in {Moved(pointer, current)} \cup (IF timely THEN {} ELSE {pointer})
    /\ current' = Nothing
    /\ worker' = "take"
    /\ Rest /\ UNCHANGED <<reply, queue, pending, queued, desktop>>

(* ... then the flag is cleared, and a motion that came in meanwhile is    *)
(* taken up here unless its caller has set the flag again.                 *)
ClearFlag ==
    /\ worker = "clear"
    /\ queued' = FALSE
    /\ worker' = "look"
    /\ Rest /\ UNCHANGED <<reply, queue, pending, current, desktop, pointer>>

LookMutant ==
    /\ worker = "look"
    /\ worker' = "recv"
    /\ Rest /\ UNCHANGED <<reply, queue, pending, queued, current, desktop, pointer>>
Look ==
    /\ worker = "look"
    /\ worker' = IF pending = Nothing THEN "recv" ELSE "cas"
    /\ Rest /\ UNCHANGED <<reply, queue, pending, queued, current, desktop, pointer>>

CompareExchangeMutant ==
    /\ worker = "cas"
    /\ worker' = "recv"
    /\ Rest /\ UNCHANGED <<reply, queue, pending, queued, current, desktop, pointer>>
CompareExchange ==
    /\ worker = "cas"
    /\ queued' = TRUE
    /\ worker' = IF queued THEN "recv" ELSE "take"
    /\ Rest /\ UNCHANGED <<reply, queue, pending, current, desktop, pointer>>

-----------------------------------------------------------------------------
InsideMotion == Swap \/ SendFlush

Caller ==
    \/ \E line \in Lines : \E down \in BOOLEAN : Input(line, down)
    \/ Input(Wheel, FALSE)
    \/ \E line \in Lines : ReleaseHeld(line)
    \/ \E kind \in Kinds : Motion(kind)
    \/ Succeeds \/ Fails \/ TimesOut \/ Refused
    \/ InsideMotion
    \/ Leave \/ Gone \/ Connect

Flushing == Take \/ Move \/ ClearFlag \/ Look \/ CompareExchange

Worker == Receive \/ Notified \/ Answer \/ Flushing

Next == Caller \/ Worker

(* Neither thread is starved inside a call, and the portal answers.        *)
Fairness == WF_vars(InsideMotion) /\ WF_vars(Worker)

Spec == Init /\ [][Next]_vars
FairSpec == Spec /\ Fairness

-----------------------------------------------------------------------------
(* Properties                                                              *)

Events == [kind : {"event"}, line : Lines \cup {Wheel}, down : BOOLEAN, live : BOOLEAN]
Motions == [kind : {"absolute"}, place : Nat] \cup [kind : {"relative"}, steps : Nat]
Positions == [place : Nat, steps : Nat]

TypeOK ==
    /\ timely \in BOOLEAN /\ kinds \subseteq Kinds
    /\ client \in {"on", "leaving", "gone"}
    /\ held \subseteq Lines /\ todo \subseteq Lines
    /\ caller \in {"idle", "wait", "merged", "send"}
    /\ call \in Events \cup {Nothing}
    /\ reply \in {"none", "ok", "failed"}
    /\ queue \in Seq(Events \cup {Flush})
    /\ pending \in Motions \cup {Nothing}
    /\ queued \in BOOLEAN
    /\ worker \in {"recv", "notify", "accepted", "rejected", "take", "move",
                   "clear", "look", "cas", "dead"}
    /\ current \in Events \cup Motions \cup {Nothing, Flush}
    /\ desktop \subseteq Lines
    /\ issued \in Nat /\ meant \in Positions /\ pointer \in Positions

(* FlushMotion events on their way: in the queue, about to be sent, or     *)
(* being served.                                                           *)
FlushesQueued == Cardinality({i \in DOMAIN queue : queue[i] = Flush})
FlushesOutstanding ==
    FlushesQueued + (IF caller = "send" THEN 1 ELSE 0)
                  + (IF worker \in {"take", "move", "clear"} THEN 1 ELSE 0)

(* The flag motion_queued is exact: it is set when one flush is            *)
(* outstanding and clear when none is, so that motions never build a queue *)
(* (the test relative_motion_accumulates_without_building_a_queue).        *)
OneFlush ==
    worker # "dead" => FlushesOutstanding = IF queued THEN 1 ELSE 0

(* No lost wake-up: a pending motion is always about to be announced by    *)
(* its caller, announced by an outstanding flush, or about to be found by  *)
(* the worker's second look.                                               *)
NoStrandedMotion ==
    pending # Nothing /\ worker # "dead" =>
        caller = "merged" \/ queued \/ worker \in {"look", "cas"}

(* A key, a button or the wheel acts where the client's pointer was: when  *)
(* the worker hands the portal an event whose caller is still waiting,     *)
(* every motion the client sent before it has been handed over.            *)
InputFollowsMotion ==
    worker = "notify" /\ current.live => pending = Nothing

(* Merging loses no distance: when a client sends motions of one kind and  *)
(* the portal accepts them in time, the pointer is where it meant it to be *)
(* once nothing is pending.                                                *)
OneKind == kinds # {"absolute", "relative"}
PointerArrives ==
    timely /\ OneKind /\ pending = Nothing /\ worker # "move" => pointer = meant

(* release_all is "called when the hook disconnects" to "release           *)
(* everything currently held" (input/mod.rs): when it is done and the      *)
(* worker is at rest, the client has left no key down on the desktop, if   *)
(* the portal accepts and answers in time.                                 *)
DisconnectLiftsKeys ==
    timely /\ client = "gone" /\ worker = "recv" /\ queue = <<>> => desktop = {}

(* A motion is eventually taken to the portal while the worker lives.      *)
MotionArrives ==
    pending # Nothing ~> pending = Nothing \/ worker = "dead"
=============================================================================
