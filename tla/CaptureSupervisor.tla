-------------------------- MODULE CaptureSupervisor --------------------------
(* The ScreenCast supervisor (src/capture.rs): it opens a portal session,  *)
(* runs one PipeWire helper on it, watches the session, the desktop layout *)
(* and the helper, and decides after each ending whether to share again.   *)
(* Around it are the portal, the user at the machine, Mutter's display     *)
(* configuration, the helper (capture/uur-pw-capture.c) and the process    *)
(* that stops the capture.                                                 *)
EXTENDS Naturals

CONSTANTS
    Tokens,         \* restore tokens the portal issues
    NoToken,        \* no restore token
    MaxLayouts,     \* bound: layout changes
    MaxSessions     \* bound: portal sessions

ASSUME SupervisorAssumption ==
    /\ NoToken \notin Tokens
    /\ MaxLayouts \in Nat /\ MaxSessions \in Nat

MaxFailures == 3

VARIABLE orderly    \* writes succeed and the portal's signals come in order;
                    \* no step changes it

VARIABLES
    phase,      \* where run is
    asking,     \* the attempt portal_session is making
    initial,    \* initial_session
    failures,   \* the failure counter
    token,      \* capture_restore_token in memory
    disk,       \* and in the configuration file
    reconfigure, portalClosed, status, healthy, \* run's loop variables
    stopping,   \* a stop signal was received
    session,    \* the number of the portal session, 0 before the first
    sharing,    \* who ended the session: "on" while nobody has
    closed,     \* the session's Closed signal: "no", "sent", "here"
    changes,    \* MonitorsChanged signals waiting for the supervisor
    layouts,    \* layout changes so far
    owed,       \* Mutter has closed the session and still owes its signal
    changed,    \* the layout has changed since the session was granted
    helpers,    \* running helpers, each named by its session
    exit,       \* how the last helper ended
    frames,     \* whose frames are at the transport's path, 0 for none
    latest,     \* the restore token the portal issued last
    lost        \* failures since capture was last healthy for long

policy == <<initial, failures, token, disk>>
loopVars == <<reconfigure, portalClosed, status, healthy>>
portalVars == <<session, sharing, closed, latest>>
layoutVars == <<changes, layouts, owed, changed>>
helperVars == <<helpers, exit, frames>>
vars == <<orderly, phase, asking, initial, failures, token, disk, reconfigure,
          portalClosed, status, healthy, stopping, session, sharing, closed,
          changes, layouts, owed, changed, helpers, exit, frames, latest, lost>>

Ended == phase \in {"stopped", "denied", "closed", "exhausted", "broken"}

FirstAttempt(saved) ==
    IF saved # NoToken THEN "saved" ELSE IF initial THEN "interactive" ELSE "none"

Init ==
    /\ orderly \in BOOLEAN
    /\ phase = "open" /\ initial = TRUE /\ failures = 0
    /\ token \in Tokens \cup {NoToken} /\ disk = token /\ latest = token
    /\ asking = FirstAttempt(token)
    /\ reconfigure = FALSE /\ portalClosed = FALSE
    /\ status = "none" /\ healthy = "no"
    /\ stopping = FALSE
    /\ session = 0 /\ sharing = "on" /\ closed = "no"
    /\ changes = 0 /\ layouts = 0 /\ owed = FALSE /\ changed = FALSE
    /\ helpers = {} /\ exit = "none" /\ frames = 0
    /\ lost = 0

-----------------------------------------------------------------------------
(* portal_session                                                          *)

(* The portal grants a session.  A restore token other than the one the    *)
(* attempt started from goes into the configuration; when that cannot be   *)
(* written the session is lost like one that was refused.                  *)
StoredMutant(issued) ==
    disk' = IF token = NoToken THEN issued ELSE disk
Stored(issued) ==
    \/ disk' = IF issued # token THEN issued ELSE disk
    \/ ~orderly /\ issued # token /\ disk' = disk

Granted(issued) ==
    /\ phase = "open"
    /\ asking \in {"saved", "interactive"}
    /\ session < MaxSessions
    /\ session' = session + 1
    /\ latest' = issued
    /\ token' = issued
    /\ Stored(issued)
    /\ phase' = IF issued # token /\ disk' # issued THEN "refused" ELSE "start"
    /\ sharing' = "on" /\ closed' = "no" /\ changed' = FALSE
    /\ UNCHANGED <<orderly, asking, initial, failures, loopVars, stopping,
                   changes, layouts, owed, helperVars, lost>>

FallsBackMutant == asking = "saved"
FallsBack == asking = "saved" /\ initial

(* The portal refuses: a saved token gives way to an interactive selection *)
(* in the initial session only.                                            *)
Refused ==
    /\ phase = "open"
    /\ IF FallsBack
         THEN asking' = "interactive" /\ UNCHANGED phase
         ELSE phase' = "refused" /\ UNCHANGED asking
    /\ UNCHANGED <<orderly, policy, loopVars, stopping, portalVars,
                   layoutVars, helperVars, lost>>

(* run, after portal_session has failed.                                   *)
OpenFails ==
    /\ phase = "refused"
    /\ lost' = lost + 1
    /\ IF ~initial /\ failures < MaxFailures
         THEN phase' = "retry" /\ failures' = failures + 1
         ELSE /\ phase' = IF initial THEN "denied" ELSE "exhausted"
              /\ UNCHANGED failures
    /\ UNCHANGED <<orderly, asking, initial, token, disk, loopVars, stopping,
                   portalVars, layoutVars, helperVars>>

-----------------------------------------------------------------------------
(* One session                                                             *)

(* The previous frames are removed and a helper is started.                *)
RemovedMutant == frames
Removed == 0

Starts ==
    /\ phase = "start"
    /\ phase' = "watch"
    /\ initial' = FALSE
    /\ frames' = Removed
    /\ helpers' = helpers \cup {session}
    /\ exit' = "none"
    /\ reconfigure' = FALSE /\ portalClosed' = FALSE
    /\ status' = "none" /\ healthy' = "no"
    /\ UNCHANGED <<orderly, asking, failures, token, disk, stopping,
                   portalVars, layoutVars, lost>>

(* Removing the frames or starting the helper fails: run returns.          *)
StartFails ==
    /\ phase = "start"
    /\ phase' = "broken"
    /\ initial' = FALSE
    /\ UNCHANGED <<orderly, asking, failures, token, disk, loopVars,
                   stopping, portalVars, layoutVars, helperVars, lost>>

(* The branches of the biased select: stop, Closed, MonitorsChanged, tick. *)
(* wait_for_stop looks at the flag every 50 ms, so that a stop may not be  *)
(* noticed yet.                                                            *)
NoticesStopMutant == stopping /\ helpers = {}
NoticesStop == stopping

WatchStop ==
    /\ phase = "watch"
    /\ NoticesStop
    /\ phase' = "teardown"
    /\ UNCHANGED <<orderly, asking, policy, loopVars, stopping, portalVars,
                   layoutVars, helperVars, lost>>

WatchClosed ==
    /\ phase = "watch"
    /\ closed = "here"
    /\ phase' = "correlate"
    /\ UNCHANGED <<orderly, asking, policy, loopVars, stopping, portalVars,
                   layoutVars, helperVars, lost>>

(* A layout change, on its own or within 250 ms of Closed.                 *)
WatchChange ==
    /\ (phase = "watch" /\ closed # "here") \/ phase = "correlate"
    /\ changes > 0
    /\ changes' = changes - 1
    /\ reconfigure' = TRUE
    /\ phase' = "teardown"
    /\ UNCHANGED <<orderly, asking, policy, portalClosed, status, healthy,
                   stopping, portalVars, layouts, owed, changed, helperVars,
                   lost>>

(* No change comes: Mutter's signal is assumed to come within the 250 ms.  *)
UnmatchedMutant == TRUE
Unmatched == changes = 0 /\ ~owed

NoChange ==
    /\ phase = "correlate"
    /\ Unmatched
    /\ portalClosed' = TRUE
    /\ phase' = "teardown"
    /\ UNCHANGED <<orderly, asking, policy, reconfigure, status, healthy,
                   stopping, portalVars, layoutVars, helperVars, lost>>

Tick ==
    /\ phase = "watch"
    /\ closed # "here" /\ changes = 0
    /\ healthy' = IF frames # 0 /\ healthy = "no" THEN "recent" ELSE healthy
    /\ status' = exit
    /\ phase' = IF helpers = {} THEN "teardown" ELSE "watch"
    /\ UNCHANGED <<orderly, asking, policy, reconfigure, portalClosed,
                   stopping, portalVars, layoutVars, helperVars, lost>>

(* drop(helper) stops the helper and waits for it: it removes its frames   *)
(* unless it has to be killed.  Then the session is closed.                *)
ReapedMutant == helpers
Reaped == {}

Teardown ==
    /\ phase = "teardown"
    /\ phase' = "settle"
    /\ helpers' = Reaped
    /\ frames' \in IF helpers = {} THEN {frames} ELSE {0, frames}
    /\ closed' = "no"
    /\ UNCHANGED <<orderly, asking, policy, loopVars, stopping, session,
                   sharing, latest, layoutVars, exit, lost>>

(* What happens next.  Thirty healthy seconds restore the retry budget,    *)
(* whatever ended them; a layout change costs nothing.                     *)
CountedMutantTwo == IF healthy = "long" THEN failures - 1 ELSE failures
CountedMutant == IF healthy = "no" THEN failures ELSE 0
Counted == IF healthy = "long" THEN 0 ELSE failures

SpentMutant == Counted + 1
Spent == IF reconfigure THEN Counted ELSE Counted + 1

VerdictMutant ==
    IF stopping THEN "stopped"
    ELSE IF reconfigure THEN "pause"
    ELSE IF Spent > MaxFailures THEN "exhausted"
    ELSE IF status = "fatal" THEN "broken" ELSE "pause"
Verdict ==
    IF stopping THEN "stopped"
    ELSE IF portalClosed THEN "closed"
    ELSE IF reconfigure THEN "pause"
    ELSE IF Spent > MaxFailures THEN "exhausted"
    ELSE IF status = "fatal" THEN "broken" ELSE "pause"

Settle ==
    /\ phase = "settle"
    /\ phase' = Verdict
    /\ failures' = IF stopping \/ portalClosed THEN failures ELSE Spent
    /\ UNCHANGED <<orderly, asking, initial, token, disk, loopVars, stopping,
                   portalVars, layoutVars, helperVars, lost>>

(* After a second, in which Mutter announces its change, the loop starts   *)
(* over; after a layout change the signals that came meanwhile count as    *)
(* part of it.                                                             *)
Again ==
    /\ phase \in {"pause", "retry"}
    /\ ~owed
    /\ phase' = "open"
    /\ asking' = FirstAttempt(token)
    /\ changes' = IF phase = "pause" /\ reconfigure THEN 0 ELSE changes
    /\ UNCHANGED <<orderly, policy, loopVars, stopping, portalVars, layouts,
                   owed, changed, helperVars, lost>>

(* wait_for_stop beside portal_session and beside the pauses.              *)
StopBetween ==
    /\ phase \in {"open", "pause", "retry"}
    /\ stopping
    /\ phase' = "stopped"
    /\ UNCHANGED <<orderly, asking, policy, loopVars, stopping, portalVars,
                   layoutVars, helperVars, lost>>

Supervisor ==
    \/ \E issued \in Tokens \cup {NoToken} : Granted(issued)
    \/ Refused \/ OpenFails
    \/ Starts \/ StartFails
    \/ WatchStop \/ WatchClosed \/ WatchChange \/ NoChange \/ Tick
    \/ Teardown \/ Settle \/ Again \/ StopBetween

-----------------------------------------------------------------------------
(* The world around the supervisor.                                        *)

Stop ==
    /\ ~Ended /\ ~stopping
    /\ stopping' = TRUE
    /\ UNCHANGED <<orderly, phase, asking, policy, loopVars, portalVars,
                   layoutVars, helperVars, lost>>

(* The user stops sharing: the session is closed, and its stream ends.     *)
UserStops ==
    /\ phase \in {"start", "watch"}
    /\ sharing = "on"
    /\ sharing' = "user"
    /\ closed' = IF orderly THEN "here" ELSE "sent"
    /\ UNCHANGED <<orderly, phase, asking, policy, loopVars, stopping,
                   session, latest, layoutVars, helperVars, lost>>

(* A layout change in which Mutter closes the session before it announces  *)
(* the change.                                                             *)
MutterCloses ==
    /\ phase \in {"start", "watch"}
    /\ sharing = "on"
    /\ layouts < MaxLayouts
    /\ layouts' = layouts + 1
    /\ sharing' = "mutter"
    /\ closed' = IF orderly THEN "here" ELSE "sent"
    /\ owed' = TRUE /\ changed' = TRUE
    /\ UNCHANGED <<orderly, phase, asking, policy, loopVars, stopping,
                   session, latest, changes, helperVars, lost>>

MutterAnnounces ==
    /\ owed
    /\ owed' = FALSE
    /\ changes' = changes + 1
    /\ UNCHANGED <<orderly, phase, asking, policy, loopVars, stopping,
                   portalVars, layouts, changed, helperVars, lost>>

LayoutChanges ==
    /\ phase = "watch" \/ (~orderly /\ ~Ended)
    /\ layouts < MaxLayouts
    /\ layouts' = layouts + 1
    /\ changes' = changes + 1
    /\ changed' = TRUE
    /\ UNCHANGED <<orderly, phase, asking, policy, loopVars, stopping,
                   portalVars, owed, helperVars, lost>>

ClosedArrives ==
    /\ closed = "sent"
    /\ closed' = "here"
    /\ UNCHANGED <<orderly, phase, asking, policy, loopVars, stopping,
                   session, sharing, latest, layoutVars, helperVars, lost>>

Publishes(helper) ==
    /\ helper \in helpers
    /\ frames' = helper
    /\ UNCHANGED <<orderly, phase, asking, policy, loopVars, stopping,
                   portalVars, layoutVars, helpers, exit, lost>>

(* A helper ends by itself: with status 0 or 75 after removing its frames, *)
(* by a signal leaving them, or with a status that forbids a retry.        *)
HelperExits(helper) ==
    /\ helper \in helpers
    /\ helpers' = helpers \ {helper}
    /\ \/ exit' = "again" /\ frames' \in {0, frames}
       \/ exit' = "fatal" /\ frames' = 0
    /\ lost' = lost + 1
    /\ UNCHANGED <<orderly, phase, asking, policy, loopVars, stopping,
                   portalVars, layoutVars>>

(* Thirty seconds have passed since the supervisor saw the first frame.    *)
ThirtySeconds ==
    /\ healthy = "recent"
    /\ phase \in {"watch", "correlate", "teardown", "settle"}
    /\ healthy' = "long"
    /\ lost' = IF exit = "none" THEN 0 ELSE 1
    /\ UNCHANGED <<orderly, phase, asking, policy, reconfigure, portalClosed,
                   status, stopping, portalVars, layoutVars, helperVars>>

World ==
    \/ Stop \/ UserStops
    \/ MutterCloses \/ MutterAnnounces \/ LayoutChanges \/ ClosedArrives
    \/ \E helper \in 1..MaxSessions : Publishes(helper) \/ HelperExits(helper)
    \/ ThirtySeconds

Next == Supervisor \/ World

(* The supervisor's own steps need nobody's answer.                        *)
Own ==
    \/ OpenFails \/ Starts \/ StartFails
    \/ WatchStop \/ WatchClosed \/ WatchChange \/ NoChange \/ Tick
    \/ Teardown \/ Settle \/ Again \/ StopBetween

Fairness == WF_vars(Own) /\ WF_vars(WatchStop) /\ WF_vars(MutterAnnounces)

Spec == Init /\ [][Next]_vars
FairSpec == Spec /\ Fairness

-----------------------------------------------------------------------------
(* Properties                                                              *)

TypeOK ==
    /\ orderly \in BOOLEAN
    /\ phase \in {"open", "refused", "retry", "start", "watch", "correlate",
                  "teardown", "settle", "pause",
                  "stopped", "denied", "closed", "exhausted", "broken"}
    /\ asking \in {"saved", "interactive", "none"}
    /\ initial \in BOOLEAN /\ failures \in 0..(MaxFailures + 1)
    /\ token \in Tokens \cup {NoToken} /\ disk \in Tokens \cup {NoToken}
    /\ latest \in Tokens \cup {NoToken}
    /\ reconfigure \in BOOLEAN /\ portalClosed \in BOOLEAN
    /\ status \in {"none", "again", "fatal"} /\ exit \in {"none", "again", "fatal"}
    /\ healthy \in {"no", "recent", "long"}
    /\ stopping \in BOOLEAN
    /\ session \in 0..MaxSessions /\ frames \in 0..MaxSessions
    /\ helpers \subseteq 1..MaxSessions
    /\ sharing \in {"on", "user", "mutter"} /\ closed \in {"no", "sent", "here"}
    /\ changes \in Nat /\ layouts \in 0..MaxLayouts
    /\ owed \in BOOLEAN /\ changed \in BOOLEAN
    /\ lost \in Nat

(* A new helper is started only when its predecessor is gone, and none     *)
(* outlives the supervisor: two of them would write to and unlink the same *)
(* path (the assumption FrameRing makes of its helper).                    *)
OneHelper ==
    /\ helpers \subseteq {session}
    /\ helpers # {} => phase \in {"watch", "correlate", "teardown"}

(* The frames at the transport's path while a session is watched are its   *)
(* own: what an earlier helper left behind is neither shown to the client  *)
(* nor counted as health.                                                  *)
FramesAreCurrent ==
    phase \in {"watch", "correlate"} => frames \in {0, session}

(* Only the initial session can make a token-less selection: no interactive*)
(* attempt follows a session, even when the failure counter was reset.     *)
InteractiveOnlyFirst ==
    phase = "open" /\ asking = "interactive" => session = 0

(* Recovery gives up after more than three failures since capture was last *)
(* healthy, no earlier whatever the layout changes in between, and no      *)
(* later unless a layout change covered up a failure.                      *)
RetryBudget ==
    /\ phase = "exhausted" => lost > MaxFailures
    /\ lost <= MaxFailures + 1 + layouts

(* Sharing that ends as "closed by the portal" was ended by the user, never*)
(* by a layout change in which Mutter closed the stream first.             *)
OnlyUserEndsSharing ==
    phase = "closed" => sharing = "user"

(* The returned restore token is in the configuration file while its       *)
(* session is watched, so that the next run can hand it back, if the       *)
(* configuration can be written.                                           *)
TokenOnDisk ==
    orderly /\ phase = "watch" => disk = latest

(* A Closed signal without a matching layout change ends sharing: no       *)
(* session follows one the user stopped when the layout had not changed    *)
(* since the portal granted it.                                            *)
StopSharingIsFinal ==
    [][sharing = "user" /\ ~changed => session' = session]_vars

(* The same, when the stop is noticed before the death of the helper.      *)
StopIsFinalInOrder ==
    [][orderly /\ sharing = "user" /\ ~changed => session' = session]_vars

(* A stop request ends the supervisor.                                     *)
StopEnds == stopping ~> Ended
=============================================================================
