---------------------- MODULE CaptureSupervisor_proofs ----------------------
(* Theorems about the ScreenCast supervisor, for any tokens and bounds.    *)
EXTENDS CaptureSupervisor, Integers, TLAPS

-----------------------------------------------------------------------------
(* Types, and what the phases imply: past the portal a session exists, only*)
(* an exhausted supervisor has overdrawn its budget, and initial_session   *)
(* is over once a session was watched.                                     *)

Phases ==
    /\ phase \in {"start", "watch", "correlate", "teardown", "settle"}
          => session > 0
    /\ phase # "exhausted" => failures <= MaxFailures
    /\ phase \in {"watch", "correlate", "teardown", "settle", "pause", "retry"}
          => ~initial
    /\ phase = "open" /\ initial => session = 0
    /\ phase = "open" /\ asking = "interactive" => initial

Typed == TypeOK /\ Phases

LEMMA TypeInit == Init => Typed
<1> SUFFICES ASSUME Init PROVE Typed
  OBVIOUS
<1>1. 0 \in 0..MaxSessions /\ 0 \in 0..MaxLayouts
  BY SupervisorAssumption
<1>2. /\ initial \in BOOLEAN /\ reconfigure \in BOOLEAN /\ portalClosed \in BOOLEAN
      /\ stopping \in BOOLEAN /\ owed \in BOOLEAN /\ changed \in BOOLEAN
  BY DEF Init
<1>3. failures \in 0..(MaxFailures + 1) /\ lost \in Nat /\ changes \in Nat
  BY DEF Init, MaxFailures
<1>4. TypeOK
  BY <1>1, <1>2, <1>3 DEF Init, TypeOK, FirstAttempt
<1>5. Phases
  BY DEF Init, Phases, MaxFailures, FirstAttempt
<1> QED BY <1>4, <1>5 DEF Typed

LEMMA TypeNext == ASSUME Typed, Next PROVE Typed'
<1>1. ASSUME NEW issued \in Tokens \cup {NoToken}, Granted(issued) PROVE Typed'
  <2>1. session + 1 \in 0..MaxSessions /\ session' = session + 1 /\ session' > 0
    BY SupervisorAssumption, <1>1 DEF Granted, Typed, TypeOK
  <2>2. disk' \in Tokens \cup {NoToken} /\ phase' \in {"refused", "start"}
    BY <1>1 DEF Granted, Stored, Typed, TypeOK
  <2>0. changed' \in BOOLEAN
    BY <1>1 DEF Granted
  <2>3. TypeOK'
    BY <1>1, <2>0, <2>1, <2>2
       DEF Granted, policy, loopVars, portalVars, layoutVars, helperVars,
           Typed, TypeOK
  <2>4. Phases'
    BY <1>1, <2>1, <2>2 DEF Granted, Typed, Phases
  <2> QED BY <2>3, <2>4 DEF Typed
<1>2. CASE Refused
  BY SupervisorAssumption, <1>2
     DEF Refused, FallsBack, policy, loopVars, portalVars, layoutVars,
         helperVars, Typed, TypeOK, Phases, MaxFailures
<1>3. CASE OpenFails
  BY SupervisorAssumption, <1>3
     DEF OpenFails, Ended, policy, loopVars, portalVars, layoutVars,
         helperVars, Typed, TypeOK, Phases, MaxFailures
<1>4. CASE Starts
  <2>1. session \in 1..MaxSessions /\ 0 \in 0..MaxSessions
    BY SupervisorAssumption, <1>4 DEF Starts, Typed, TypeOK, Phases
  <2>4. frames' \in 0..MaxSessions /\ helpers' \subseteq 1..MaxSessions
    BY <1>4, <2>1 DEF Starts, Removed, Typed, TypeOK
  <2>5. /\ initial' \in BOOLEAN /\ reconfigure' \in BOOLEAN
        /\ portalClosed' \in BOOLEAN
    BY <1>4 DEF Starts
  <2>2. TypeOK'
    BY <1>4, <2>4, <2>5 DEF Starts, portalVars, layoutVars, Typed, TypeOK
  <2>3. Phases'
    BY <1>4, <2>1 DEF Starts, portalVars, Typed, Phases, MaxFailures
  <2> QED BY <2>2, <2>3 DEF Typed
<1>5. CASE StartFails
  <2>0. initial' \in BOOLEAN
    BY <1>5 DEF StartFails
  <2>1. TypeOK'
    BY <1>5, <2>0
       DEF StartFails, loopVars, portalVars, layoutVars, helperVars, Typed,
           TypeOK
  <2>2. Phases'
    BY <1>5 DEF StartFails, portalVars, Typed, Phases
  <2> QED BY <2>1, <2>2 DEF Typed
<1>6. CASE WatchStop
  BY SupervisorAssumption, <1>6
     DEF WatchStop, NoticesStop, policy, loopVars, portalVars, layoutVars,
         helperVars, Typed, TypeOK, Phases, MaxFailures
<1>7. CASE WatchClosed
  BY SupervisorAssumption, <1>7
     DEF WatchClosed, policy, loopVars, portalVars, layoutVars, helperVars,
         Typed, TypeOK, Phases, MaxFailures
<1>8. CASE WatchChange
  BY SupervisorAssumption, <1>8
     DEF WatchChange, policy, loopVars, portalVars, layoutVars, helperVars,
         Typed, TypeOK, Phases, MaxFailures
<1>9. CASE NoChange
  BY SupervisorAssumption, <1>9
     DEF NoChange, Unmatched, policy, loopVars, portalVars, layoutVars,
         helperVars, Typed, TypeOK, Phases, MaxFailures
<1>10. CASE Tick
  BY SupervisorAssumption, <1>10
     DEF Tick, policy, loopVars, portalVars, layoutVars, helperVars, Typed,
         TypeOK, Phases, MaxFailures
<1>11. CASE Teardown
  BY SupervisorAssumption, <1>11
     DEF Teardown, Reaped, policy, loopVars, portalVars, layoutVars,
         helperVars, Typed, TypeOK, Phases, MaxFailures
<1>12. CASE Settle
  BY SupervisorAssumption, <1>12
     DEF Settle, Verdict, Spent, Counted, policy, loopVars, portalVars,
         layoutVars, helperVars, Typed, TypeOK, Phases, MaxFailures
<1>13. CASE Again
  BY SupervisorAssumption, <1>13
     DEF Again, FirstAttempt, policy, loopVars, portalVars, layoutVars,
         helperVars, Typed, TypeOK, Phases, MaxFailures
<1>14. CASE StopBetween
  BY SupervisorAssumption, <1>14
     DEF StopBetween, policy, loopVars, portalVars, layoutVars, helperVars,
         Typed, TypeOK, Phases, MaxFailures
<1>15. CASE Stop
  BY SupervisorAssumption, <1>15
     DEF Stop, Ended, policy, loopVars, portalVars, layoutVars, helperVars,
         Typed, TypeOK, Phases, MaxFailures
<1>16. CASE UserStops
  BY SupervisorAssumption, <1>16
     DEF UserStops, policy, loopVars, portalVars, layoutVars, helperVars,
         Typed, TypeOK, Phases, MaxFailures
<1>17. CASE MutterCloses
  BY SupervisorAssumption, <1>17
     DEF MutterCloses, policy, loopVars, portalVars, layoutVars, helperVars,
         Typed, TypeOK, Phases, MaxFailures
<1>18. CASE MutterAnnounces
  <2>0. changes \in Nat /\ changes' = changes + 1 /\ owed' = FALSE
    BY <1>18 DEF MutterAnnounces, Typed, TypeOK
  <2>1. changes' \in Nat
    BY <2>0
  <2>2. owed' \in BOOLEAN
    BY <2>0
  <2> QED BY <1>18, <2>1, <2>2
          DEF MutterAnnounces, policy, loopVars, portalVars, helperVars,
              Typed, TypeOK, Phases
<1>19. CASE LayoutChanges
  BY SupervisorAssumption, <1>19
     DEF LayoutChanges, policy, loopVars, portalVars, layoutVars, helperVars,
         Typed, TypeOK, Phases, MaxFailures
<1>20. CASE ClosedArrives
  BY SupervisorAssumption, <1>20
     DEF ClosedArrives, policy, loopVars, portalVars, layoutVars, helperVars,
         Typed, TypeOK, Phases, MaxFailures
<1>21. CASE ThirtySeconds
  BY SupervisorAssumption, <1>21
     DEF ThirtySeconds, policy, loopVars, portalVars, layoutVars, helperVars,
         Typed, TypeOK, Phases, MaxFailures
<1>22. ASSUME NEW helper \in 1..MaxSessions, Publishes(helper) PROVE Typed'
  BY SupervisorAssumption, <1>22
     DEF Publishes, policy, loopVars, portalVars, layoutVars, helperVars,
         Typed, TypeOK, Phases, MaxFailures
<1>23. ASSUME NEW helper \in 1..MaxSessions, HelperExits(helper) PROVE Typed'
  BY SupervisorAssumption, <1>23
     DEF HelperExits, policy, loopVars, portalVars, layoutVars, helperVars,
         Typed, TypeOK, Phases, MaxFailures
<1> QED BY <1>1, <1>2, <1>3, <1>4, <1>5, <1>6, <1>7, <1>8, <1>9, <1>10, 
           <1>11, <1>12, <1>13, <1>14, <1>15, <1>16, <1>17, <1>18, 
           <1>19, <1>20, <1>21, <1>22, <1>23
        DEF Next, Supervisor, World

LEMMA TypeStep == Typed /\ [Next]_vars => Typed'
<1>1. Typed /\ UNCHANGED vars => Typed'
  BY DEF vars, Typed, TypeOK, Phases
<1> QED BY <1>1, TypeNext

(* Whether the signals come in order is settled once and for all.          *)
LEMMA OrderlyStep == ASSUME [Next]_vars PROVE orderly' = orderly
BY DEF Next, Supervisor, World, vars, Granted, Refused, OpenFails, Starts,
       StartFails, WatchStop, WatchClosed, WatchChange, NoChange, Tick, Teardown,
       Settle, Again, StopBetween, Stop, UserStops, MutterCloses, MutterAnnounces,
       LayoutChanges, ClosedArrives, ThirtySeconds, Publishes, HelperExits

(* Every field has its type in every reachable state.                      *)
THEOREM TypeCorrect == Spec => []TypeOK
<1>1. Typed => TypeOK
  BY DEF Typed
<1> QED BY <1>1, TypeInit, TypeStep, PTL DEF Spec

(* Only the initial session can make a token-less selection, however often *)
(* the failure counter is reset.                                           *)
THEOREM InteractiveCorrect == Spec => []InteractiveOnlyFirst
<1>1. Typed => InteractiveOnlyFirst
  BY DEF Typed, Phases, InteractiveOnlyFirst
<1> QED BY <1>1, TypeInit, TypeStep, PTL DEF Spec

-----------------------------------------------------------------------------
(* One helper, and only its frames.                                        *)

Transport == OneHelper /\ FramesAreCurrent

LEMMA TransportNext == ASSUME Typed, Transport, Next PROVE Transport'
<1>1. ASSUME NEW issued \in Tokens \cup {NoToken}, Granted(issued) PROVE Transport'
  BY <1>1
     DEF Granted, Stored, policy, loopVars, portalVars, layoutVars,
         helperVars, Transport, OneHelper, FramesAreCurrent, Typed, TypeOK,
         Phases
<1>2. CASE Refused
  BY <1>2
     DEF Refused, FallsBack, policy, loopVars, portalVars, layoutVars,
         helperVars, Transport, OneHelper, FramesAreCurrent, Typed, TypeOK,
         Phases
<1>3. CASE OpenFails
  BY <1>3
     DEF OpenFails, Ended, policy, loopVars, portalVars, layoutVars,
         helperVars, Transport, OneHelper, FramesAreCurrent, Typed, TypeOK,
         Phases
<1>4. CASE Starts
  BY <1>4
     DEF Starts, Removed, policy, loopVars, portalVars, layoutVars,
         helperVars, Transport, OneHelper, FramesAreCurrent, Typed, TypeOK,
         Phases
<1>5. CASE StartFails
  BY <1>5
     DEF StartFails, policy, loopVars, portalVars, layoutVars, helperVars,
         Transport, OneHelper, FramesAreCurrent, Typed, TypeOK, Phases
<1>6. CASE WatchStop
  BY <1>6
     DEF WatchStop, NoticesStop, policy, loopVars, portalVars, layoutVars,
         helperVars, Transport, OneHelper, FramesAreCurrent, Typed, TypeOK,
         Phases
<1>7. CASE WatchClosed
  BY <1>7
     DEF WatchClosed, policy, loopVars, portalVars, layoutVars, helperVars,
         Transport, OneHelper, FramesAreCurrent, Typed, TypeOK, Phases
<1>8. CASE WatchChange
  BY <1>8
     DEF WatchChange, policy, loopVars, portalVars, layoutVars, helperVars,
         Transport, OneHelper, FramesAreCurrent, Typed, TypeOK, Phases
<1>9. CASE NoChange
  BY <1>9
     DEF NoChange, Unmatched, policy, loopVars, portalVars, layoutVars,
         helperVars, Transport, OneHelper, FramesAreCurrent, Typed, TypeOK,
         Phases
<1>10. CASE Tick
  BY <1>10
     DEF Tick, policy, loopVars, portalVars, layoutVars, helperVars,
         Transport, OneHelper, FramesAreCurrent, Typed, TypeOK, Phases
<1>11. CASE Teardown
  BY <1>11
     DEF Teardown, Reaped, policy, loopVars, portalVars, layoutVars,
         helperVars, Transport, OneHelper, FramesAreCurrent, Typed, TypeOK,
         Phases
<1>12. CASE Settle
  BY <1>12
     DEF Settle, Verdict, Spent, Counted, policy, loopVars, portalVars,
         layoutVars, helperVars, Transport, OneHelper, FramesAreCurrent,
         Typed, TypeOK, Phases
<1>13. CASE Again
  BY <1>13
     DEF Again, FirstAttempt, policy, loopVars, portalVars, layoutVars,
         helperVars, Transport, OneHelper, FramesAreCurrent, Typed, TypeOK,
         Phases
<1>14. CASE StopBetween
  BY <1>14
     DEF StopBetween, policy, loopVars, portalVars, layoutVars, helperVars,
         Transport, OneHelper, FramesAreCurrent, Typed, TypeOK, Phases
<1>15. CASE Stop
  BY <1>15
     DEF Stop, Ended, policy, loopVars, portalVars, layoutVars, helperVars,
         Transport, OneHelper, FramesAreCurrent, Typed, TypeOK, Phases
<1>16. CASE UserStops
  BY <1>16
     DEF UserStops, policy, loopVars, portalVars, layoutVars, helperVars,
         Transport, OneHelper, FramesAreCurrent, Typed, TypeOK, Phases
<1>17. CASE MutterCloses
  BY <1>17
     DEF MutterCloses, policy, loopVars, portalVars, layoutVars, helperVars,
         Transport, OneHelper, FramesAreCurrent, Typed, TypeOK, Phases
<1>18. CASE MutterAnnounces
  BY <1>18
     DEF MutterAnnounces, policy, loopVars, portalVars, layoutVars,
         helperVars, Transport, OneHelper, FramesAreCurrent, Typed, TypeOK,
         Phases
<1>19. CASE LayoutChanges
  BY <1>19
     DEF LayoutChanges, policy, loopVars, portalVars, layoutVars, helperVars,
         Transport, OneHelper, FramesAreCurrent, Typed, TypeOK, Phases
<1>20. CASE ClosedArrives
  BY <1>20
     DEF ClosedArrives, policy, loopVars, portalVars, layoutVars, helperVars,
         Transport, OneHelper, FramesAreCurrent, Typed, TypeOK, Phases
<1>21. CASE ThirtySeconds
  BY <1>21
     DEF ThirtySeconds, policy, loopVars, portalVars, layoutVars, helperVars,
         Transport, OneHelper, FramesAreCurrent, Typed, TypeOK, Phases
<1>22. ASSUME NEW helper \in 1..MaxSessions, Publishes(helper) PROVE Transport'
  BY <1>22
     DEF Publishes, policy, loopVars, portalVars, layoutVars, helperVars,
         Transport, OneHelper, FramesAreCurrent, Typed, TypeOK, Phases
<1>23. ASSUME NEW helper \in 1..MaxSessions, HelperExits(helper) PROVE Transport'
  BY <1>23
     DEF HelperExits, policy, loopVars, portalVars, layoutVars, helperVars,
         Transport, OneHelper, FramesAreCurrent, Typed, TypeOK, Phases
<1> QED BY <1>1, <1>2, <1>3, <1>4, <1>5, <1>6, <1>7, <1>8, <1>9, <1>10, 
           <1>11, <1>12, <1>13, <1>14, <1>15, <1>16, <1>17, <1>18, 
           <1>19, <1>20, <1>21, <1>22, <1>23
        DEF Next, Supervisor, World

LEMMA TransportStep == Typed /\ Transport /\ [Next]_vars => Transport'
<1>1. Transport /\ UNCHANGED vars => Transport'
  BY DEF vars, Transport, OneHelper, FramesAreCurrent
<1> QED BY <1>1, TransportNext

LEMMA TransportInit == Init => Transport
  BY DEF Init, Transport, OneHelper, FramesAreCurrent

(* A helper is started only after its predecessor is gone, and none        *)
(* outlives the supervisor.                                                *)
THEOREM OneHelperCorrect == Spec => []OneHelper
<1>1. Transport => OneHelper
  BY DEF Transport
<1> QED BY <1>1, TypeInit, TypeStep, TransportInit, TransportStep, PTL DEF Spec

(* No session is taken for healthy on the frames of an earlier one.        *)
THEOREM FramesAreCurrentCorrect == Spec => []FramesAreCurrent
<1>1. Transport => FramesAreCurrent
  BY DEF Transport
<1> QED BY <1>1, TypeInit, TypeStep, TransportInit, TransportStep, PTL DEF Spec

-----------------------------------------------------------------------------
(* Who ended the session.  A session Mutter closed has its layout change   *)
(* coming or waiting until the supervisor takes it.                        *)

Endings ==
    /\ closed # "no" \/ phase = "correlate" => sharing # "on"
    /\ sharing = "mutter" /\ phase \in {"start", "watch", "correlate"}
          => owed \/ changes > 0
    /\ phase \in {"teardown", "settle"} /\ portalClosed => sharing = "user"
    /\ phase \in {"start", "watch", "correlate"} /\ portalClosed => phase = "start"
    /\ OnlyUserEndsSharing

LEMMA EndingsNext == ASSUME Typed, Endings, Next PROVE Endings'
<1>1. ASSUME NEW issued \in Tokens \cup {NoToken}, Granted(issued) PROVE Endings'
  BY <1>1
     DEF Granted, Stored, policy, loopVars, portalVars, layoutVars,
         helperVars, Endings, OnlyUserEndsSharing, Typed, TypeOK, Phases
<1>2. CASE Refused
  BY <1>2
     DEF Refused, FallsBack, policy, loopVars, portalVars, layoutVars,
         helperVars, Endings, OnlyUserEndsSharing, Typed, TypeOK, Phases
<1>3. CASE OpenFails
  BY <1>3
     DEF OpenFails, Ended, policy, loopVars, portalVars, layoutVars,
         helperVars, Endings, OnlyUserEndsSharing, Typed, TypeOK, Phases
<1>4. CASE Starts
  BY <1>4
     DEF Starts, Removed, policy, loopVars, portalVars, layoutVars,
         helperVars, Endings, OnlyUserEndsSharing, Typed, TypeOK, Phases
<1>5. CASE StartFails
  BY <1>5
     DEF StartFails, policy, loopVars, portalVars, layoutVars, helperVars,
         Endings, OnlyUserEndsSharing, Typed, TypeOK, Phases
<1>6. CASE WatchStop
  BY <1>6
     DEF WatchStop, NoticesStop, policy, loopVars, portalVars, layoutVars,
         helperVars, Endings, OnlyUserEndsSharing, Typed, TypeOK, Phases
<1>7. CASE WatchClosed
  BY <1>7
     DEF WatchClosed, policy, loopVars, portalVars, layoutVars, helperVars,
         Endings, OnlyUserEndsSharing, Typed, TypeOK, Phases
<1>8. CASE WatchChange
  BY <1>8
     DEF WatchChange, policy, loopVars, portalVars, layoutVars, helperVars,
         Endings, OnlyUserEndsSharing, Typed, TypeOK, Phases
<1>9. CASE NoChange
  BY <1>9
     DEF NoChange, Unmatched, policy, loopVars, portalVars, layoutVars,
         helperVars, Endings, OnlyUserEndsSharing, Typed, TypeOK, Phases
<1>10. CASE Tick
  BY <1>10
     DEF Tick, policy, loopVars, portalVars, layoutVars, helperVars, Endings,
         OnlyUserEndsSharing, Typed, TypeOK, Phases
<1>11. CASE Teardown
  BY <1>11
     DEF Teardown, Reaped, policy, loopVars, portalVars, layoutVars,
         helperVars, Endings, OnlyUserEndsSharing, Typed, TypeOK, Phases
<1>12. CASE Settle
  BY <1>12
     DEF Settle, Verdict, Spent, Counted, policy, loopVars, portalVars,
         layoutVars, helperVars, Endings, OnlyUserEndsSharing, Typed, TypeOK,
         Phases
<1>13. CASE Again
  BY <1>13
     DEF Again, FirstAttempt, policy, loopVars, portalVars, layoutVars,
         helperVars, Endings, OnlyUserEndsSharing, Typed, TypeOK, Phases
<1>14. CASE StopBetween
  BY <1>14
     DEF StopBetween, policy, loopVars, portalVars, layoutVars, helperVars,
         Endings, OnlyUserEndsSharing, Typed, TypeOK, Phases
<1>15. CASE Stop
  BY <1>15
     DEF Stop, Ended, policy, loopVars, portalVars, layoutVars, helperVars,
         Endings, OnlyUserEndsSharing, Typed, TypeOK, Phases
<1>16. CASE UserStops
  BY <1>16
     DEF UserStops, policy, loopVars, portalVars, layoutVars, helperVars,
         Endings, OnlyUserEndsSharing, Typed, TypeOK, Phases
<1>17. CASE MutterCloses
  BY <1>17
     DEF MutterCloses, policy, loopVars, portalVars, layoutVars, helperVars,
         Endings, OnlyUserEndsSharing, Typed, TypeOK, Phases
<1>18. CASE MutterAnnounces
  BY <1>18
     DEF MutterAnnounces, policy, loopVars, portalVars, layoutVars,
         helperVars, Endings, OnlyUserEndsSharing, Typed, TypeOK, Phases
<1>19. CASE LayoutChanges
  BY <1>19
     DEF LayoutChanges, policy, loopVars, portalVars, layoutVars, helperVars,
         Endings, OnlyUserEndsSharing, Typed, TypeOK, Phases
<1>20. CASE ClosedArrives
  BY <1>20
     DEF ClosedArrives, policy, loopVars, portalVars, layoutVars, helperVars,
         Endings, OnlyUserEndsSharing, Typed, TypeOK, Phases
<1>21. CASE ThirtySeconds
  BY <1>21
     DEF ThirtySeconds, policy, loopVars, portalVars, layoutVars, helperVars,
         Endings, OnlyUserEndsSharing, Typed, TypeOK, Phases
<1>22. ASSUME NEW helper \in 1..MaxSessions, Publishes(helper) PROVE Endings'
  BY <1>22
     DEF Publishes, policy, loopVars, portalVars, layoutVars, helperVars,
         Endings, OnlyUserEndsSharing, Typed, TypeOK, Phases
<1>23. ASSUME NEW helper \in 1..MaxSessions, HelperExits(helper) PROVE Endings'
  BY <1>23
     DEF HelperExits, policy, loopVars, portalVars, layoutVars, helperVars,
         Endings, OnlyUserEndsSharing, Typed, TypeOK, Phases
<1> QED BY <1>1, <1>2, <1>3, <1>4, <1>5, <1>6, <1>7, <1>8, <1>9, <1>10, 
           <1>11, <1>12, <1>13, <1>14, <1>15, <1>16, <1>17, <1>18, 
           <1>19, <1>20, <1>21, <1>22, <1>23
        DEF Next, Supervisor, World

LEMMA EndingsStep == Typed /\ Endings /\ [Next]_vars => Endings'
<1>1. Endings /\ UNCHANGED vars => Endings'
  BY DEF vars, Endings, OnlyUserEndsSharing
<1> QED BY <1>1, EndingsNext

(* Sharing that ends as closed by the portal was ended by the user.        *)
THEOREM OnlyUserCorrect == Spec => []OnlyUserEndsSharing
<1>1. Init => Endings
  BY DEF Init, Endings, OnlyUserEndsSharing
<1>2. Endings => OnlyUserEndsSharing
  BY DEF Endings
<1> QED BY <1>1, <1>2, TypeInit, TypeStep, EndingsStep, PTL DEF Spec

-----------------------------------------------------------------------------
(* A stop is final when the Closed signal comes before the helper dies and *)
(* no layout change comes before the session it would be matched with: the *)
(* signals left over from one session are then gone before the next.       *)

Quiet == changes = 0 /\ ~owed
Untouched == sharing = "user" /\ ~changed

Leftovers ==
    /\ phase \in {"start", "watch", "correlate"} /\ ~changed => Quiet
    /\ phase \in {"start", "watch"} /\ (owed \/ sharing # "on") => closed = "here"
    /\ phase \in {"teardown", "settle"} => stopping \/ reconfigure \/ Quiet
    /\ phase = "pause" => reconfigure \/ Quiet
    /\ phase \in {"open", "retry", "refused"} => Quiet

Final ==
    /\ Untouched /\ phase \in {"teardown", "settle"} => stopping \/ portalClosed
    /\ Untouched => phase \notin {"open", "retry", "refused", "pause"}

LEMMA LeftoversNext == ASSUME orderly, Typed, Leftovers, Next PROVE Leftovers'
<1>1. ASSUME NEW issued \in Tokens \cup {NoToken}, Granted(issued) PROVE Leftovers'
  BY <1>1
     DEF Granted, Stored, policy, loopVars, portalVars, layoutVars,
         helperVars, Leftovers, Quiet, Typed, TypeOK, Phases
<1>2. CASE Refused
  BY <1>2
     DEF Refused, FallsBack, policy, loopVars, portalVars, layoutVars,
         helperVars, Leftovers, Quiet, Typed, TypeOK, Phases
<1>3. CASE OpenFails
  BY <1>3
     DEF OpenFails, Ended, policy, loopVars, portalVars, layoutVars,
         helperVars, Leftovers, Quiet, Typed, TypeOK, Phases
<1>4. CASE Starts
  BY <1>4
     DEF Starts, Removed, policy, loopVars, portalVars, layoutVars,
         helperVars, Leftovers, Quiet, Typed, TypeOK, Phases
<1>5. CASE StartFails
  BY <1>5
     DEF StartFails, policy, loopVars, portalVars, layoutVars, helperVars,
         Leftovers, Quiet, Typed, TypeOK, Phases
<1>6. CASE WatchStop
  BY <1>6
     DEF WatchStop, NoticesStop, policy, loopVars, portalVars, layoutVars,
         helperVars, Leftovers, Quiet, Typed, TypeOK, Phases
<1>7. CASE WatchClosed
  BY <1>7
     DEF WatchClosed, policy, loopVars, portalVars, layoutVars, helperVars,
         Leftovers, Quiet, Typed, TypeOK, Phases
<1>8. CASE WatchChange
  BY <1>8
     DEF WatchChange, policy, loopVars, portalVars, layoutVars, helperVars,
         Leftovers, Quiet, Typed, TypeOK, Phases
<1>9. CASE NoChange
  BY <1>9
     DEF NoChange, Unmatched, policy, loopVars, portalVars, layoutVars,
         helperVars, Leftovers, Quiet, Typed, TypeOK, Phases
<1>10. CASE Tick
  BY <1>10
     DEF Tick, policy, loopVars, portalVars, layoutVars, helperVars, 
         Leftovers, Quiet, Typed, TypeOK, Phases
<1>11. CASE Teardown
  BY <1>11
     DEF Teardown, Reaped, policy, loopVars, portalVars, layoutVars,
         helperVars, Leftovers, Quiet, Typed, TypeOK, Phases
<1>12. CASE Settle
  BY <1>12
     DEF Settle, Verdict, Spent, Counted, policy, loopVars, portalVars,
         layoutVars, helperVars, Leftovers, Quiet, Typed, TypeOK,
         Phases
<1>13. CASE Again
  BY <1>13
     DEF Again, FirstAttempt, policy, loopVars, portalVars, layoutVars,
         helperVars, Leftovers, Quiet, Typed, TypeOK, Phases
<1>14. CASE StopBetween
  BY <1>14
     DEF StopBetween, policy, loopVars, portalVars, layoutVars, helperVars,
         Leftovers, Quiet, Typed, TypeOK, Phases
<1>15. CASE Stop
  BY <1>15
     DEF Stop, Ended, policy, loopVars, portalVars, layoutVars, helperVars,
         Leftovers, Quiet, Typed, TypeOK, Phases
<1>16. CASE UserStops
  BY <1>16
     DEF UserStops, policy, loopVars, portalVars, layoutVars, helperVars,
         Leftovers, Quiet, Typed, TypeOK, Phases
<1>17. CASE MutterCloses
  BY <1>17
     DEF MutterCloses, policy, loopVars, portalVars, layoutVars, helperVars,
         Leftovers, Quiet, Typed, TypeOK, Phases
<1>18. CASE MutterAnnounces
  BY <1>18
     DEF MutterAnnounces, policy, loopVars, portalVars, layoutVars,
         helperVars, Leftovers, Quiet, Typed, TypeOK, Phases
<1>19. CASE LayoutChanges
  BY <1>19
     DEF LayoutChanges, policy, loopVars, portalVars, layoutVars, helperVars,
         Leftovers, Quiet, Typed, TypeOK, Phases
<1>20. CASE ClosedArrives
  BY <1>20
     DEF ClosedArrives, policy, loopVars, portalVars, layoutVars, helperVars,
         Leftovers, Quiet, Typed, TypeOK, Phases
<1>21. CASE ThirtySeconds
  BY <1>21
     DEF ThirtySeconds, policy, loopVars, portalVars, layoutVars, helperVars,
         Leftovers, Quiet, Typed, TypeOK, Phases
<1>22. ASSUME NEW helper \in 1..MaxSessions, Publishes(helper) PROVE Leftovers'
  BY <1>22
     DEF Publishes, policy, loopVars, portalVars, layoutVars, helperVars,
         Leftovers, Quiet, Typed, TypeOK, Phases
<1>23. ASSUME NEW helper \in 1..MaxSessions, HelperExits(helper) PROVE Leftovers'
  BY <1>23
     DEF HelperExits, policy, loopVars, portalVars, layoutVars, helperVars,
         Leftovers, Quiet, Typed, TypeOK, Phases
<1> QED BY <1>1, <1>2, <1>3, <1>4, <1>5, <1>6, <1>7, <1>8, <1>9, <1>10, 
           <1>11, <1>12, <1>13, <1>14, <1>15, <1>16, <1>17, <1>18, 
           <1>19, <1>20, <1>21, <1>22, <1>23
        DEF Next, Supervisor, World

LEMMA FinalNext == ASSUME orderly, Typed, Endings, Leftovers, Final, Next PROVE Final'
<1>1. ASSUME NEW issued \in Tokens \cup {NoToken}, Granted(issued) PROVE Final'
  BY <1>1
     DEF Granted, Stored, policy, loopVars, portalVars, layoutVars,
         helperVars, Final, Untouched, Leftovers, Quiet, Endings, Typed,
         TypeOK, Phases
<1>2. CASE Refused
  BY <1>2
     DEF Refused, FallsBack, policy, loopVars, portalVars, layoutVars,
         helperVars, Final, Untouched, Leftovers, Quiet, Endings, Typed,
         TypeOK, Phases
<1>3. CASE OpenFails
  BY <1>3
     DEF OpenFails, Ended, policy, loopVars, portalVars, layoutVars,
         helperVars, Final, Untouched, Leftovers, Quiet, Endings, Typed,
         TypeOK, Phases
<1>4. CASE Starts
  BY <1>4
     DEF Starts, Removed, policy, loopVars, portalVars, layoutVars,
         helperVars, Final, Untouched, Leftovers, Quiet, Endings, Typed,
         TypeOK, Phases
<1>5. CASE StartFails
  BY <1>5
     DEF StartFails, policy, loopVars, portalVars, layoutVars, helperVars,
         Final, Untouched, Leftovers, Quiet, Endings, Typed, TypeOK, Phases
<1>6. CASE WatchStop
  BY <1>6
     DEF WatchStop, NoticesStop, policy, loopVars, portalVars, layoutVars,
         helperVars, Final, Untouched, Leftovers, Quiet, Endings, Typed,
         TypeOK, Phases
<1>7. CASE WatchClosed
  BY <1>7
     DEF WatchClosed, policy, loopVars, portalVars, layoutVars, helperVars,
         Final, Untouched, Leftovers, Quiet, Endings, Typed, TypeOK, Phases
<1>8. CASE WatchChange
  BY <1>8
     DEF WatchChange, policy, loopVars, portalVars, layoutVars, helperVars,
         Final, Untouched, Leftovers, Quiet, Endings, Typed, TypeOK, Phases
<1>9. CASE NoChange
  BY <1>9
     DEF NoChange, Unmatched, policy, loopVars, portalVars, layoutVars,
         helperVars, Final, Untouched, Leftovers, Quiet, Endings, Typed,
         TypeOK, Phases
<1>10. CASE Tick
  BY <1>10
     DEF Tick, policy, loopVars, portalVars, layoutVars, helperVars, Final,
         Untouched, Leftovers, Quiet, Endings, Typed, TypeOK, Phases
<1>11. CASE Teardown
  BY <1>11
     DEF Teardown, Reaped, policy, loopVars, portalVars, layoutVars,
         helperVars, Final, Untouched, Leftovers, Quiet, Endings, Typed,
         TypeOK, Phases
<1>12. CASE Settle
  BY <1>12
     DEF Settle, Verdict, Spent, Counted, policy, loopVars, portalVars,
         layoutVars, helperVars, Final, Untouched, Leftovers, Quiet, Endings,
         Typed, TypeOK, Phases
<1>13. CASE Again
  BY <1>13
     DEF Again, FirstAttempt, policy, loopVars, portalVars, layoutVars,
         helperVars, Final, Untouched, Leftovers, Quiet, Endings, Typed,
         TypeOK, Phases
<1>14. CASE StopBetween
  BY <1>14
     DEF StopBetween, policy, loopVars, portalVars, layoutVars, helperVars,
         Final, Untouched, Leftovers, Quiet, Endings, Typed, TypeOK, Phases
<1>15. CASE Stop
  BY <1>15
     DEF Stop, Ended, policy, loopVars, portalVars, layoutVars, helperVars,
         Final, Untouched, Leftovers, Quiet, Endings, Typed, TypeOK, Phases
<1>16. CASE UserStops
  BY <1>16
     DEF UserStops, policy, loopVars, portalVars, layoutVars, helperVars,
         Final, Untouched, Leftovers, Quiet, Endings, Typed, TypeOK, Phases
<1>17. CASE MutterCloses
  BY <1>17
     DEF MutterCloses, policy, loopVars, portalVars, layoutVars, helperVars,
         Final, Untouched, Leftovers, Quiet, Endings, Typed, TypeOK, Phases
<1>18. CASE MutterAnnounces
  BY <1>18
     DEF MutterAnnounces, policy, loopVars, portalVars, layoutVars,
         helperVars, Final, Untouched, Leftovers, Quiet, Endings, Typed,
         TypeOK, Phases
<1>19. CASE LayoutChanges
  BY <1>19
     DEF LayoutChanges, policy, loopVars, portalVars, layoutVars, helperVars,
         Final, Untouched, Leftovers, Quiet, Endings, Typed, TypeOK, Phases
<1>20. CASE ClosedArrives
  BY <1>20
     DEF ClosedArrives, policy, loopVars, portalVars, layoutVars, helperVars,
         Final, Untouched, Leftovers, Quiet, Endings, Typed, TypeOK, Phases
<1>21. CASE ThirtySeconds
  BY <1>21
     DEF ThirtySeconds, policy, loopVars, portalVars, layoutVars, helperVars,
         Final, Untouched, Leftovers, Quiet, Endings, Typed, TypeOK, Phases
<1>22. ASSUME NEW helper \in 1..MaxSessions, Publishes(helper) PROVE Final'
  BY <1>22
     DEF Publishes, policy, loopVars, portalVars, layoutVars, helperVars,
         Final, Untouched, Leftovers, Quiet, Endings, Typed, TypeOK, Phases
<1>23. ASSUME NEW helper \in 1..MaxSessions, HelperExits(helper) PROVE Final'
  BY <1>23
     DEF HelperExits, policy, loopVars, portalVars, layoutVars, helperVars,
         Final, Untouched, Leftovers, Quiet, Endings, Typed, TypeOK, Phases
<1> QED BY <1>1, <1>2, <1>3, <1>4, <1>5, <1>6, <1>7, <1>8, <1>9, <1>10, 
           <1>11, <1>12, <1>13, <1>14, <1>15, <1>16, <1>17, <1>18, 
           <1>19, <1>20, <1>21, <1>22, <1>23
        DEF Next, Supervisor, World

LEMMA FinalStep ==
  ASSUME orderly, Typed, Endings, Leftovers, Final, [Next]_vars
  PROVE  Leftovers' /\ Final'
<1>1. CASE UNCHANGED vars
  BY <1>1 DEF vars, Leftovers, Final, Untouched, Quiet
<1> QED BY <1>1, LeftoversNext, FinalNext

LEMMA OnlyGranted ==
  ASSUME Typed, Final, [Next]_vars, Untouched PROVE session' = session
<1>1. ASSUME NEW issued \in Tokens \cup {NoToken}, Granted(issued) PROVE FALSE
  BY <1>1 DEF Granted, Final
<1> QED BY <1>1
        DEF Next, Supervisor, World, vars, portalVars, Untouched,
            Refused, OpenFails, Starts, StartFails, WatchStop, WatchClosed,
            WatchChange, NoChange, Tick, Teardown, Settle, Again, StopBetween,
            Stop, UserStops, MutterCloses, MutterAnnounces, LayoutChanges,
            ClosedArrives, ThirtySeconds, Publishes, HelperExits

(* A user's Stop is final: no session follows one the user stopped while   *)
(* the layout stayed what it was.                                          *)
THEOREM StopIsFinal == Spec => StopIsFinalInOrder
<1> DEFINE Inv == Typed /\ Endings /\ (orderly => Leftovers /\ Final)
<1>1. Init => Inv
  BY TypeInit
     DEF Init, Endings, OnlyUserEndsSharing, Leftovers, Quiet, Final, Untouched
<1>2. Inv /\ [Next]_vars => Inv'
  BY TypeStep, EndingsStep, FinalStep, OrderlyStep
<1>3. Inv /\ [Next]_vars => [orderly /\ sharing = "user" /\ ~changed => session' = session]_vars
  BY OnlyGranted DEF Untouched
<1> QED BY <1>1, <1>2, <1>3, PTL DEF Spec, StopIsFinalInOrder

-----------------------------------------------------------------------------
(* The restore token: whenever the configuration can be written, memory,   *)
(* file and portal agree in every phase, through refusals and recoveries.  *)

Kept == token = latest /\ disk = latest

LEMMA KeptStep ==
  ASSUME orderly, Kept, [Next]_vars PROVE Kept'
<1>2. ASSUME NEW issued \in Tokens \cup {NoToken}, Granted(issued)
      PROVE  token' = latest' /\ disk' = latest'
  BY <1>2 DEF Kept, Granted, Stored
<1>3. CASE UNCHANGED <<token, disk, latest>>
  BY <1>3 DEF Kept
<1> QED BY <1>2, <1>3
        DEF Kept, Next, Supervisor, World, vars, policy, portalVars,
            Refused, OpenFails, Starts, StartFails, WatchStop, WatchClosed,
            WatchChange, NoChange, Tick, Teardown, Settle, Again, StopBetween,
            Stop, UserStops, MutterCloses, MutterAnnounces, LayoutChanges,
            ClosedArrives, ThirtySeconds, Publishes, HelperExits

(* The token the portal returned last is in the configuration while its    *)
(* session is watched, whatever was refused before, if the file can be     *)
(* written (portal_session stores it only when it differs from the one in  *)
(* memory).                                                                *)
THEOREM TokenOnDiskCorrect == Spec => []TokenOnDisk
<1>1. Init => (orderly => Kept)
  BY DEF Init, Kept
<1>2. (orderly => Kept) /\ [Next]_vars => (orderly => Kept)'
  BY KeptStep, OrderlyStep
<1>3. (orderly => Kept) => TokenOnDisk
  BY DEF Kept, TokenOnDisk
<1> QED BY <1>1, <1>2, <1>3, PTL DEF Spec

-----------------------------------------------------------------------------
(* The retry budget.  Every failure since capture was last healthy has     *)
(* been counted, is about to be, or was covered up by a layout change the  *)
(* supervisor took instead of it.                                          *)

Watching == phase \in {"watch", "correlate", "teardown", "settle"}
Credit == layouts - changes - (IF owed THEN 1 ELSE 0)
Unsettled == IF Watching /\ exit # "none" THEN 1 ELSE 0

Nums ==
    /\ lost \in Nat /\ failures \in Nat /\ changes \in Nat /\ layouts \in Nat
    /\ Credit >= 0

Budget ==
    /\ Nums
    /\ helpers # {} => exit = "none" /\ phase \in {"watch", "correlate", "teardown"}
    /\ phase \in {"watch", "correlate"} => helpers # {} \/ exit # "none"
    /\ phase \in {"teardown", "settle"} /\ exit = "none"
          => stopping \/ portalClosed \/ reconfigure
    /\ phase \in {"watch", "correlate"} => ~reconfigure
    /\ Watching => /\ lost >= Counted + Unsettled
                   /\ IF reconfigure
                        THEN lost + 1 <= Counted + Unsettled + Credit
                        ELSE lost <= Counted + Unsettled + Credit
    /\ ~Watching /\ ~Ended => lost >= failures /\ lost <= failures + Credit
    /\ phase = "exhausted" => lost > MaxFailures
    /\ Ended => lost <= MaxFailures + 1 + Credit

LEMMA BudgetNext == ASSUME Typed, Transport, Budget, Next PROVE Budget'
<1>0. /\ failures \in Nat /\ (phase # "exhausted" => failures <= 3)
  BY DEF Typed, TypeOK, Phases, MaxFailures
<1>1. ASSUME NEW issued \in Tokens \cup {NoToken}, Granted(issued) PROVE Budget'
  BY <1>0, <1>1
     DEF Granted, Stored, policy, loopVars, portalVars, layoutVars,
         helperVars, Budget, Nums, Watching, Credit, Unsettled, Counted,
         Ended, MaxFailures
<1>2. CASE Refused
  BY <1>0, <1>2
     DEF Refused, FallsBack, policy, loopVars, portalVars, layoutVars,
         helperVars, Budget, Nums, Watching, Credit, Unsettled, Counted,
         Ended, MaxFailures
<1>3. CASE OpenFails
  <2>1. /\ phase = "refused" /\ lost' = lost + 1
        /\ UNCHANGED <<changes, layouts, owed, helpers, exit, healthy, reconfigure>>
    BY <1>3 DEF OpenFails, loopVars, layoutVars, helperVars
  <2>2. lost >= failures /\ lost <= failures + Credit /\ Nums /\ helpers = {}
    BY <2>1 DEF Budget, Watching, Ended
  <2>3. Credit' = Credit /\ Nums'
    BY <1>0, <2>1, <2>2, <1>3 DEF OpenFails, Nums, Credit
  <2>4. CASE ~initial /\ failures < MaxFailures
    <3>1. phase' = "retry" /\ failures' = failures + 1
      BY <1>3, <2>4 DEF OpenFails
    <3>2. lost' >= failures' /\ lost' <= failures' + Credit'
      BY <1>0, <2>1, <2>2, <2>3, <3>1 DEF Nums, Credit
    <3>3. ~Watching' /\ ~Ended' /\ helpers' = {}
      BY <2>1, <2>2, <3>1 DEF Watching, Ended
    <3> QED BY <2>3, <3>1, <3>2, <3>3 DEF Budget
  <2>5. CASE ~(~initial /\ failures < MaxFailures)
    <3>1. failures' = failures
          /\ \/ phase' = "denied"
             \/ phase' = "exhausted" /\ ~(failures < MaxFailures)
      BY <1>3, <2>5 DEF OpenFails
    <3>2. lost' <= MaxFailures + 1 + Credit'
          /\ (phase' = "exhausted" => lost' > MaxFailures)
      BY <1>0, <2>1, <2>2, <2>3, <3>1 DEF Nums, MaxFailures, Credit
    <3>3. ~Watching' /\ Ended' /\ helpers' = {}
      BY <2>1, <2>2, <3>1 DEF Watching, Ended
    <3> QED BY <2>3, <3>1, <3>2, <3>3 DEF Budget
  <2> QED BY <2>4, <2>5
<1>4. CASE Starts
  BY <1>0, <1>4
     DEF Starts, Removed, policy, loopVars, portalVars, layoutVars,
         helperVars, Budget, Nums, Watching, Credit, Unsettled, Counted,
         Ended, MaxFailures
<1>5. CASE StartFails
  BY <1>0, <1>5
     DEF StartFails, policy, loopVars, portalVars, layoutVars, helperVars,
         Budget, Nums, Watching, Credit, Unsettled, Counted, Ended,
         MaxFailures
<1>6. CASE WatchStop
  BY <1>0, <1>6
     DEF WatchStop, NoticesStop, policy, loopVars, portalVars, layoutVars,
         helperVars, Budget, Nums, Watching, Credit, Unsettled, Counted,
         Ended, MaxFailures
<1>7. CASE WatchClosed
  BY <1>0, <1>7
     DEF WatchClosed, policy, loopVars, portalVars, layoutVars, helperVars,
         Budget, Nums, Watching, Credit, Unsettled, Counted, Ended,
         MaxFailures
<1>8. CASE WatchChange
  BY <1>0, <1>8
     DEF WatchChange, policy, loopVars, portalVars, layoutVars, helperVars,
         Budget, Nums, Watching, Credit, Unsettled, Counted, Ended,
         MaxFailures
<1>9. CASE NoChange
  BY <1>0, <1>9
     DEF NoChange, Unmatched, policy, loopVars, portalVars, layoutVars,
         helperVars, Budget, Nums, Watching, Credit, Unsettled, Counted,
         Ended, MaxFailures
<1>10. CASE Tick
  BY <1>0, <1>10
     DEF Tick, policy, loopVars, portalVars, layoutVars, helperVars, Budget,
         Nums, Watching, Credit, Unsettled, Counted, Ended, MaxFailures
<1>11. CASE Teardown
  BY <1>0, <1>11
     DEF Teardown, Reaped, policy, loopVars, portalVars, layoutVars,
         helperVars, Budget, Nums, Watching, Credit, Unsettled, Counted,
         Ended, MaxFailures
<1>12. CASE Settle
  BY <1>0, <1>12
     DEF Settle, Verdict, Spent, Counted, policy, loopVars, portalVars,
         layoutVars, helperVars, Budget, Nums, Watching, Credit, Unsettled,
         Ended, MaxFailures
<1>13. CASE Again
  BY <1>0, <1>13
     DEF Again, FirstAttempt, policy, loopVars, portalVars, layoutVars,
         helperVars, Budget, Nums, Watching, Credit, Unsettled, Counted,
         Ended, MaxFailures
<1>14. CASE StopBetween
  BY <1>0, <1>14
     DEF StopBetween, policy, loopVars, portalVars, layoutVars, helperVars,
         Budget, Nums, Watching, Credit, Unsettled, Counted, Ended,
         MaxFailures
<1>15. CASE Stop
  BY <1>0, <1>15
     DEF Stop, Ended, policy, loopVars, portalVars, layoutVars, helperVars,
         Budget, Nums, Watching, Credit, Unsettled, Counted, MaxFailures
<1>16. CASE UserStops
  BY <1>0, <1>16
     DEF UserStops, policy, loopVars, portalVars, layoutVars, helperVars,
         Budget, Nums, Watching, Credit, Unsettled, Counted, Ended,
         MaxFailures
<1>17. CASE MutterCloses
  BY <1>0, <1>17
     DEF MutterCloses, policy, loopVars, portalVars, layoutVars, helperVars,
         Budget, Nums, Watching, Credit, Unsettled, Counted, Ended,
         MaxFailures
<1>18. CASE MutterAnnounces
  BY <1>0, <1>18
     DEF MutterAnnounces, policy, loopVars, portalVars, layoutVars,
         helperVars, Budget, Nums, Watching, Credit, Unsettled, Counted,
         Ended, MaxFailures
<1>19. CASE LayoutChanges
  BY <1>0, <1>19
     DEF LayoutChanges, policy, loopVars, portalVars, layoutVars, helperVars,
         Budget, Nums, Watching, Credit, Unsettled, Counted, Ended,
         MaxFailures
<1>20. CASE ClosedArrives
  BY <1>0, <1>20
     DEF ClosedArrives, policy, loopVars, portalVars, layoutVars, helperVars,
         Budget, Nums, Watching, Credit, Unsettled, Counted, Ended,
         MaxFailures
<1>21. CASE ThirtySeconds
  BY <1>0, <1>21
     DEF ThirtySeconds, policy, loopVars, portalVars, layoutVars, helperVars,
         Budget, Nums, Watching, Credit, Unsettled, Counted, Ended,
         MaxFailures
<1>22. ASSUME NEW helper \in 1..MaxSessions, Publishes(helper) PROVE Budget'
  BY <1>0, <1>22
     DEF Publishes, policy, loopVars, portalVars, layoutVars, helperVars,
         Budget, Nums, Watching, Credit, Unsettled, Counted, Ended,
         MaxFailures
<1>23. ASSUME NEW helper \in 1..MaxSessions, HelperExits(helper) PROVE Budget'
  <2>1. helpers' = {} /\ exit = "none" /\ phase \in {"watch", "correlate", "teardown"}
    BY <1>23 DEF HelperExits, Transport, OneHelper, Budget
  <2>2. /\ exit' # "none" /\ lost' = lost + 1
        /\ UNCHANGED <<phase, failures, changes, layouts, owed, healthy, reconfigure,
                       stopping, portalClosed>>
    BY <1>23 DEF HelperExits, policy, loopVars, portalVars, layoutVars
  <2>3. Unsettled = 0 /\ Unsettled' = 1 /\ Counted' = Counted /\ Credit' = Credit
    BY <2>1, <2>2 DEF Unsettled, Watching, Counted, Credit
  <2>4. Counted \in Nat
    BY <1>0 DEF Counted
  <2>5. Watching /\ Watching' /\ ~Ended'
    BY <2>1, <2>2 DEF Watching, Ended
  <2>6. lost \in Nat /\ Credit \in Int /\ Nums'
    BY <2>2, <2>3 DEF Budget, Nums, Credit
  <2>7. /\ lost' >= Counted' + Unsettled'
        /\ IF reconfigure'
             THEN lost' + 1 <= Counted' + Unsettled' + Credit'
             ELSE lost' <= Counted' + Unsettled' + Credit'
    BY <2>2, <2>3, <2>4, <2>5, <2>6 DEF Budget
  <2> QED BY <2>1, <2>2, <2>5, <2>6, <2>7 DEF Budget, Ended
<1> QED BY <1>1, <1>2, <1>3, <1>4, <1>5, <1>6, <1>7, <1>8, <1>9, <1>10,
           <1>11, <1>12, <1>13, <1>14, <1>15, <1>16, <1>17, <1>18, <1>19,
           <1>20, <1>21, <1>22, <1>23
        DEF Next, Supervisor, World

LEMMA BudgetStep == Typed /\ Transport /\ Budget /\ [Next]_vars => Budget'
<1>1. Budget /\ UNCHANGED vars => Budget'
  BY DEF vars, Budget, Nums, Watching, Credit, Unsettled, Counted, Ended
<1> QED BY <1>1, BudgetNext

(* Recovery gives up after more than three failures since capture was last *)
(* healthy, and no later unless a layout change covered one up.            *)
THEOREM RetryBudgetCorrect == Spec => []RetryBudget
<1>1. Init => Budget
  BY DEF Init, Budget, Nums, Watching, Credit, Unsettled, Ended
<1>2. Typed /\ Budget => RetryBudget
  BY DEF Typed, TypeOK, Phases, Budget, Nums, Watching, Credit, Unsettled,
         Counted, Ended, RetryBudget, MaxFailures
<1> QED BY <1>1, <1>2, TypeInit, TypeStep, TransportInit, TransportStep, BudgetStep, PTL DEF Spec
=============================================================================
