------------------------------- MODULE Startup -------------------------------
(* The steps of a session start that change the client's directory and the *)
(* prefix, in the order start (src/session.rs) takes them: the adapters,   *)
(* the quick-launch entries, then the quick-launch service.  An error or a *)
(* kill ends the start; a later one goes over everything again.            *)
EXTENDS AdapterDeploy, QuickLaunch

vars == <<deployVars, launchVars>>

Init == DeployInit /\ LaunchInit

(* start: one after the other.                                             *)
Adapt ==
    /\ preparing = "off" /\ (DeployBegins \/ DeployStep)
    /\ UNCHANGED launchVars

Prepare ==
    /\ deploying = "done"
    /\ Catalog \/ PrepareStep \/ Serve
    /\ UNCHANGED deployVars

(* The start ends early, or the session ends.                              *)
Ends ==
    /\ DeployEnds
    /\ PrepareInterrupted \/ LaunchEnds \/ (preparing = "off" /\ UNCHANGED launchVars)

World ==
    \/ ClientUpdates /\ preparing \in {"off", "done"} /\ UNCHANGED launchVars
    \/ (\E app \in Apps : DesktopChanges(app)) /\ UNCHANGED deployVars

Next == Adapt \/ Prepare \/ Ends \/ World

Spec == Init /\ [][Next]_vars

(* The types of both parts.                                                *)
TypeOK == DeployTypeOK /\ LaunchTypeOK
=============================================================================
