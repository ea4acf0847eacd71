------------------------------ MODULE MCSession ------------------------------
(* Instances of Session for TLC.                                          *)
EXTENDS Session

\* A spare helper, one that is waited for and whose output the session
\* needs, and the monitor that is a Wine process.
MCStartup == <<"__tray", "__capture", "winlogon">>

\* With a helper that is waited for alone.
MCFullStartup == <<"__tray", "__bridge", "__capture", "winlogon">>
=============================================================================
