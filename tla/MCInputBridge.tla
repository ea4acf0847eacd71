--------------------------- MODULE MCInputBridge ---------------------------
(* Instances of InputBridge for TLC.                                       *)
EXTENDS InputBridge, KeyMap, TLC

CONSTANTS c1, c2

\* Two keys and one pointer button, no two codes for the same key of the
\* desktop; an extended scan-code event maps to none, and is rejected.
MCKeys == {VK_A, VK_LSHIFT, EXTENDED_SCANCODE}
OneButton == {<<"button", 1>>}

\* VK_SHIFT and VK_LSHIFT are two codes for one key of the desktop.
ShiftKeys == {VK_SHIFT, VK_LSHIFT}

MCLines == {evdev(code) : code \in Codes} \ {NO_EVDEV}
MCLineOf == [code \in Codes |-> evdev(code)]
=============================================================================
