------------------------------- MODULE KeyMap -------------------------------
(***************************************************************************)
(* The code tables of the input backends.  A code is what a wire record    *)
(* carries: a keyboard code is the Windows virtual key, plus 256 when      *)
(* SendInput was called with KEYEVENTF_EXTENDEDKEY; a button code is the   *)
(* button number.  An evdev code is named by the virtual key that has no   *)
(* other meaning (160 for KEY_LEFTSHIFT), and KEY_KPENTER by 269.          *)
(***************************************************************************)
LOCAL INSTANCE Naturals

NO_EVDEV == <<"none", 0>>

\* The virtual keys of vk_to_linux_key that have an entry of their own.
OwnKey ==
    {8, 9, 13, 19, 20, 27} \cup (32..40) \cup {45, 46} \cup (48..57) \cup (65..92)
    \cup (96..107) \cup (109..123) \cup (186..192) \cup (219..222) \cup (160..165)

vk_to_linux_key(vkey) ==
    LET base == vkey % 256
        extended == (vkey \div 256) % 2 = 1
    IN  CASE base = 13 /\ extended -> <<"key", 269>>
          [] base = 16 -> <<"key", 160>>
          [] base \in {17, 162} -> <<"key", IF extended THEN 163 ELSE 162>>
          [] base \in {18, 164} -> <<"key", IF extended THEN 165 ELSE 164>>
          [] base \in OwnKey /\ ~(base = 13 /\ extended) /\ base \notin {162, 164}
               -> <<"key", base>>
          [] OTHER -> NO_EVDEV

evdev_button(button) ==
    IF button \in {1, 2, 3, 8, 9} THEN <<"button", button>> ELSE NO_EVDEV

evdev(code) ==
    IF code[1] = "key" THEN vk_to_linux_key(code[2]) ELSE evdev_button(code[2])

(* hook_send_input builds the code of a keyboard record from wVk and the   *)
(* extended flag; a scan-code event carries wVk = 0.                       *)
record_code(wVk, extended) == <<"key", IF extended THEN wVk + 256 ELSE wVk>>

VK_A == record_code(65, FALSE)
VK_SHIFT == record_code(16, FALSE)
VK_LSHIFT == record_code(160, FALSE)
SCANCODE == record_code(0, FALSE)
EXTENDED_SCANCODE == record_code(0, TRUE)
=============================================================================
