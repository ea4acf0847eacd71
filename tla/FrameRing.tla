------------------------------ MODULE FrameRing ------------------------------
(***************************************************************************)
(* The frame transport (docs/capture-protocol.md): the PipeWire helper     *)
(* (capture/uur-pw-capture.c) publishes desktop frames into a ring of      *)
(* three slots in a memory-mapped file, and the hook inside the client     *)
(* (hook/uur-hook.c) feeds them to capture calls.  There is no lock: a     *)
(* slot carries a sequence number that is odd while the slot is written.   *)
(* A new geometry gets a new file, renamed over the path; a helper that    *)
(* dies is replaced by its supervisor (src/capture.rs).                    *)
(*                                                                         *)
(* Every action makes at most one access to shared memory or to the path.  *)
(* Stores become visible in program order, as on the x86 machines the hook *)
(* and the helper are built for, and a 64-bit load is not split.           *)
(***************************************************************************)
EXTENDS Integers, FiniteSets

CONSTANTS
    Parts,      \* parts of a frame, copied one at a time in any order
    MaxTries,   \* attempts of one capture call (16 in the code)
    MaxFrame,   \* bound: frames begun in each transport file
    MaxInode    \* bound: transport files created

ASSUME RingAssumption ==
    /\ IsFiniteSet(Parts) /\ Parts # {}
    /\ MaxTries \in Nat \ {0}
    /\ MaxFrame \in [1..MaxInode -> Nat]
    /\ MaxInode \in Nat

SlotCount == 3
Slots == 0..(SlotCount - 1)
SlotOfMutant(n) == n % 2
SlotOf(n) == n % SlotCount
Inodes == 1..MaxInode

VARIABLES
    path,       \* the inode the transport path names, 0 when it is absent
    born,       \* inodes created so far
    total,      \* frame_header.total_frames of each inode
    seq, data,  \* frame_slot.seq of each slot, and the frame its parts are of
    counter,    \* capture.counter, kept for each inode: frames begun in it
    helper,     \* what the helper process is doing
    mine,       \* capture.shm: the inode the helper maps, 0 before the first
    written,    \* parts of the current frame already stored
    feed,       \* what the hook's capture call is doing
    map,        \* frame_map: the inode the hook maps, 0 for none
    want,       \* the local variable total
    tries,      \* attempts made
    snapshot,   \* frame_snapshot
    copied,     \* parts of it already loaded
    shown       \* the picture of the last capture call that was fed

pathVars == <<path, born>>
memory == <<total, seq, data>>
helperVars == <<counter, helper, mine, written>>
readVars == <<want, tries, snapshot, copied>>
vars == <<path, born, total, seq, data, counter, helper, mine, written,
          feed, map, want, tries, snapshot, copied, shown>>

Whole(n) == [p \in Parts |-> n]
NoPicture == [inode |-> 0, parts |-> Whole(0)]

Init ==
    /\ path = 0 /\ born = 0
    /\ total = [i \in Inodes |-> 0]
    /\ seq = [i \in Inodes |-> [s \in Slots |-> 0]]
    /\ data = [i \in Inodes |-> [s \in Slots |-> Whole(0)]]
    /\ counter = [i \in Inodes |-> 0]
    /\ helper = "off" /\ mine = 0 /\ written = {}
    /\ feed = "idle" /\ map = 0
    /\ want = 0 /\ tries = 0 /\ snapshot = Whole(0) /\ copied = {}
    /\ shown = NoPicture

-----------------------------------------------------------------------------
(* The helper.                                                             *)

(* The supervisor removes what a previous helper left, then starts one.    *)
Spawn ==
    /\ helper = "off"
    /\ path' = 0
    /\ helper' = "idle"
    /\ mine' = 0
    /\ UNCHANGED <<born, memory, counter, written, feed, map, readVars, shown>>

(* shm_setup, up to and including the rename: a zeroed file with a         *)
(* complete header appears under the path.                                 *)
Setup ==
    /\ helper = "idle"
    /\ born < MaxInode
    /\ born' = born + 1
    /\ path' = born + 1
    /\ IF mine = 0
         THEN mine' = born + 1 /\ helper' = "idle"
         ELSE mine' = mine /\ helper' = "retire"
    /\ UNCHANGED <<memory, counter, written, feed, map, readVars, shown>>

(* The rest of shm_setup: the previous file's count goes to zero, which    *)
(* sends its readers back to the path.                                     *)
Retire ==
    /\ helper = "retire"
    /\ total' = [total EXCEPT ![mine] = 0]
    /\ mine' = born
    /\ helper' = "idle"
    /\ UNCHANGED <<pathVars, seq, data, counter, written, feed, map, readVars, shown>>

Current == counter[mine]
CurrentSlot == SlotOf(Current)

(* publish_frame: mark the oldest slot as being written ...                *)
BeginFrameMutant ==
    /\ helper = "idle"
    /\ mine # 0
    /\ Current < MaxFrame[mine]
    /\ counter' = [counter EXCEPT ![mine] = @ + 1]
    /\ total' = [total EXCEPT ![mine] = Current + 1]
    /\ seq' = [seq EXCEPT ![mine][SlotOf(Current + 1)] = 2 * (Current + 1) - 1]
    /\ helper' = "write"
    /\ written' = {}
    /\ UNCHANGED <<pathVars, data, mine, feed, map, readVars, shown>>
BeginFrame ==
    /\ helper = "idle"
    /\ mine # 0
    /\ Current < MaxFrame[mine]
    /\ counter' = [counter EXCEPT ![mine] = @ + 1]
    /\ seq' = [seq EXCEPT ![mine][SlotOf(Current + 1)] = 2 * (Current + 1) - 1]
    /\ helper' = "write"
    /\ written' = {}
    /\ UNCHANGED <<pathVars, total, data, mine, feed, map, readVars, shown>>

(* ... store the pixels ...                                                *)
WritePart(p) ==
    /\ helper = "write"
    /\ p \notin written
    /\ data' = [data EXCEPT ![mine][CurrentSlot][p] = Current]
    /\ written' = written \cup {p}
    /\ UNCHANGED <<pathVars, total, seq, counter, helper, mine, feed, map, readVars, shown>>

(* ... mark the slot as stable ...                                         *)
EndFrame ==
    /\ helper = "write"
    /\ written = Parts
    /\ seq' = [seq EXCEPT ![mine][CurrentSlot] = 2 * Current]
    /\ helper' = "publish"
    /\ UNCHANGED <<pathVars, total, data, counter, mine, written, feed, map, readVars, shown>>

(* ... and announce it in the header.                                      *)
Publish ==
    /\ helper = "publish"
    /\ total' = [total EXCEPT ![mine] = Current]
    /\ helper' = "idle"
    /\ UNCHANGED <<pathVars, seq, data, counter, mine, written, feed, map, readVars, shown>>

(* The main loop ends: the count goes to zero, then the path is unlinked.  *)
Finish ==
    /\ helper = "idle"
    /\ total' = IF mine = 0 THEN total ELSE [total EXCEPT ![mine] = 0]
    /\ helper' = "unlink"
    /\ UNCHANGED <<pathVars, seq, data, counter, mine, written, feed, map, readVars, shown>>

Unlink ==
    /\ helper = "unlink"
    /\ path' = 0
    /\ helper' = "off"
    /\ UNCHANGED <<born, memory, counter, mine, written, feed, map, readVars, shown>>

(* The direct Wayland helper (capture/uur-wl-capture.c) publishes in the   *)
(* same way but leaves its count behind when it unlinks its file.          *)
FinishDirect ==
    /\ helper = "idle"
    /\ path' = IF path = mine THEN 0 ELSE path
    /\ helper' = "off"
    /\ UNCHANGED <<born, memory, counter, mine, written, feed, map, readVars, shown>>

(* The helper dies wherever it is, or is killed by its supervisor.         *)
Die ==
    /\ helper # "off"
    /\ helper' = "off"
    /\ UNCHANGED <<pathVars, memory, counter, mine, written, feed, map, readVars, shown>>

-----------------------------------------------------------------------------
(* The hook, under frame_lock: one capture call at a time.                 *)

Reads == UNCHANGED <<pathVars, memory, helperVars>>

(* ensure_frame_map: the map is kept for 250 ms while its count is not     *)
(* zero ...                                                                *)
KeepMap ==
    /\ feed = "idle"
    /\ map # 0
    /\ total[map] # 0
    /\ feed' = "total"
    /\ Reads /\ UNCHANGED <<map, readVars, shown>>

(* ... and otherwise the path decides ...                                  *)
OpenPath ==
    /\ feed = "idle"
    /\ path # 0
    /\ map' = path
    /\ feed' = "total"
    /\ Reads /\ UNCHANGED <<readVars, shown>>

(* ... and without a file that can be mapped the call falls back to the    *)
(* original blit.                                                          *)
OpenFails ==
    /\ feed = "idle"
    /\ map' = 0
    /\ Reads /\ UNCHANGED <<feed, readVars, shown>>

(* A count of zero, or no memory for the snapshot, ends the call as well.  *)
LoadTotal ==
    /\ feed = "total"
    /\ want' = total[map]
    /\ tries' = 0
    /\ feed' \in IF total[map] = 0 THEN {"idle"} ELSE {"idle", "try"}
    /\ Reads /\ UNCHANGED <<map, snapshot, copied, shown>>

StableMutant(i, n) == seq[i][SlotOf(n)] % 2 = 0
Stable(i, n) == seq[i][SlotOf(n)] = 2 * n

LoadSeq ==
    /\ feed = "try"
    /\ feed' = IF Stable(map, want) THEN "copy" ELSE "older"
    /\ copied' = {}
    /\ Reads /\ UNCHANGED <<map, want, tries, snapshot, shown>>

(* One more attempt, unless this was the last one.                         *)
AgainMutant ==
    /\ tries' = tries + 1
    /\ feed' = IF tries + 1 <= MaxTries THEN "try" ELSE "idle"
Again ==
    /\ tries' = tries + 1
    /\ feed' = IF tries + 1 < MaxTries THEN "try" ELSE "idle"

(* The slot holds another frame: the header's count if that is lower, the  *)
(* frame before otherwise, and none when that is zero.                     *)
OlderFrame(now) == IF now < want THEN now ELSE want - 1

Older ==
    /\ feed = "older"
    /\ want' = OlderFrame(total[map])
    /\ IF OlderFrame(total[map]) = 0
         THEN feed' = "idle" /\ UNCHANGED tries
         ELSE Again
    /\ Reads /\ UNCHANGED <<map, snapshot, copied, shown>>

CopyPart(p) ==
    /\ feed = "copy"
    /\ p \notin copied
    /\ snapshot' = [snapshot EXCEPT ![p] = data[map][SlotOf(want)][p]]
    /\ copied' = copied \cup {p}
    /\ Reads /\ UNCHANGED <<feed, map, want, tries, shown>>

AcceptsMutant == want > 0
Accepts == Stable(map, want)

(* The slot has not changed under the copy: draw it.                       *)
Draw ==
    /\ feed = "copy"
    /\ copied = Parts
    /\ Accepts
    /\ shown' = [inode |-> map, parts |-> snapshot]
    /\ feed' = "idle"
    /\ Reads /\ UNCHANGED <<map, readVars>>

(* It has, or StretchDIBits failed.                                        *)
RetryMutant ==
    /\ feed = "copy"
    /\ copied = Parts
    /\ feed' = "try"
    /\ UNCHANGED tries
    /\ Reads /\ UNCHANGED <<map, want, snapshot, copied, shown>>
Retry ==
    /\ feed = "copy"
    /\ copied = Parts
    /\ Again
    /\ Reads /\ UNCHANGED <<map, want, snapshot, copied, shown>>

-----------------------------------------------------------------------------
Publishing ==
    \/ BeginFrame \/ EndFrame \/ Publish
    \/ \E p \in Parts : WritePart(p)

Helper ==
    \/ Spawn \/ Setup \/ Retire \/ Finish \/ Unlink \/ FinishDirect \/ Die
    \/ Publishing

(* The capture call once it has begun.                                     *)
Feeding ==
    \/ LoadTotal \/ LoadSeq \/ Older \/ Draw \/ Retry
    \/ \E p \in Parts : CopyPart(p)

Hook == KeepMap \/ OpenPath \/ OpenFails \/ Feeding

Next == Helper \/ Hook

(* The thread inside the capture call is scheduled again and again; the    *)
(* helper may stop or hang anywhere.                                       *)
Fairness == WF_vars(Feeding)

Spec == Init /\ [][Next]_vars
FairSpec == Spec /\ Fairness

-----------------------------------------------------------------------------
(* Properties                                                              *)

TypeOK ==
    /\ path \in 0..MaxInode /\ born \in 0..MaxInode
    /\ total \in [Inodes -> Nat]
    /\ seq \in [Inodes -> [Slots -> Nat]]
    /\ data \in [Inodes -> [Slots -> [Parts -> Nat]]]
    /\ counter \in [Inodes -> Nat]
    /\ helper \in {"off", "idle", "retire", "write", "publish", "unlink"}
    /\ mine \in 0..MaxInode
    /\ written \subseteq Parts
    /\ feed \in {"idle", "total", "try", "older", "copy"}
    /\ map \in 0..MaxInode
    /\ want \in Nat
    /\ tries \in 0..MaxTries
    /\ snapshot \in [Parts -> Nat]
    /\ copied \subseteq Parts
    /\ shown \in [inode : 0..MaxInode, parts : [Parts -> Nat]]

(* Frames of an inode that are complete: all that were begun, or all but   *)
(* the last.                                                               *)
Completed(i) ==
    IF Stable(i, counter[i]) THEN counter[i] ELSE counter[i] - 1

(* No torn read reaches the client (docs/capture-protocol.md: "a torn read *)
(* is detected, never observed"): all parts of a picture that was drawn    *)
(* are of one frame, whatever the helper did while it was copied.          *)
NoTornFrame ==
    \A p, q \in Parts : shown.parts[p] = shown.parts[q]

(* The header never announces a frame whose slot is not complete yet: a    *)
(* capture call that trusts total_frames finds that frame, or a newer one  *)
(* that took over its slot.                                                *)
AnnouncedIsComplete ==
    \A i \in Inodes : total[i] <= Completed(i)

(* feed_capture_frame_locked looks for an older frame only when it has     *)
(* been overtaken by the whole ring: the slot it wanted then holds, or is  *)
(* receiving, a frame at least SlotCount newer.  Every frame below the one *)
(* announced is gone too, so the walk down can only end in the fallback.   *)
OvertakenByTheRing ==
    feed = "older" => counter[map] >= want + SlotCount

(* A capture call draws only frames of the file it mapped that are whole,  *)
(* among the SlotCount newest, and not older than what it drew before.     *)
Feed == INSTANCE FrameFeed WITH
            Window <- SlotCount,
            completed <- [i \in Inodes |-> Completed(i)]

ImplementsFrameFeed == Feed!FFSpec

(* A capture call always returns, so that frame_lock is released for the   *)
(* next one: the retry loop is bounded however fast the helper publishes   *)
(* and however often StretchDIBits fails.                                  *)
CaptureReturns == feed # "idle" ~> feed = "idle"
=============================================================================
