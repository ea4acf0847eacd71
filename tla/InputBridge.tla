----------------------------- MODULE InputBridge -----------------------------
(***************************************************************************)
(* The input bridge (src/bridge.rs).  Each authenticated hook connection   *)
(* has a thread of its own that reads records and injects them through one *)
(* desktop input backend.  The backend and the ownership counts sit behind *)
(* one mutex; a thread takes it for one key or button at a time, so every  *)
(* action below is one critical section.  When a connection ends its       *)
(* thread releases what the client still holds, code by code, and then     *)
(* forgets the rest: other threads run between those critical sections.    *)
(***************************************************************************)
EXTENDS Naturals, FiniteSets

CONSTANTS
    Conns,          \* connection threads (a slot is reused after a disconnect)
    Keys, Buttons,  \* the keyboard and button codes the records carry
    Lines,          \* keys and buttons of the desktop the backend can drive
    NoVk,           \* the code of a keyboard record without a virtual key
    NoLine,         \* what a code without a desktop equivalent maps to
    LineOf,         \* the backend's code table
    UnmappedFails,  \* the portal backend rejects NoLine, uinput drops it
    MayFail         \* whether the desktop may reject a call

Codes == Keys \cup Buttons

ASSUME BridgeAssumption ==
    /\ IsFiniteSet(Conns)
    /\ Keys \cap Buttons = {}
    /\ NoLine \notin Lines
    /\ LineOf \in [Codes -> Lines \cup {NoLine}]
    /\ UnmappedFails \in BOOLEAN
    /\ MayFail \in BOOLEAN

VARIABLES
    phase,      \* where the connection's thread is
    held,       \* ConnectionInput.keys and .buttons
    todo,       \* the clone that release_all still has to walk through
    owners,     \* SharedInput.keys and .buttons: how many connections hold a code
    desktop,    \* the lines the desktop considers pressed
    suspect     \* lines whose last failed backend call has not been repaired

vars == <<phase, held, todo, owners, desktop, suspect>>

Init ==
    /\ phase = [c \in Conns |-> "closed"]
    /\ held = [c \in Conns |-> {}]
    /\ todo = [c \in Conns |-> {}]
    /\ owners = [code \in Codes |-> 0]
    /\ desktop = {}
    /\ suspect = {}

-----------------------------------------------------------------------------
(* One backend call.  A call that the bridge sees fail may have reached    *)
(* the desktop all the same.                                               *)

CanSucceed(code) == LineOf[code] # NoLine \/ ~UnmappedFails
CanFail(code) == IF LineOf[code] = NoLine THEN UnmappedFails ELSE MayFail

Driven(code, isDown) ==
    IF isDown THEN desktop \cup ({LineOf[code]} \ {NoLine})
              ELSE desktop \ {LineOf[code]}

CallSucceeds(code, isDown) ==
    /\ CanSucceed(code)
    /\ desktop' = Driven(code, isDown)
    /\ suspect' = IF isDown THEN suspect ELSE suspect \ {LineOf[code]}

CallFails(code, isDown) ==
    /\ CanFail(code)
    /\ desktop' \in {desktop, Driven(code, isDown)}
    /\ suspect' = suspect \cup ({LineOf[code]} \ {NoLine})

(* pump returned: the thread clones what it holds and starts release_all.  *)
BeginReleaseMutant(c) ==
    /\ phase' = [phase EXCEPT ![c] = "releasing"]
    /\ UNCHANGED todo
BeginRelease(c) ==
    /\ phase' = [phase EXCEPT ![c] = "releasing"]
    /\ todo' = [todo EXCEPT ![c] = held[c]]

-----------------------------------------------------------------------------
(* A client connects and its HELLO and token are accepted.  A rejected     *)
(* connection leaves no trace.                                             *)
Authenticate(c) ==
    /\ phase[c] = "closed"
    /\ phase' = [phase EXCEPT ![c] = "pump"]
    /\ UNCHANGED <<held, todo, owners, desktop, suspect>>

(* pump skips keyboard records without a virtual key.                      *)
Dispatched(code) == code # NoVk

(* ConnectionInput::press, down: the backend is always called; only a code *)
(* this connection does not hold yet counts as a new owner.                *)
PressOwnersMutant(c, code) == [owners EXCEPT ![code] = @ + 1]
PressOwners(c, code) ==
    IF code \in held[c] THEN owners ELSE [owners EXCEPT ![code] = @ + 1]

Press(c, code) ==
    /\ phase[c] = "pump"
    /\ Dispatched(code)
    /\ CallSucceeds(code, TRUE)
    /\ held' = [held EXCEPT ![c] = @ \cup {code}]
    /\ owners' = PressOwners(c, code)
    /\ UNCHANGED <<phase, todo>>

PressFails(c, code) ==
    /\ phase[c] = "pump"
    /\ Dispatched(code)
    /\ CallFails(code, TRUE)
    /\ BeginRelease(c)
    /\ UNCHANGED <<held, owners>>

(* ConnectionInput::press, up.  A code the connection does not hold is     *)
(* ignored; the backend is called only for the last owner.                 *)
MayLetGoMutant(c, code) == code \in Codes
MayLetGo(c, code) == code \in held[c]
LastOwnerMutant(code) == owners[code] < 1
LastOwnerMutantTwo(code) == owners[code] <= 2
LastOwner(code) == owners[code] <= 1

LetGo(c, code) ==
    /\ MayLetGo(c, code)
    /\ IF LastOwner(code)
         THEN CallSucceeds(code, FALSE)
         ELSE UNCHANGED <<desktop, suspect>>
    /\ held' = [held EXCEPT ![c] = @ \ {code}]
    /\ owners' = [owners EXCEPT ![code] = IF LastOwner(code) THEN 0 ELSE @ - 1]

LetGoFails(c, code) ==
    /\ MayLetGo(c, code)
    /\ LastOwner(code)
    /\ CallFails(code, FALSE)
    /\ UNCHANGED <<held, owners>>

Release(c, code) ==
    /\ phase[c] = "pump"
    /\ LetGo(c, code)
    /\ UNCHANGED <<phase, todo>>

ReleaseFails(c, code) ==
    /\ phase[c] = "pump"
    /\ LetGoFails(c, code)
    /\ BeginRelease(c)

(* pump ends for any other reason: end of stream, a read error, a bad      *)
(* magic, or a motion or wheel call that the backend rejects.              *)
EndPump(c) ==
    /\ phase[c] = "pump"
    /\ BeginRelease(c)
    /\ UNCHANGED <<held, owners, desktop, suspect>>

(* release_all: keys first, then buttons; an error is remembered and the   *)
(* loop goes on.                                                           *)
NextToRelease(c, code) ==
    /\ phase[c] = "releasing"
    /\ code \in todo[c]
    /\ code \in Buttons => todo[c] \cap Keys = {}
    /\ todo' = [todo EXCEPT ![c] = @ \ {code}]
    /\ UNCHANGED phase

ReleaseHeld(c, code) == NextToRelease(c, code) /\ LetGo(c, code)

ReleaseHeldFailsMutant(c, code) ==
    /\ phase[c] = "releasing"
    /\ code \in todo[c]
    /\ LetGoFails(c, code)
    /\ UNCHANGED <<phase, todo>>
ReleaseHeldFails(c, code) == NextToRelease(c, code) /\ LetGoFails(c, code)

(* The end of release_all: whatever could not be released is disowned      *)
(* under one lock, without another call to the backend.                    *)
DisownedMutant(c) == [code \in Codes |-> owners[code] - 1]
Disowned(c) ==
    [code \in Codes |-> IF code \in held[c] /\ owners[code] > 0
                          THEN owners[code] - 1 ELSE owners[code]]

DisownMutant(c) ==
    /\ phase[c] = "releasing"
    /\ todo[c] = {}
    /\ phase' = [phase EXCEPT ![c] = "closed"]
    /\ UNCHANGED <<held, owners, todo, desktop, suspect>>
Disown(c) ==
    /\ phase[c] = "releasing"
    /\ todo[c] = {}
    /\ owners' = Disowned(c)
    /\ held' = [held EXCEPT ![c] = {}]
    /\ phase' = [phase EXCEPT ![c] = "closed"]
    /\ UNCHANGED <<todo, desktop, suspect>>

-----------------------------------------------------------------------------
Pumping(c, code) ==
    \/ Press(c, code)
    \/ PressFails(c, code)
    \/ Release(c, code)
    \/ ReleaseFails(c, code)

ReleaseStep(c, code) == ReleaseHeld(c, code) \/ ReleaseHeldFails(c, code)

Next ==
    \E c \in Conns :
        \/ Authenticate(c)
        \/ EndPump(c)
        \/ Disown(c)
        \/ \E code \in Codes : Pumping(c, code) \/ ReleaseStep(c, code)

(* A thread in release_all waits for nobody but the mutex: it keeps going. *)
Fairness ==
    \A c \in Conns :
        /\ WF_vars(\E code \in Codes : ReleaseStep(c, code))
        /\ WF_vars(Disown(c))

Spec == Init /\ [][Next]_vars

FairSpec == Spec /\ Fairness

-----------------------------------------------------------------------------
TypeOK ==
    /\ phase \in [Conns -> {"closed", "pump", "releasing"}]
    /\ held \in [Conns -> SUBSET Codes]
    /\ todo \in [Conns -> SUBSET Codes]
    /\ owners \in [Codes -> Nat]
    /\ desktop \subseteq Lines
    /\ suspect \subseteq Lines

HoldersOf(code) == {c \in Conns : code \in held[c]}

(* The shared count of a code is the number of connections that hold it,   *)
(* through every interleaving of presses, releases, failures and the       *)
(* two-part release_all (bridge.rs press and release_all).                 *)
OwnersMatchHeld == \A code \in Codes : owners[code] = Cardinality(HoldersOf(code))

(* While a live connection holds a code, its desktop key is down: no other *)
(* connection's release, disconnect or failed call lifts it.               *)
HeldKeysAreDown ==
    \A c \in Conns : phase[c] = "pump" =>
        \A code \in held[c] : LineOf[code] # NoLine => LineOf[code] \in desktop

(* Releasing what a departed client held never lifts a key that a live     *)
(* connection holds (the bridge's own test is called                       *)
(* disconnect_preserves_keys_and_buttons_held_by_another_connection).      *)
DisconnectPreservesOthersKeys ==
    [][\A c, d \in Conns :
         (\E code \in Codes : ReleaseHeld(c, code)) /\ phase[d] = "pump"
           => \A code \in held[d] : LineOf[code] \in desktop => LineOf[code] \in desktop']_vars

(* A desktop key that nobody holds is down only if a backend call about it *)
(* failed and no release of it has succeeded since.                        *)
UnheldKeysAreUp ==
    \A l \in desktop \ suspect :
        \E c \in Conns : \E code \in held[c] : LineOf[code] = l

(* A closed connection owns nothing (release_all: "A disconnected client   *)
(* must not retain ownership if a release fails"), and a release in        *)
(* progress walks only through codes that are still held.                  *)
ClosedOwnsNothing ==
    \A c \in Conns : /\ phase[c] = "closed" => held[c] = {}
                     /\ todo[c] \subseteq held[c]
                     /\ phase[c] # "releasing" => todo[c] = {}

(* What release_all has walked past and still holds, it holds because the  *)
(* backend rejected the release: nothing is skipped.                       *)
UnreleasedIsSuspect ==
    \A c \in Conns : phase[c] = "releasing" =>
        \A code \in held[c] \ todo[c] : LineOf[code] \in suspect \cup {NoLine}

(* Two codes never drive the same desktop key ...                          *)
NoAliases ==
    \A a, b \in Codes : LineOf[a] = LineOf[b] /\ LineOf[a] # NoLine => a = b

(* ... or, since the real tables have such codes, no two of them are held  *)
(* at the same time.                                                       *)
OneCodeHeld(l) ==
    \A c, d \in Conns : \A a \in held[c], b \in held[d] :
        LineOf[a] = l /\ LineOf[b] = l => a = b
NoAliasesHeld == \A l \in Lines : OneCodeHeld(l)

(* A thread that entered release_all gives everything up and closes, even  *)
(* if every release is rejected.                                           *)
DisconnectCompletes ==
    \A c \in Conns : phase[c] = "releasing" ~> phase[c] = "closed"

-----------------------------------------------------------------------------
(* The bridge implements the shared keyboard.                              *)
LineHolders == [l \in Lines |-> {c \in Conns : \E code \in held[c] : LineOf[code] = l}]

Keyboard == INSTANCE SharedKeyboard
    WITH Clients <- Conns, holders <- LineHolders, down <- desktop

(* Every step of the bridge is a step of the shared keyboard or changes    *)
(* nothing a client can see.                                               *)
ImplementsSharedKeyboard == Keyboard!SKSpec
=============================================================================
