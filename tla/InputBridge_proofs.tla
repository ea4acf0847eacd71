------------------------- MODULE InputBridge_proofs -------------------------
(* Theorems about the input bridge, for any connections, codes and tables. *)
EXTENDS InputBridge, FiniteSetTheorems, TLAPS

LEMMA TypeInit == Init => TypeOK
  BY BridgeAssumption DEF Init, TypeOK, Codes

(* The two ways a backend call ends keep the desktop within its lines.     *)
LEMMA CallTypes ==
  ASSUME TypeOK, NEW code \in Codes, NEW isDown \in BOOLEAN,
         CallSucceeds(code, isDown) \/ CallFails(code, isDown)
  PROVE  desktop' \subseteq Lines /\ suspect' \subseteq Lines
  BY BridgeAssumption DEF CallSucceeds, CallFails, Driven, TypeOK

LEMMA LetGoTypes ==
  ASSUME TypeOK, NEW c \in Conns, NEW code \in Codes,
         LetGo(c, code) \/ LetGoFails(c, code)
  PROVE  /\ held' \in [Conns -> SUBSET Codes]
         /\ owners' \in [Codes -> Nat]
         /\ desktop' \subseteq Lines
         /\ suspect' \subseteq Lines
<1>1. CASE LetGo(c, code)
  <2>1. desktop' \subseteq Lines /\ suspect' \subseteq Lines
    BY <1>1, CallTypes DEF LetGo, TypeOK
  <2>2. held' \in [Conns -> SUBSET Codes] /\ owners' \in [Codes -> Nat]
    BY <1>1 DEF LetGo, TypeOK, LastOwner
  <2> QED BY <2>1, <2>2
<1>2. CASE LetGoFails(c, code)
  BY <1>2, CallTypes DEF LetGoFails, TypeOK
<1> QED BY <1>1, <1>2

LEMMA TypeStep == TypeOK /\ [Next]_vars => TypeOK'
<1> SUFFICES ASSUME TypeOK, [Next]_vars PROVE TypeOK'
  OBVIOUS
<1>1. CASE UNCHANGED vars
  BY <1>1 DEF TypeOK, vars
<1>2. ASSUME NEW c \in Conns, Authenticate(c) PROVE TypeOK'
  BY <1>2 DEF Authenticate, TypeOK
<1>3. ASSUME NEW c \in Conns, EndPump(c) PROVE TypeOK'
  BY <1>3 DEF EndPump, BeginRelease, TypeOK
<1>4. ASSUME NEW c \in Conns, Disown(c) PROVE TypeOK'
  <2>1. owners' \in [Codes -> Nat]
    BY <1>4 DEF Disown, Disowned, TypeOK
  <2> QED BY <1>4, <2>1 DEF Disown, TypeOK
<1>5. ASSUME NEW c \in Conns, NEW code \in Codes, Pumping(c, code) PROVE TypeOK'
  <2>1. CASE Press(c, code)
    <3>1. desktop' \subseteq Lines /\ suspect' \subseteq Lines
      BY <2>1, CallTypes DEF Press
    <3>2. owners' \in [Codes -> Nat]
      BY <2>1 DEF Press, PressOwners, TypeOK
    <3> QED BY <2>1, <3>1, <3>2 DEF Press, TypeOK
  <2>2. CASE PressFails(c, code)
    BY <2>2, CallTypes DEF PressFails, BeginRelease, TypeOK
  <2>3. CASE Release(c, code)
    BY <2>3, LetGoTypes DEF Release, TypeOK
  <2>4. CASE ReleaseFails(c, code)
    BY <2>4, LetGoTypes DEF ReleaseFails, BeginRelease, TypeOK
  <2> QED BY <1>5, <2>1, <2>2, <2>3, <2>4 DEF Pumping
<1>6. ASSUME NEW c \in Conns, NEW code \in Codes, ReleaseStep(c, code) PROVE TypeOK'
  BY <1>6, LetGoTypes DEF ReleaseStep, ReleaseHeld, ReleaseHeldFails, NextToRelease, TypeOK
<1> QED BY <1>1, <1>2, <1>3, <1>4, <1>5, <1>6 DEF Next

(* The variables keep their types: counts never go below zero although     *)
(* release_all subtracts from them without looking.                        *)
THEOREM TypeCorrect == Spec => []TypeOK
  BY TypeInit, TypeStep, PTL DEF Spec

-----------------------------------------------------------------------------
(* Counting holders.                                                       *)

LEMMA HoldersFinite ==
  ASSUME NEW code
  PROVE  /\ IsFiniteSet(HoldersOf(code))
         /\ Cardinality(HoldersOf(code)) \in Nat
<1>1. HoldersOf(code) \in SUBSET Conns
  BY DEF HoldersOf
<1>2. IsFiniteSet(HoldersOf(code))
  BY <1>1, BridgeAssumption, FS_Subset
<1> QED BY <1>2, FS_CardinalityType

LEMMA CountTake ==
  ASSUME TypeOK, OwnersMatchHeld, NEW c \in Conns, NEW code \in Codes,
         held' = [held EXCEPT ![c] = @ \cup {code}],
         owners' = PressOwners(c, code)
  PROVE  OwnersMatchHeld'
<1> SUFFICES ASSUME NEW other \in Codes
             PROVE  owners'[other] = Cardinality(HoldersOf(other)')
  BY DEF OwnersMatchHeld
<1>1. owners[other] = Cardinality(HoldersOf(other)) /\ owners \in [Codes -> Nat]
  BY DEF OwnersMatchHeld, TypeOK
<1>2. CASE other # code
  <2>1. HoldersOf(other)' = HoldersOf(other)
    BY <1>2 DEF HoldersOf, TypeOK
  <2>2. owners'[other] = owners[other]
    BY <1>2, <1>1 DEF PressOwners
  <2> QED BY <2>1, <2>2, <1>1
<1>3. CASE other = code
  <2>1. HoldersOf(code)' = HoldersOf(code) \cup {c}
    BY DEF HoldersOf, TypeOK
  <2>2. Cardinality(HoldersOf(code)') =
          IF c \in HoldersOf(code) THEN Cardinality(HoldersOf(code))
                                   ELSE Cardinality(HoldersOf(code)) + 1
    BY <2>1, HoldersFinite, FS_AddElement
  <2>3. c \in HoldersOf(code) <=> code \in held[c]
    BY DEF HoldersOf
  <2>4. owners'[code] = IF code \in held[c] THEN owners[code] ELSE owners[code] + 1
    BY <1>1 DEF PressOwners
  <2> QED BY <2>2, <2>3, <2>4, <1>1, <1>3
<1> QED BY <1>2, <1>3

LEMMA CountDrop ==
  ASSUME TypeOK, OwnersMatchHeld, NEW c \in Conns, NEW code \in held[c],
         held' = [held EXCEPT ![c] = @ \ {code}],
         owners' = [owners EXCEPT ![code] = IF LastOwner(code) THEN 0 ELSE @ - 1]
  PROVE  OwnersMatchHeld'
<1> SUFFICES ASSUME NEW other \in Codes
             PROVE  owners'[other] = Cardinality(HoldersOf(other)')
  BY DEF OwnersMatchHeld
<1>0. code \in Codes
  BY DEF TypeOK
<1>1. owners[other] = Cardinality(HoldersOf(other)) /\ owners \in [Codes -> Nat]
  BY DEF OwnersMatchHeld, TypeOK
<1>2. CASE other # code
  <2>1. HoldersOf(other)' = HoldersOf(other)
    BY <1>2 DEF HoldersOf, TypeOK
  <2>2. owners'[other] = owners[other]
    BY <1>2, <1>1
  <2> QED BY <2>1, <2>2, <1>1
<1>3. CASE other = code
  <2>1. HoldersOf(code)' = HoldersOf(code) \ {c} /\ c \in HoldersOf(code)
    BY DEF HoldersOf, TypeOK
  <2>2. Cardinality(HoldersOf(code)') = Cardinality(HoldersOf(code)) - 1
    BY <2>1, HoldersFinite, FS_RemoveElement
  <2>3. Cardinality(HoldersOf(code)) \in Nat /\ Cardinality(HoldersOf(code)) # 0
    BY <2>1, HoldersFinite, FS_EmptySet
  <2>4. owners'[code] = IF owners[code] <= 1 THEN 0 ELSE owners[code] - 1
    BY <1>0, <1>1 DEF LastOwner
  <2> QED BY <2>2, <2>3, <2>4, <1>1, <1>3
<1> QED BY <1>2, <1>3

LEMMA CountDisown ==
  ASSUME TypeOK, OwnersMatchHeld, NEW c \in Conns,
         held' = [held EXCEPT ![c] = {}], owners' = Disowned(c)
  PROVE  OwnersMatchHeld'
<1> SUFFICES ASSUME NEW code \in Codes
             PROVE  owners'[code] = Cardinality(HoldersOf(code)')
  BY DEF OwnersMatchHeld
<1>1. owners[code] = Cardinality(HoldersOf(code)) /\ owners \in [Codes -> Nat]
  BY DEF OwnersMatchHeld, TypeOK
<1>2. HoldersOf(code)' = HoldersOf(code) \ {c}
  BY DEF HoldersOf, TypeOK
<1>3. Cardinality(HoldersOf(code)') =
        IF c \in HoldersOf(code) THEN Cardinality(HoldersOf(code)) - 1
                                 ELSE Cardinality(HoldersOf(code))
  BY <1>2, HoldersFinite, FS_RemoveElement
<1>4. c \in HoldersOf(code) <=> code \in held[c]
  BY DEF HoldersOf
<1>5. code \in held[c] => owners[code] > 0
  BY <1>1, <1>4, HoldersFinite, FS_EmptySet
<1>6. owners'[code] = IF code \in held[c] /\ owners[code] > 0
                        THEN owners[code] - 1 ELSE owners[code]
  BY DEF Disowned
<1> QED BY <1>1, <1>3, <1>4, <1>5, <1>6

(* An owner whose code is counted once is its only holder.                 *)
LEMMA SoleHolder ==
  ASSUME TypeOK, OwnersMatchHeld, NEW c \in Conns, NEW code \in held[c],
         LastOwner(code)
  PROVE  HoldersOf(code) = {c}
<1>1. code \in Codes /\ c \in HoldersOf(code)
  BY DEF TypeOK, HoldersOf
<1>2. Cardinality(HoldersOf(code)) <= 1
  BY <1>1 DEF OwnersMatchHeld, LastOwner
<1>3. Cardinality(HoldersOf(code)) = 1
  BY <1>1, <1>2, HoldersFinite, FS_EmptySet
<1>4. \E x : HoldersOf(code) = {x}
  BY <1>3, HoldersFinite, FS_Singleton
<1> QED BY <1>1, <1>4

LEMMA OtherHolders ==
  ASSUME TypeOK, OwnersMatchHeld, NEW c \in Conns, NEW code \in held[c],
         ~LastOwner(code)
  PROVE  \E d \in Conns \ {c} : code \in held[d]
<1>1. code \in Codes /\ c \in HoldersOf(code)
  BY DEF TypeOK, HoldersOf
<1>2. Cardinality(HoldersOf(code)) # 1
  BY <1>1 DEF OwnersMatchHeld, LastOwner, TypeOK
<1>3. HoldersOf(code) # {c}
  BY <1>2, FS_Singleton
<1> QED BY <1>1, <1>3 DEF HoldersOf

-----------------------------------------------------------------------------
(* Ownership: neither part needs the code table.                           *)

CountInv == TypeOK /\ ClosedOwnsNothing /\ OwnersMatchHeld

LEMMA CountInit == Init => CountInv
<1> SUFFICES ASSUME Init PROVE CountInv
  OBVIOUS
<1>1. ASSUME NEW code \in Codes PROVE owners[code] = Cardinality(HoldersOf(code))
  <2>1. HoldersOf(code) = {}
    BY DEF Init, HoldersOf
  <2> QED BY <2>1, FS_EmptySet DEF Init
<1> QED BY <1>1, TypeInit DEF CountInv, OwnersMatchHeld, ClosedOwnsNothing, Init

LEMMA CountStep == CountInv /\ [Next]_vars => CountInv'
<1> SUFFICES ASSUME CountInv, [Next]_vars PROVE CountInv'
  OBVIOUS
<1> USE DEF CountInv
<1>0. TypeOK'
  BY TypeStep
<1>1. ClosedOwnsNothing'
  <2>1. CASE UNCHANGED vars
    BY <2>1 DEF vars, ClosedOwnsNothing
  <2>2. ASSUME NEW c \in Conns, Authenticate(c) \/ EndPump(c) \/ Disown(c)
        PROVE  ClosedOwnsNothing'
    BY <2>2 DEF Authenticate, EndPump, BeginRelease, Disown, ClosedOwnsNothing, TypeOK
  <2>3. ASSUME NEW c \in Conns, NEW code \in Codes, Pumping(c, code)
        PROVE  ClosedOwnsNothing'
    BY <2>3, ZenonT(30) DEF Pumping, Press, PressFails, Release, ReleaseFails, LetGo, LetGoFails,
                BeginRelease, ClosedOwnsNothing, TypeOK
  <2>4. ASSUME NEW c \in Conns, NEW code \in Codes, ReleaseStep(c, code)
        PROVE  ClosedOwnsNothing'
    <3>1. /\ phase' = phase /\ phase[c] = "releasing"
          /\ todo' = [todo EXCEPT ![c] = @ \ {code}]
      BY <2>4 DEF ReleaseStep, ReleaseHeld, ReleaseHeldFails, NextToRelease
    <3>2. held' = held \/ held' = [held EXCEPT ![c] = @ \ {code}]
      BY <2>4 DEF ReleaseStep, ReleaseHeld, ReleaseHeldFails, LetGo, LetGoFails
    <3> QED BY <3>1, <3>2 DEF ClosedOwnsNothing, TypeOK
  <2> QED BY <2>1, <2>2, <2>3, <2>4 DEF Next
<1>2. OwnersMatchHeld'
  <2>1. CASE UNCHANGED <<held, owners>>
    BY <2>1 DEF OwnersMatchHeld, HoldersOf
  <2>2. ASSUME NEW c \in Conns, NEW code \in Codes, Press(c, code)
        PROVE  OwnersMatchHeld'
    BY <2>2, CountTake DEF Press
  <2>3. ASSUME NEW c \in Conns, NEW code \in Codes, LetGo(c, code)
        PROVE  OwnersMatchHeld'
    BY <2>3, CountDrop DEF LetGo, MayLetGo
  <2>4. ASSUME NEW c \in Conns, Disown(c)
        PROVE  OwnersMatchHeld'
    BY <2>4, CountDisown DEF Disown
  <2> QED BY <2>1, <2>2, <2>3, <2>4 DEF Next, vars, Authenticate, EndPump, Pumping,
             PressFails, Release, ReleaseFails, ReleaseStep, ReleaseHeld,
             ReleaseHeldFails, LetGoFails
<1> QED BY <1>0, <1>1, <1>2

LEMMA CountAlways == Spec => []CountInv
  BY CountInit, CountStep, PTL DEF Spec

(* The ownership counts are exact for any number of connections and codes, *)
(* whatever the backend rejects.                                           *)
THEOREM OwnersCorrect == Spec => []OwnersMatchHeld
<1>1. CountInv => OwnersMatchHeld
  BY DEF CountInv
<1> QED BY <1>1, CountAlways, PTL

(* A connection that is gone owns nothing.                                 *)
THEOREM ClosedCorrect == Spec => []ClosedOwnsNothing
<1>1. CountInv => ClosedOwnsNothing
  BY DEF CountInv
<1> QED BY <1>1, CountAlways, PTL

-----------------------------------------------------------------------------
(* The bound of release_all: one critical section for each code of the     *)
(* clone and one to disown the rest.                                       *)

SectionsLeft(c) == Cardinality(todo[c]) + 1

FinitelyHeld == \A c \in Conns : IsFiniteSet(held[c])

Acts(c) ==
    \/ Authenticate(c) \/ EndPump(c) \/ Disown(c)
    \/ \E code \in Codes : Pumping(c, code) \/ ReleaseStep(c, code)

(* A step of the thread itself uses a section up; a step of another thread *)
(* leaves it where it is.                                                  *)
GetsOn(c) ==
    IF Acts(c)
      THEN \/ phase'[c] = "closed" /\ SectionsLeft(c) = 1
           \/ phase'[c] = "releasing" /\ SectionsLeft(c)' = SectionsLeft(c) - 1
      ELSE phase'[c] = "releasing" /\ SectionsLeft(c)' = SectionsLeft(c)

SectionsDecrease == \A c \in Conns : phase[c] = "releasing" => GetsOn(c)

(* A client presses one code at a time.                                    *)
LEMMA FinitelyHeldStep ==
  ASSUME TypeOK, FinitelyHeld, [Next]_vars PROVE FinitelyHeld'
<1> SUFFICES ASSUME NEW d \in Conns PROVE IsFiniteSet(held'[d])
  BY DEF FinitelyHeld
<1>1. IsFiniteSet(held[d])
  BY DEF FinitelyHeld
<1>2. CASE held' = held
  BY <1>1, <1>2
<1>3. ASSUME NEW c \in Conns, NEW code \in Codes, held' = [held EXCEPT ![c] = @ \cup {code}]
      PROVE  IsFiniteSet(held'[d])
  <2>1. held'[d] = held[d] \/ held'[d] = held[d] \cup {code}
    BY <1>3 DEF TypeOK
  <2> QED BY <1>1, <2>1, FS_AddElement
<1>4. ASSUME NEW c \in Conns, NEW code \in Codes, LetGo(c, code)
      PROVE  IsFiniteSet(held'[d])
  <2>1. held'[d] \subseteq held[d]
    BY <1>4 DEF LetGo, TypeOK
  <2> QED BY <1>1, <2>1, FS_Subset
<1>5. ASSUME NEW c \in Conns, Disown(c) PROVE IsFiniteSet(held'[d])
  <2>1. held'[d] \subseteq held[d]
    BY <1>5 DEF Disown, TypeOK
  <2> QED BY <1>1, <2>1, FS_Subset
<1> QED
  BY <1>2, <1>3, <1>4, <1>5
     DEF Next, vars, Authenticate, EndPump, Pumping, Press, PressFails, Release,
         ReleaseFails, ReleaseStep, ReleaseHeld, ReleaseHeldFails, LetGoFails

LEMMA SectionsStep ==
  ASSUME CountInv, FinitelyHeld, [Next]_vars PROVE [SectionsDecrease]_vars
<1> USE DEF CountInv
<1> SUFFICES ASSUME Next, NEW c \in Conns, phase[c] = "releasing" PROVE GetsOn(c)
  BY DEF SectionsDecrease
<1>1. PICK d \in Conns : Acts(d)
  BY DEF Next, Acts
<1>2. CASE ~Acts(c)
  <2>1. phase'[c] = phase[c] /\ todo'[c] = todo[c]
    BY <1>1, <1>2, ZenonT(30)
       DEF Acts, Authenticate, EndPump, BeginRelease, Disown, Pumping, Press, PressFails,
           Release, ReleaseFails, ReleaseStep, ReleaseHeld, ReleaseHeldFails,
           NextToRelease, TypeOK
  <2> QED BY <1>2, <2>1 DEF SectionsLeft, GetsOn
<1>3. CASE Acts(c)
  <2>1. IsFiniteSet(todo[c])
    BY FS_Subset DEF FinitelyHeld, ClosedOwnsNothing
  <2>2. ASSUME Disown(c) PROVE phase'[c] = "closed" /\ SectionsLeft(c) = 1
    <3>1. todo[c] = {} /\ phase'[c] = "closed"
      BY <2>2 DEF Disown, TypeOK
    <3> QED BY <3>1, FS_EmptySet DEF SectionsLeft
  <2>3. ASSUME NEW code \in Codes, ReleaseStep(c, code)
        PROVE  phase'[c] = "releasing" /\ SectionsLeft(c)' = SectionsLeft(c) - 1
    <3>1. code \in todo[c] /\ todo'[c] = todo[c] \ {code} /\ phase'[c] = "releasing"
      BY <2>3 DEF ReleaseStep, ReleaseHeld, ReleaseHeldFails, NextToRelease, TypeOK
    <3>2. Cardinality(todo'[c]) = Cardinality(todo[c]) - 1
          /\ Cardinality(todo[c]) \in Nat
      BY <2>1, <3>1, FS_RemoveElement, FS_CardinalityType
    <3> QED BY <3>1, <3>2 DEF SectionsLeft
  <2>4. Disown(c) \/ \E code \in Codes : ReleaseStep(c, code)
    BY <1>3 DEF Acts, Authenticate, EndPump, Pumping, Press, PressFails, Release, ReleaseFails
  <2> QED BY <1>3, <2>2, <2>3, <2>4 DEF GetsOn
<1> QED BY <1>2, <1>3

(* release_all is bounded: each of its critical sections brings it closer  *)
(* to the end, whether the backend takes the call or rejects it, and       *)
(* nothing another connection does takes it further away.                  *)
(* DisconnectCompletes follows, since the thread waits only for the mutex. *)
THEOREM ReleaseIsBounded == Spec => [][SectionsDecrease]_vars
<1>1. Init => FinitelyHeld
  BY FS_EmptySet DEF Init, FinitelyHeld
<1>2. CountInv /\ FinitelyHeld /\ [Next]_vars => FinitelyHeld'
  BY FinitelyHeldStep DEF CountInv
<1> QED BY <1>1, <1>2, CountAlways, SectionsStep, PTL DEF Spec

-----------------------------------------------------------------------------
(* Desktop keys, one line at a time.  What is promised about a line holds  *)
(* as long as no two codes that drive it are held at the same time; other  *)
(* lines do not matter.                                                    *)

HeldDown(l) ==
    \A c \in Conns : phase[c] = "pump" =>
        \A code \in held[c] : LineOf[code] = l => l \in desktop
Unreleased(l) ==
    \A c \in Conns : phase[c] = "releasing" =>
        \A code \in held[c] \ todo[c] : LineOf[code] = l => l \in suspect
Unheld(l) ==
    l \in desktop \ suspect => \E c \in Conns : \E code \in held[c] : LineOf[code] = l

LineInv(l) == HeldDown(l) /\ Unreleased(l) /\ Unheld(l)

(* The last owner of a code is alone on its desktop key.                   *)
LEMMA AloneOnLine ==
  ASSUME NEW l, OneCodeHeld(l), TypeOK, OwnersMatchHeld,
         NEW c \in Conns, NEW code \in held[c], LastOwner(code), LineOf[code] = l,
         NEW d \in Conns, NEW k \in held[d], LineOf[k] = l
  PROVE  d = c /\ k = code
<1>1. k = code
  BY DEF OneCodeHeld
<1>2. d \in HoldersOf(code)
  BY <1>1 DEF HoldersOf
<1> QED BY <1>1, <1>2, SoleHolder

LEMMA HeldStep ==
  ASSUME NEW l \in Lines, CountInv, LineInv(l), OneCodeHeld(l), [Next]_vars
  PROVE  HeldDown(l)'
<1> USE DEF LineInv, CountInv
<1> SUFFICES ASSUME NEW d \in Conns, phase'[d] = "pump",
                    NEW k \in held'[d], LineOf[k] = l
             PROVE  l \in desktop'
  BY DEF HeldDown
<1>1. CASE UNCHANGED vars
  BY <1>1 DEF vars, HeldDown
<1>2. ASSUME NEW c \in Conns, Authenticate(c) \/ EndPump(c) \/ Disown(c)
      PROVE  l \in desktop'
  <2>1. d = c => Authenticate(c) /\ held'[d] = {}
    BY <1>2 DEF Authenticate, EndPump, BeginRelease, Disown, ClosedOwnsNothing, TypeOK
  <2>2. d # c => phase[d] = "pump" /\ k \in held[d]
    BY <1>2 DEF Authenticate, EndPump, BeginRelease, Disown, TypeOK
  <2>3. desktop' = desktop
    BY <1>2 DEF Authenticate, EndPump, Disown
  <2> QED BY <2>1, <2>2, <2>3 DEF HeldDown
<1>3. ASSUME NEW c \in Conns, NEW code \in Codes, Press(c, code)
      PROVE  l \in desktop'
  <2>1. desktop' = desktop \cup ({LineOf[code]} \ {NoLine}) /\ phase' = phase
    BY <1>3 DEF Press, CallSucceeds, Driven
  <2>2. k \in held[d] \/ k = code
    BY <1>3 DEF Press, TypeOK
  <2> QED BY <2>1, <2>2, BridgeAssumption DEF HeldDown
<1>4. ASSUME NEW c \in Conns, NEW code \in Codes, PressFails(c, code)
      PROVE  l \in desktop'
  <2>1. desktop \subseteq desktop' /\ held' = held
    BY <1>4 DEF PressFails, CallFails, Driven
  <2>2. phase[d] = "pump"
    BY <1>4 DEF PressFails, BeginRelease, TypeOK
  <2> QED BY <2>1, <2>2 DEF HeldDown
<1>5. ASSUME NEW c \in Conns, NEW code \in Codes, LetGo(c, code), phase' = phase
      PROVE  l \in desktop'
  <2>1. k \in held[d] /\ ~(d = c /\ k = code) /\ code \in held[c]
    BY <1>5 DEF LetGo, MayLetGo, TypeOK
  <2>2. l \in desktop
    BY <2>1, <1>5 DEF HeldDown
  <2>3. CASE LastOwner(code)
    <3>1. LineOf[code] # l
      BY <2>1, <2>3, AloneOnLine
    <3> QED BY <3>1, <2>2, <2>3, <1>5 DEF LetGo, CallSucceeds, Driven
  <2>4. CASE ~LastOwner(code)
    BY <2>2, <2>4, <1>5 DEF LetGo
  <2> QED BY <2>3, <2>4
<1>6. ASSUME NEW c \in Conns, NEW code \in Codes, LetGoFails(c, code), phase'[c] # "pump",
             \A e \in Conns \ {c} : phase'[e] = phase[e]
      PROVE  l \in desktop'
  <2>1. d # c /\ phase[d] = "pump" /\ k \in held[d] /\ code \in held[c] /\ LastOwner(code)
    BY <1>6 DEF LetGoFails, MayLetGo
  <2>2. LineOf[code] # l
    BY <2>1, AloneOnLine
  <2>3. l \in desktop
    BY <2>1 DEF HeldDown
  <2> QED BY <2>2, <2>3, <1>6 DEF LetGoFails, CallFails, Driven
<1>7. ASSUME NEW c \in Conns, NEW code \in Codes, Release(c, code) \/ ReleaseHeld(c, code)
      PROVE  l \in desktop'
  BY <1>5, <1>7 DEF Release, ReleaseHeld, NextToRelease
<1>8. ASSUME NEW c \in Conns, NEW code \in Codes,
             ReleaseFails(c, code) \/ ReleaseHeldFails(c, code)
      PROVE  l \in desktop'
  <2>1. phase'[c] = "releasing" /\ \A e \in Conns \ {c} : phase'[e] = phase[e]
    BY <1>8 DEF ReleaseFails, ReleaseHeldFails, NextToRelease, BeginRelease, TypeOK
  <2> QED BY <2>1, <1>6, <1>8 DEF ReleaseFails, ReleaseHeldFails
<1> QED BY <1>1, <1>2, <1>3, <1>4, <1>7, <1>8 DEF Next, Pumping, ReleaseStep

LEMMA UnreleasedStep ==
  ASSUME NEW l \in Lines, CountInv, LineInv(l), OneCodeHeld(l), [Next]_vars
  PROVE  Unreleased(l)'
<1> USE DEF LineInv, CountInv
<1> SUFFICES ASSUME NEW d \in Conns, phase'[d] = "releasing",
                    NEW k \in held'[d], k \notin todo'[d], LineOf[k] = l
             PROVE  l \in suspect'
  BY DEF Unreleased
<1>1. CASE UNCHANGED vars
  BY <1>1 DEF vars, Unreleased
<1>2. ASSUME NEW c \in Conns, Authenticate(c) \/ EndPump(c) \/ Disown(c)
      PROVE  l \in suspect'
  <2>1. suspect' = suspect /\ d # c
    BY <1>2 DEF Authenticate, EndPump, BeginRelease, Disown, TypeOK
  <2>2. phase[d] = "releasing" /\ k \in held[d] /\ k \notin todo[d]
    BY <1>2, <2>1 DEF Authenticate, EndPump, BeginRelease, Disown, TypeOK
  <2> QED BY <2>1, <2>2 DEF Unreleased
<1>3. ASSUME NEW c \in Conns, NEW code \in Codes,
             Press(c, code) \/ PressFails(c, code) \/ ReleaseFails(c, code)
      PROVE  l \in suspect'
  <2>1. suspect \subseteq suspect'
    BY <1>3 DEF Press, PressFails, ReleaseFails, LetGoFails, CallSucceeds, CallFails
  <2>2. d # c
    BY <1>3 DEF Press, PressFails, ReleaseFails, LetGoFails, BeginRelease, TypeOK
  <2>3. phase[d] = "releasing" /\ k \in held[d] /\ k \notin todo[d]
    BY <1>3, <2>2 DEF Press, PressFails, ReleaseFails, LetGoFails, BeginRelease, TypeOK
  <2> QED BY <2>1, <2>3 DEF Unreleased
<1>4. ASSUME NEW c \in Conns, NEW code \in Codes, LetGo(c, code),
             phase' = phase, k \in todo[d] => d = c /\ k = code
      PROVE  l \in suspect'
  <2>1. k \in held[d] /\ ~(d = c /\ k = code) /\ code \in held[c]
    BY <1>4 DEF LetGo, MayLetGo, TypeOK
  <2>2. l \in suspect
    BY <2>1, <1>4 DEF Unreleased
  <2>3. CASE LastOwner(code)
    <3>1. LineOf[code] # l
      BY <2>1, <2>3, AloneOnLine
    <3> QED BY <3>1, <2>2, <2>3, <1>4 DEF LetGo, CallSucceeds
  <2>4. CASE ~LastOwner(code)
    BY <2>2, <2>4, <1>4 DEF LetGo
  <2> QED BY <2>3, <2>4
<1>5. ASSUME NEW c \in Conns, NEW code \in Codes, Release(c, code) \/ ReleaseHeld(c, code)
      PROVE  l \in suspect'
  <2>1. LetGo(c, code) /\ phase' = phase
    BY <1>5 DEF Release, ReleaseHeld, NextToRelease
  <2>2. k \in todo[d] => d = c /\ k = code
    BY <1>5 DEF Release, ReleaseHeld, NextToRelease, TypeOK
  <2> QED BY <2>1, <2>2, <1>4
<1>6. ASSUME NEW c \in Conns, NEW code \in Codes, ReleaseHeldFails(c, code)
      PROVE  l \in suspect'
  <2>1. suspect' = suspect \cup ({LineOf[code]} \ {NoLine}) /\ held' = held /\ phase' = phase
    BY <1>6 DEF ReleaseHeldFails, LetGoFails, CallFails, NextToRelease
  <2>2. k \in todo[d] => d = c /\ k = code
    BY <1>6 DEF ReleaseHeldFails, NextToRelease, TypeOK
  <2> QED BY <2>1, <2>2, BridgeAssumption DEF Unreleased
<1> QED BY <1>1, <1>2, <1>3, <1>5, <1>6 DEF Next, Pumping, ReleaseStep

LEMMA UnheldStep ==
  ASSUME NEW l \in Lines, CountInv, LineInv(l), OneCodeHeld(l), [Next]_vars
  PROVE  Unheld(l)'
<1> USE DEF LineInv, CountInv
<1> SUFFICES ASSUME l \in desktop', l \notin suspect'
             PROVE  \E c \in Conns : \E code \in held'[c] : LineOf[code] = l
  BY DEF Unheld
<1> DEFINE Witness(c, code) == c \in Conns /\ code \in held[c] /\ LineOf[code] = l
<1>0. l \in desktop /\ l \notin suspect => \E c, code : Witness(c, code)
  BY DEF Unheld
<1>1. CASE UNCHANGED <<held, desktop, suspect>>
  BY <1>0, <1>1
<1>2. ASSUME NEW c \in Conns, Disown(c)
      PROVE  \E e \in Conns : \E code \in held'[e] : LineOf[code] = l
  <2>1. PICK e, k : Witness(e, k)
    BY <1>0, <1>2 DEF Disown
  <2>2. e # c
    <3>1. l \in desktop /\ l \notin suspect /\ l # NoLine
      BY <1>2, BridgeAssumption DEF Disown, TypeOK
    <3> QED BY <2>1, <3>1, <1>2 DEF Disown, Unreleased
  <2>3. k \in held'[e]
    BY <2>1, <2>2, <1>2 DEF Disown, TypeOK
  <2> QED BY <2>1, <2>3
<1>3. ASSUME NEW c \in Conns, NEW code \in Codes, Press(c, code)
      PROVE  \E e \in Conns : \E k \in held'[e] : LineOf[k] = l
  <2>1. \A e \in Conns : held[e] \subseteq held'[e]
    BY <1>3 DEF Press, TypeOK
  <2>2. code \in held'[c]
    BY <1>3 DEF Press, TypeOK
  <2>3. suspect' = suspect /\ (l \in desktop \/ l = LineOf[code])
    BY <1>3 DEF Press, CallSucceeds, Driven
  <2> QED BY <2>1, <2>2, <2>3, <1>0
<1>4. ASSUME NEW c \in Conns, NEW code \in Codes,
             PressFails(c, code) \/ LetGoFails(c, code)
      PROVE  \E e \in Conns : \E k \in held'[e] : LineOf[k] = l
  <2>1. /\ held' = held
        /\ suspect' = suspect \cup ({LineOf[code]} \ {NoLine})
        /\ desktop' \subseteq desktop \cup ({LineOf[code]} \ {NoLine})
    BY <1>4 DEF PressFails, LetGoFails, CallFails, Driven
  <2> QED BY <2>1, <1>0
<1>5. ASSUME NEW c \in Conns, NEW code \in Codes, LetGo(c, code)
      PROVE  \E e \in Conns : \E k \in held'[e] : LineOf[k] = l
  <2>0. code \in held[c] /\ held' = [held EXCEPT ![c] = @ \ {code}]
    BY <1>5 DEF LetGo, MayLetGo
  <2>1. CASE LastOwner(code)
    <3>1. /\ desktop' = desktop \ {LineOf[code]}
          /\ suspect' = suspect \ {LineOf[code]}
      BY <2>1, <1>5 DEF LetGo, CallSucceeds, Driven
    <3>2. PICK e, k : Witness(e, k)
      BY <3>1, <1>0
    <3>3. k \in held'[e]
      BY <2>0, <3>1, <3>2 DEF TypeOK
    <3> QED BY <3>2, <3>3
  <2>2. CASE ~LastOwner(code)
    <3>1. desktop' = desktop /\ suspect' = suspect
      BY <2>2, <1>5 DEF LetGo
    <3>2. PICK e, k : Witness(e, k)
      BY <3>1, <1>0
    <3>3. PICK f \in Conns \ {c} : code \in held[f]
      BY <2>0, <2>2, OtherHolders
    <3>4. CASE e = c /\ k = code
      <4>1. code \in held'[f]
        BY <2>0, <3>3 DEF TypeOK
      <4> QED BY <4>1, <3>2, <3>4
    <3>5. CASE ~(e = c /\ k = code)
      <4>1. k \in held'[e]
        BY <2>0, <3>2, <3>5 DEF TypeOK
      <4> QED BY <4>1, <3>2
    <3> QED BY <3>4, <3>5
  <2> QED BY <2>1, <2>2
<1> QED BY <1>1, <1>2, <1>3, <1>4, <1>5 DEF Next, vars, Authenticate, EndPump, Pumping,
           Release, ReleaseFails, ReleaseStep, ReleaseHeld, ReleaseHeldFails

(* Every line keeps its promises while no two codes for it are held.       *)
LEMMA LineStep ==
  ASSUME NEW l \in Lines, CountInv, LineInv(l), OneCodeHeld(l), [Next]_vars
  PROVE  LineInv(l)'
<1>1. HeldDown(l)' /\ Unreleased(l)' /\ Unheld(l)'
  BY HeldStep, UnreleasedStep, UnheldStep
<1> QED BY <1>1 DEF LineInv

LEMMA LineInit == ASSUME NEW l \in Lines, Init PROVE LineInv(l)
  BY DEF Init, LineInv, HeldDown, Unreleased, Unheld

(* A desktop key stays down while a live connection holds it and is up     *)
(* when nobody does, unless a rejected call left it in doubt: whatever the *)
(* clients do with all other codes, as long as no two codes of this key    *)
(* are held at the same time.                                              *)
THEOREM LineCorrect ==
  ASSUME NEW l \in Lines
  PROVE  Spec /\ []OneCodeHeld(l) => [](HeldDown(l) /\ Unheld(l))
<1>1. Init => LineInv(l)
  BY LineInit
<1>2. CountInv /\ LineInv(l) /\ OneCodeHeld(l) /\ [Next]_vars => LineInv(l)'
  BY LineStep
<1>3. LineInv(l) => HeldDown(l) /\ Unheld(l)
  BY DEF LineInv
<1> QED BY <1>1, <1>2, <1>3, CountAlways, PTL DEF Spec

(* All lines together.                                                     *)
LinesInv == \A l \in Lines : LineInv(l)
BridgeInv == CountInv /\ LinesInv

LEMMA LinesAlways == Spec /\ []NoAliasesHeld => []BridgeInv
<1>1. Init => LinesInv
  BY LineInit DEF LinesInv
<1>2. CountInv /\ LinesInv /\ NoAliasesHeld /\ [Next]_vars => LinesInv'
  BY LineStep DEF LinesInv, NoAliasesHeld
<1> QED BY <1>1, <1>2, CountAlways, PTL DEF Spec, BridgeInv

LEMMA MappedLine ==
  ASSUME TypeOK, NEW c \in Conns, NEW code \in held[c], LineOf[code] # NoLine
  PROVE  code \in Codes /\ LineOf[code] \in Lines
BY BridgeAssumption DEF TypeOK

(* A code table that gives every code a desktop key of its own is one way  *)
(* to keep aliases from being held together.                               *)
THEOREM NoAliasesCorrect ==
  ASSUME NoAliases PROVE Spec => []NoAliasesHeld
<1>1. TypeOK => NoAliasesHeld
  BY BridgeAssumption DEF TypeOK, NoAliases, NoAliasesHeld, OneCodeHeld
<1> QED BY <1>1, TypeCorrect, PTL

(* What a live connection holds stays down whatever the other connections  *)
(* do and whatever the backend rejects, while no two codes for one key are *)
(* held together.                                                          *)
THEOREM HeldKeysCorrect == Spec /\ []NoAliasesHeld => []HeldKeysAreDown
<1>1. BridgeInv => HeldKeysAreDown
  BY MappedLine DEF BridgeInv, CountInv, LinesInv, LineInv, HeldDown, HeldKeysAreDown
<1> QED BY <1>1, LinesAlways, PTL

(* Under the same condition no key stays down without an owner, except one *)
(* whose last release the backend rejected.                                *)
THEOREM UnheldKeysCorrect == Spec /\ []NoAliasesHeld => []UnheldKeysAreUp
<1>1. BridgeInv => UnheldKeysAreUp
  BY DEF BridgeInv, CountInv, TypeOK, LinesInv, LineInv, Unheld, UnheldKeysAreUp
<1> QED BY <1>1, LinesAlways, PTL

(* And a departed client's releases lift no key that a live connection     *)
(* holds, whatever was rejected before: the shared count is the number of  *)
(* holders, so a code that two clients hold has a count of two.            *)
THEOREM DisconnectCorrect == Spec /\ []NoAliasesHeld => DisconnectPreservesOthersKeys
<1> DEFINE Kept ==
      \A c, d \in Conns :
         (\E code \in Codes : ReleaseHeld(c, code)) /\ phase[d] = "pump"
           => \A code \in held[d] : LineOf[code] \in desktop => LineOf[code] \in desktop'
<1>1. CountInv /\ NoAliasesHeld => Kept
  <2> SUFFICES ASSUME CountInv, NoAliasesHeld, NEW c \in Conns, NEW d \in Conns,
                      NEW code \in Codes, ReleaseHeld(c, code), phase[d] = "pump",
                      NEW k \in held[d], LineOf[k] \in desktop
               PROVE  LineOf[k] \in desktop'
    OBVIOUS
  <2>1. d # c /\ code \in held[c]
    BY DEF ReleaseHeld, NextToRelease, LetGo, MayLetGo
  <2>2. CASE LastOwner(code)
    <3>1. LineOf[k] \in Lines
      BY DEF CountInv, TypeOK
    <3>2. LineOf[k] # LineOf[code]
      BY <2>1, <2>2, <3>1, AloneOnLine DEF CountInv, NoAliasesHeld
    <3> QED BY <3>2, <2>2 DEF ReleaseHeld, LetGo, CallSucceeds, Driven
  <2>3. CASE ~LastOwner(code)
    BY <2>3 DEF ReleaseHeld, LetGo
  <2> QED BY <2>2, <2>3
<1>2. CountInv /\ NoAliasesHeld /\ [Next]_vars => [Kept]_vars
  BY <1>1
<1> QED BY <1>2, CountAlways, PTL DEF Spec, DisconnectPreservesOthersKeys

-----------------------------------------------------------------------------
(* The bridge implements the shared keyboard.                              *)

(* Who is on a line after a connection took or dropped a code of it.       *)
LEMMA HoldersAfterTake ==
  ASSUME TypeOK, NEW c \in Conns, NEW code \in Codes, LineOf[code] # NoLine,
         held' = [held EXCEPT ![c] = @ \cup {code}]
  PROVE  LineHolders' = [LineHolders EXCEPT ![LineOf[code]] = @ \cup {c}]
<1>1. LineOf[code] \in Lines
  BY BridgeAssumption
<1>2. ASSUME NEW l \in Lines
      PROVE  LineHolders'[l] = IF l = LineOf[code] THEN LineHolders[l] \cup {c} ELSE LineHolders[l]
  BY <1>2 DEF LineHolders, TypeOK
<1> QED BY <1>1, <1>2 DEF LineHolders

LEMMA HoldersAfterDrop ==
  ASSUME NoAliasesHeld, TypeOK, NEW c \in Conns, NEW code \in held[c], LineOf[code] # NoLine,
         held' = [held EXCEPT ![c] = @ \ {code}]
  PROVE  LineHolders' = [LineHolders EXCEPT ![LineOf[code]] = @ \ {c}]
<1>0. code \in Codes
  BY DEF TypeOK
<1>1. LineOf[code] \in Lines
  BY <1>0, BridgeAssumption
<1>2. ASSUME NEW l \in Lines
      PROVE  LineHolders'[l] = IF l = LineOf[code] THEN LineHolders[l] \ {c} ELSE LineHolders[l]
  <2>1. \A k \in held[c] : LineOf[k] = LineOf[code] => k = code
    BY <1>1 DEF NoAliasesHeld, OneCodeHeld
  <2>2. \A d \in Conns : held'[d] = IF d = c THEN held[d] \ {code} ELSE held[d]
    BY DEF TypeOK
  <2> QED BY <2>1, <2>2, <1>0 DEF LineHolders
<1> QED BY <1>1, <1>2 DEF LineHolders

LEMMA HoldersUnmapped ==
  ASSUME TypeOK, NEW c \in Conns, NEW code \in Codes, LineOf[code] = NoLine,
         \/ held' = [held EXCEPT ![c] = @ \cup {code}]
         \/ held' = [held EXCEPT ![c] = @ \ {code}]
  PROVE  LineHolders' = LineHolders
<1>1. ASSUME NEW l \in Lines, NEW d \in Conns
      PROVE  (\E k \in held'[d] : LineOf[k] = l) <=> (\E k \in held[d] : LineOf[k] = l)
  <2>1. l # LineOf[code]
    BY <1>1, BridgeAssumption
  <2> QED BY <2>1 DEF TypeOK
<1> QED BY <1>1 DEF LineHolders

LEMMA LetGoImplements ==
  ASSUME NoAliasesHeld, BridgeInv, NEW c \in Conns, NEW code \in Codes,
         LetGo(c, code) \/ LetGoFails(c, code)
  PROVE  [Keyboard!SKNext]_(Keyboard!skVars)
<1> USE DEF BridgeInv, CountInv
<1> DEFINE l == LineOf[code]
<1>0. code \in held[c]
  BY DEF LetGo, LetGoFails, MayLetGo
<1>1. CASE l = NoLine
  <2>1. desktop' = desktop /\ suspect' = suspect
    <3>0. NoLine \notin desktop /\ NoLine \notin suspect
      BY BridgeAssumption DEF TypeOK
    <3>1. CASE LetGo(c, code)
      BY <1>1, <3>0, <3>1 DEF LetGo, CallSucceeds, Driven
    <3>2. CASE LetGoFails(c, code)
      BY <1>1, <3>0, <3>2 DEF LetGoFails, CallFails, Driven
    <3> QED BY <3>1, <3>2
  <2>2. LineHolders' = LineHolders
    <3>1. CASE LetGo(c, code)
      BY <1>1, <3>1, HoldersUnmapped DEF LetGo
    <3>2. CASE LetGoFails(c, code)
      BY <3>2 DEF LetGoFails, LineHolders
    <3> QED BY <3>1, <3>2
  <2> QED BY <2>1, <2>2 DEF Keyboard!skVars
<1>2. CASE l # NoLine
  <2>0. l \in Lines /\ c \in LineHolders[l]
    BY <1>0, <1>2, BridgeAssumption DEF LineHolders
  <2>1. LastOwner(code) => LineHolders[l] = {c}
    BY <1>0, <1>2, <2>0, AloneOnLine DEF LineHolders, NoAliasesHeld
  <2>2. CASE LetGo(c, code) /\ LastOwner(code)
    <3>0. LineHolders' = [LineHolders EXCEPT ![l] = @ \ {c}]
      BY <1>0, <1>2, <2>2, HoldersAfterDrop DEF LetGo
    <3>1. LineHolders' = [LineHolders EXCEPT ![l] = {}]
      BY <3>0, <2>1, <2>2
    <3>2. Keyboard!Lift(c, l)
      BY <2>1, <2>2, <3>1, <1>2 DEF Keyboard!Lift, LetGo, CallSucceeds, Driven
    <3> QED BY <3>2, <2>0 DEF Keyboard!SKNext
  <2>3. CASE LetGo(c, code) /\ ~LastOwner(code)
    <3>1. LineHolders' = [LineHolders EXCEPT ![l] = @ \ {c}]
      BY <1>0, <1>2, <2>3, HoldersAfterDrop DEF LetGo
    <3>2. PICK d \in Conns \ {c} : code \in held[d]
      BY <1>0, <2>3, OtherHolders
    <3>3. LineHolders[l] # {c}
      BY <2>0, <3>2 DEF LineHolders
    <3>4. Keyboard!LetGo(c, l)
      BY <2>0, <2>3, <3>1, <3>3 DEF Keyboard!LetGo, LetGo
    <3> QED BY <3>4, <2>0 DEF Keyboard!SKNext
  <2>4. CASE LetGoFails(c, code)
    <3>1. LineHolders' = LineHolders
      BY <2>4 DEF LetGoFails, LineHolders
    <3>2. Keyboard!Fault(c, l)
      BY <1>2, <2>1, <2>4, <3>1 DEF Keyboard!Fault, LetGoFails, CallFails, Driven
    <3> QED BY <3>2, <2>0 DEF Keyboard!SKNext
  <2> QED BY <2>2, <2>3, <2>4
<1> QED BY <1>1, <1>2

LEMMA PressImplements ==
  ASSUME BridgeInv, NEW c \in Conns, NEW code \in Codes,
         Press(c, code) \/ PressFails(c, code)
  PROVE  [Keyboard!SKNext]_(Keyboard!skVars)
<1> USE DEF BridgeInv, CountInv
<1> DEFINE l == LineOf[code]
<1>1. CASE l = NoLine
  <2>1. desktop' = desktop /\ suspect' = suspect
    BY <1>1 DEF Press, PressFails, CallSucceeds, CallFails, Driven
  <2>2. LineHolders' = LineHolders
    <3>1. CASE Press(c, code)
      BY <1>1, <3>1, HoldersUnmapped DEF Press
    <3>2. CASE PressFails(c, code)
      BY <3>2 DEF PressFails, LineHolders
    <3> QED BY <3>1, <3>2
  <2> QED BY <2>1, <2>2 DEF Keyboard!skVars
<1>2. CASE l # NoLine
  <2>0. l \in Lines
    BY <1>2, BridgeAssumption
  <2>1. CASE Press(c, code)
    <3>1. LineHolders' = [LineHolders EXCEPT ![l] = @ \cup {c}]
      BY <1>2, <2>1, HoldersAfterTake DEF Press
    <3>2. Keyboard!Hold(c, l)
      BY <1>2, <2>1, <3>1 DEF Keyboard!Hold, Press, CallSucceeds, Driven
    <3> QED BY <2>0, <3>2 DEF Keyboard!SKNext
  <2>2. CASE PressFails(c, code)
    <3>1. LineHolders' = LineHolders
      BY <2>2 DEF PressFails, LineHolders
    <3>2. Keyboard!Fault(c, l)
      BY <1>2, <2>2, <3>1 DEF Keyboard!Fault, PressFails, CallFails, Driven
    <3> QED BY <2>0, <3>2 DEF Keyboard!SKNext
  <2> QED BY <2>1, <2>2
<1> QED BY <1>1, <1>2

LEMMA DisownImplements ==
  ASSUME BridgeInv, NEW c \in Conns, Disown(c)
  PROVE  [Keyboard!SKNext]_(Keyboard!skVars)
<1> USE DEF BridgeInv, CountInv
<1>1. ASSUME NEW l \in Lines, c \in LineHolders[l] PROVE l \in suspect
  BY <1>1 DEF LineHolders, Disown, LinesInv, LineInv, Unreleased
<1>2. LineHolders' = [l \in Lines |-> LineHolders[l] \ {c}]
  BY DEF LineHolders, Disown, TypeOK
<1>3. Keyboard!Leave(c)
  BY <1>1, <1>2 DEF Keyboard!Leave, Disown
<1> QED BY <1>3 DEF Keyboard!SKNext

(* While no two codes for one key are held together the bridge is a shared *)
(* keyboard: a desktop key goes down with its first holder, comes up with  *)
(* its last, and only rejected backend calls make an exception.            *)
THEOREM BridgeImplementsSharedKeyboard ==
  Spec /\ []NoAliasesHeld => ImplementsSharedKeyboard
<1>1. Init => Keyboard!SKInit
  BY DEF Init, Keyboard!SKInit, LineHolders
<1>2. BridgeInv /\ NoAliasesHeld /\ [Next]_vars => [Keyboard!SKNext]_(Keyboard!skVars)
  <2> SUFFICES ASSUME BridgeInv, NoAliasesHeld, [Next]_vars
               PROVE  [Keyboard!SKNext]_(Keyboard!skVars)
    OBVIOUS
  <2>1. CASE UNCHANGED <<held, desktop, suspect>>
    BY <2>1 DEF Keyboard!skVars, LineHolders
  <2> QED BY <2>1, PressImplements, LetGoImplements, DisownImplements DEF Next, vars,
             Authenticate, EndPump, Pumping, Release, ReleaseFails, ReleaseStep,
             ReleaseHeld, ReleaseHeldFails
<1> QED BY <1>1, <1>2, LinesAlways, PTL DEF Spec, ImplementsSharedKeyboard, Keyboard!SKSpec
=============================================================================
