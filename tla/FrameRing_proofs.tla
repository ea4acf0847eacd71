--------------------------- MODULE FrameRing_proofs ---------------------------
(* Theorems about the frame transport, for any number of parts, attempts,  *)
(* frames and transport files.                                             *)
EXTENDS FrameRing, FiniteSetTheorems, TLAPS

-----------------------------------------------------------------------------
(* The slots: a frame shares its slot with the frame SlotCount later and   *)
(* with none in between.                                                   *)

LEMMA SlotType == ASSUME NEW n \in Nat PROVE SlotOf(n) \in Slots
  BY DEF SlotOf, Slots, SlotCount

LEMMA SameSlot == ASSUME NEW n \in Nat PROVE SlotOf(n + SlotCount) = SlotOf(n)
  BY DEF SlotOf, SlotCount

LEMMA NextInSlot ==
  ASSUME NEW n \in Nat, NEW m \in Nat, SlotOf(m) = SlotOf(n), m > n
  PROVE  m >= n + SlotCount
  BY DEF SlotOf, SlotCount

-----------------------------------------------------------------------------
(* Types.  A helper that publishes or retires has mapped a file, and so    *)
(* has a capture call past its first step.                                 *)

Attached ==
    /\ feed # "idle" => map # 0
    /\ helper \in {"retire", "write", "publish"} => mine # 0
    /\ mine <= born /\ (helper = "retire" => mine < born)
    /\ feed \in {"try", "older", "copy"} => tries < MaxTries /\ want # 0

Typed == TypeOK /\ Attached

LEMMA TypeInit == Init => Typed
  BY RingAssumption
     DEF Init, Typed, TypeOK, Attached, Inodes, Slots, SlotCount, Whole, NoPicture

LEMMA MineType == Typed /\ mine # 0 => mine \in Inodes
  BY RingAssumption DEF Typed, TypeOK, Inodes

LEMMA MapType == Typed /\ feed # "idle" => map \in Inodes
  BY RingAssumption DEF Typed, TypeOK, Attached, Inodes

LEMMA CurrentType ==
  Typed /\ mine # 0 => Current \in Nat /\ CurrentSlot \in Slots
                        /\ SlotOf(Current + 1) \in Slots
<1> SUFFICES ASSUME Typed, mine # 0
             PROVE  Current \in Nat /\ CurrentSlot \in Slots
                        /\ SlotOf(Current + 1) \in Slots
  OBVIOUS
<1>1. Current \in Nat
  BY MineType DEF Typed, TypeOK, Current
<1> QED BY <1>1, SlotType DEF CurrentSlot

LEMMA HelperTypes == ASSUME Typed, Helper PROVE Typed'
<1>0. MaxInode \in Nat /\ 0 \in 0..MaxInode
  BY RingAssumption
<1>1. CASE Spawn
  BY <1>0, <1>1 DEF Spawn, memory, readVars, Typed, TypeOK, Attached
<1>2. CASE Setup
  <2>1. born + 1 \in 0..MaxInode /\ born + 1 # 0
    BY <1>0, <1>2 DEF Setup, Typed, TypeOK
  <2> QED
    BY <1>2, <2>1 DEF Setup, memory, readVars, Typed, TypeOK, Attached
<1>3. CASE Retire
  <2>1. total' \in [Inodes -> Nat]
    BY <1>3 DEF Retire, Typed, TypeOK
  <2> QED
    BY <1>3, <2>1 DEF Retire, pathVars, readVars, Typed, TypeOK, Attached
<1>4. CASE BeginFrame
  <2>1. counter' \in [Inodes -> Nat]
    <3>1. counter[mine] + 1 \in Nat
      BY <1>4, CurrentType DEF BeginFrame, Current
    <3> QED BY <1>4, <3>1 DEF BeginFrame, Typed, TypeOK
  <2>2. seq' \in [Inodes -> [Slots -> Nat]]
    <3>1. 2 * (Current + 1) - 1 \in Nat
      BY <1>4, CurrentType DEF BeginFrame
    <3> QED BY <1>4, <3>1 DEF BeginFrame, Typed, TypeOK
  <2> QED
    BY <1>4, <2>1, <2>2 DEF BeginFrame, pathVars, readVars, Typed, TypeOK, Attached
<1>5. CASE EndFrame
  <2>1. mine # 0
    BY <1>5 DEF EndFrame, Typed, Attached
  <2>2. seq' \in [Inodes -> [Slots -> Nat]]
    <3>1. 2 * Current \in Nat
      BY <2>1, CurrentType
    <3> QED BY <1>5, <3>1 DEF EndFrame, Typed, TypeOK
  <2> QED
    BY <1>5, <2>1, <2>2 DEF EndFrame, pathVars, readVars, Typed, TypeOK, Attached
<1>6. CASE Publish
  <2>1. total' \in [Inodes -> Nat]
    BY <1>6, CurrentType DEF Publish, Typed, TypeOK, Attached
  <2> QED
    BY <1>6, <2>1 DEF Publish, pathVars, readVars, Typed, TypeOK, Attached
<1>7. ASSUME NEW p \in Parts, WritePart(p) PROVE Typed'
  <2>1. Current \in Nat
    BY <1>7, CurrentType DEF WritePart, Typed, Attached
  <2>2. data' \in [Inodes -> [Slots -> [Parts -> Nat]]]
    <3>1. mine \in Inodes /\ CurrentSlot \in Slots
      BY <1>7, MineType, CurrentType DEF WritePart, Typed, Attached
    <3>2. [data[mine][CurrentSlot] EXCEPT ![p] = Current] \in [Parts -> Nat]
      BY <2>1, <3>1 DEF Typed, TypeOK
    <3>3. data' = [data EXCEPT ![mine] = [data[mine] EXCEPT ![CurrentSlot] =
                     [data[mine][CurrentSlot] EXCEPT ![p] = Current]]]
      BY <1>7 DEF WritePart
    <3> QED BY <3>1, <3>2, <3>3 DEF Typed, TypeOK
  <2> QED
    BY <1>7, <2>2 DEF WritePart, pathVars, readVars, Typed, TypeOK, Attached
<1>8. CASE Finish
  <2>1. total' \in [Inodes -> Nat]
    BY <1>8 DEF Finish, Typed, TypeOK
  <2> QED
    BY <1>8, <2>1 DEF Finish, pathVars, readVars, Typed, TypeOK, Attached
<1>9. CASE Unlink
  BY <1>0, <1>9 DEF Unlink, memory, readVars, Typed, TypeOK, Attached
<1>10. CASE FinishDirect
  BY <1>0, <1>10 DEF FinishDirect, memory, readVars, Typed, TypeOK, Attached
<1>11. CASE Die
  BY <1>11 DEF Die, pathVars, memory, readVars, Typed, TypeOK, Attached
<1> QED
  BY <1>1, <1>2, <1>3, <1>4, <1>5, <1>6, <1>7, <1>8, <1>9, <1>10, <1>11
     DEF Helper, Publishing

(* What the hook leaves alone keeps its type.                              *)
HookTyped ==
    /\ feed \in {"idle", "total", "try", "older", "copy"}
    /\ map \in 0..MaxInode
    /\ want \in Nat
    /\ tries \in 0..MaxTries
    /\ snapshot \in [Parts -> Nat]
    /\ copied \subseteq Parts
    /\ shown \in [inode : 0..MaxInode, parts : [Parts -> Nat]]
    /\ feed # "idle" => map # 0
    /\ feed \in {"try", "older", "copy"} => tries < MaxTries /\ want # 0

LEMMA HookTypes == ASSUME Typed, Hook PROVE Typed'
<1>0. MaxInode \in Nat /\ 0 \in 0..MaxInode /\ MaxTries \in Nat \ {0}
  BY RingAssumption
<1>a. HookTyped /\ path \in 0..MaxInode
  BY DEF Typed, TypeOK, Attached, HookTyped
<1>b. ASSUME Reads, HookTyped' PROVE Typed'
  BY <1>b DEF Typed, TypeOK, Attached, HookTyped, Reads, pathVars, memory, helperVars
<1>1. CASE KeepMap
  BY <1>1, <1>a, <1>b DEF KeepMap, readVars, HookTyped
<1>2. CASE OpenPath
  BY <1>2, <1>a, <1>b DEF OpenPath, readVars, HookTyped
<1>3. CASE OpenFails
  BY <1>0, <1>3, <1>a, <1>b DEF OpenFails, readVars, HookTyped
<1>4. CASE LoadTotal
  <2>1. want' \in Nat /\ tries' \in 0..MaxTries /\ tries' < MaxTries
    BY <1>0, <1>4, MapType DEF LoadTotal, Typed, TypeOK
  <2> QED BY <1>4, <1>a, <1>b, <2>1 DEF LoadTotal, HookTyped
<1>5. CASE LoadSeq
  BY <1>5, <1>a, <1>b DEF LoadSeq, HookTyped
<1>c. ASSUME Again, feed \in {"older", "copy"} PROVE
        /\ tries' \in 0..MaxTries
        /\ feed' = "idle" \/ (feed' = "try" /\ tries' < MaxTries)
  <2>1. tries < MaxTries /\ tries \in 0..MaxTries
    BY <1>c DEF Typed, TypeOK, Attached
  <2> QED BY <1>0, <1>c, <2>1 DEF Again
<1>6. CASE Older
  <2>1. want' \in Nat
    <3>1. want \in Nat \ {0}
      BY <1>6 DEF Older, Typed, TypeOK, Attached
    <3>2. total[map] \in Nat
      BY <1>6, MapType DEF Older, Typed, TypeOK
    <3> QED BY <1>6, <3>1, <3>2 DEF Older, OlderFrame
  <2>2. tries' \in 0..MaxTries
    BY <1>6, <1>a, <1>c DEF Older, HookTyped
  <2>3. feed' = "idle" \/ (feed' = "try" /\ tries' < MaxTries /\ want' # 0)
    <3>1. CASE want' = 0
      BY <1>6, <3>1 DEF Older
    <3>2. CASE want' # 0
      BY <1>6, <1>c, <3>2 DEF Older
    <3> QED BY <3>1, <3>2
  <2> QED BY <1>6, <1>a, <1>b, <2>1, <2>2, <2>3 DEF Older, HookTyped
<1>7. CASE Draw
  BY <1>7, <1>a, <1>b DEF Draw, readVars, HookTyped
<1>8. CASE Retry
  BY <1>8, <1>a, <1>b, <1>c DEF Retry, HookTyped
<1>9. ASSUME NEW p \in Parts, CopyPart(p) PROVE Typed'
  <2>1. data[map][SlotOf(want)][p] \in Nat
    BY <1>9, MapType, SlotType DEF CopyPart, Typed, TypeOK
  <2>2. snapshot' \in [Parts -> Nat]
    BY <1>9, <2>1 DEF CopyPart, Typed, TypeOK
  <2> QED BY <1>9, <1>a, <1>b, <2>2 DEF CopyPart, HookTyped
<1> QED
  BY <1>1, <1>2, <1>3, <1>4, <1>5, <1>6, <1>7, <1>8, <1>9 DEF Hook, Feeding

LEMMA TypeStep == Typed /\ [Next]_vars => Typed'
<1>1. ASSUME Typed, UNCHANGED vars PROVE Typed'
  BY <1>1 DEF Typed, TypeOK, Attached, vars
<1> QED BY <1>1, HelperTypes, HookTypes DEF Next

(* Type correctness: whatever the helper and the hook do, every variable   *)
(* keeps its type, and the attempts of a capture call stay within bounds.  *)
THEOREM TypeCorrect == Spec => []TypeOK
<1>1. Typed => TypeOK
  BY DEF Typed
<1> QED BY TypeInit, TypeStep, <1>1, PTL DEF Spec

-----------------------------------------------------------------------------
(* The ring.  A slot that was used holds a frame that belongs there; every *)
(* frame begun has reached its slot, and all but the last completely; a    *)
(* slot marked stable holds the whole frame.                               *)

SlotHolds ==
    \A i \in Inodes, s \in Slots :
        \/ seq[i][s] = 0
        \/ \E m \in 1..counter[i] :
               SlotOf(m) = s /\ seq[i][s] \in {2 * m - 1, 2 * m}

FramesReached ==
    \A i \in Inodes : \A m \in 1..counter[i] :
        /\ seq[i][SlotOf(m)] >= 2 * m - 1
        /\ m < counter[i] => seq[i][SlotOf(m)] >= 2 * m

StableIsWhole ==
    \A i \in Inodes, s \in Slots, n \in Nat \ {0} :
        seq[i][s] = 2 * n => data[i][s] = Whole(n)

HelperInv ==
    /\ helper \in {"idle", "retire", "publish", "unlink"} /\ mine # 0
          => Stable(mine, Current)
    /\ helper = "write" =>
          /\ Current > 0
          /\ seq[mine][CurrentSlot] = 2 * Current - 1
          /\ \A p \in written : data[mine][CurrentSlot][p] = Current
    /\ helper = "retire" => counter[born] = 0
    /\ \A i \in Inodes : i > born => counter[i] = 0

RingInv == SlotHolds /\ FramesReached /\ StableIsWhole /\ HelperInv

LEMMA RingInit == Init => RingInv
  BY RingAssumption
     DEF Init, RingInv, SlotHolds, FramesReached, StableIsWhole, HelperInv,
         Inodes, Slots, SlotCount, Stable

(* A file without frames has only unused slots.                            *)
LEMMA EmptyIsStable ==
  ASSUME Typed, SlotHolds, NEW i \in Inodes, counter[i] = 0
  PROVE  Stable(i, 0)
<1>1. SlotOf(0) \in Slots
  BY SlotType
<1> QED BY <1>1 DEF SlotHolds, Stable

(* The steps that do not touch the slots.                                  *)
LEMMA RingKept ==
  ASSUME Typed, RingInv, UNCHANGED <<seq, data, counter>>, HelperInv'
  PROVE  RingInv'
  BY DEF RingInv, SlotHolds, FramesReached, StableIsWhole

LEMMA RingBeginFrame == ASSUME Typed, RingInv, BeginFrame PROVE RingInv'
<1> DEFINE c == Current
           z == SlotOf(c + 1)
<1>1. mine \in Inodes /\ c \in Nat /\ c = counter[mine] /\ z \in Slots
  BY MineType, CurrentType DEF BeginFrame, Current
<1>2. \A i \in Inodes : counter'[i] = IF i = mine THEN c + 1 ELSE counter[i]
  BY <1>1 DEF BeginFrame, Typed, TypeOK
<1>3. \A i \in Inodes, s \in Slots :
        seq'[i][s] = IF i = mine /\ s = z THEN 2 * (c + 1) - 1 ELSE seq[i][s]
  BY <1>1 DEF BeginFrame, Typed, TypeOK
<1>4. \A i \in Inodes : counter[i] \in Nat
  BY DEF Typed, TypeOK
<1>5. \A i \in Inodes, s \in Slots : seq[i][s] \in Nat
  BY DEF Typed, TypeOK
<1>6. seq[mine][SlotOf(c)] = 2 * c
  BY <1>1 DEF BeginFrame, RingInv, HelperInv, Stable
<1> HIDE DEF c
<1>7. SlotHolds'
  <2> SUFFICES ASSUME NEW i \in Inodes, NEW s \in Slots
               PROVE  \/ seq'[i][s] = 0
                      \/ \E m \in 1..counter'[i] :
                           SlotOf(m) = s /\ seq'[i][s] \in {2 * m - 1, 2 * m}
    BY DEF SlotHolds
  <2>1. CASE i = mine /\ s = z
    <3>1. c + 1 \in 1..counter'[i]
      BY <1>1, <1>2, <2>1
    <3> QED BY <3>1, <1>3, <2>1
  <2>2. CASE ~(i = mine /\ s = z)
    <3>1. seq'[i][s] = seq[i][s]
      BY <1>3, <2>2
    <3>2. 1..counter[i] \subseteq 1..counter'[i]
      BY <1>1, <1>2, <1>4
    <3> QED BY <3>1, <3>2 DEF RingInv, SlotHolds
  <2> QED BY <2>1, <2>2
<1>8. FramesReached'
  <2> SUFFICES ASSUME NEW i \in Inodes, NEW m \in 1..counter'[i]
               PROVE  /\ seq'[i][SlotOf(m)] >= 2 * m - 1
                      /\ m < counter'[i] => seq'[i][SlotOf(m)] >= 2 * m
    BY DEF FramesReached
  <2>1. m \in Nat /\ SlotOf(m) \in Slots
    BY SlotType, <1>1, <1>2, <1>4
  <2>2. CASE i # mine
    BY <1>2, <1>3, <2>1, <2>2 DEF RingInv, FramesReached
  <2>3. CASE i = mine /\ SlotOf(m) = z
    <3>1. m <= c + 1 /\ counter'[i] = c + 1
      BY <1>1, <1>2, <2>3
    <3>2. seq'[i][SlotOf(m)] = 2 * (c + 1) - 1
      BY <1>3, <2>1, <2>3
    <3> QED BY <1>1, <2>1, <3>1, <3>2
  <2>4. CASE i = mine /\ SlotOf(m) # z
    <3>1. m # c + 1 /\ counter'[i] = c + 1
      BY <1>2, <2>4
    <3>2. m <= c
      BY <1>1, <2>1, <3>1
    <3>3. seq'[i][SlotOf(m)] = seq[i][SlotOf(m)]
      BY <1>3, <2>1, <2>4
    <3>4. seq[i][SlotOf(m)] >= 2 * m
      <4>1. CASE m = c
        BY <1>1, <1>6, <2>4, <4>1
      <4>2. CASE m # c
        <5>1. m \in 1..counter[i] /\ m < counter[i]
          BY <1>1, <2>4, <3>2, <4>2
        <5> QED BY <5>1 DEF RingInv, FramesReached
      <4> QED BY <4>1, <4>2
    <3> QED BY <2>1, <3>3, <3>4, <1>5
  <2> QED BY <2>2, <2>3, <2>4
<1>9. StableIsWhole'
  <2> SUFFICES ASSUME NEW i \in Inodes, NEW s \in Slots, NEW n \in Nat \ {0},
                      seq'[i][s] = 2 * n
               PROVE  data'[i][s] = Whole(n)
    BY DEF StableIsWhole
  <2>1. ~(i = mine /\ s = z)
    <3>1. 2 * (c + 1) - 1 # 2 * n
      BY <1>1
    <3> QED BY <1>3, <3>1
  <2>2. data' = data /\ seq[i][s] = 2 * n
    BY <1>3, <2>1 DEF BeginFrame
  <2> QED BY <2>2 DEF RingInv, StableIsWhole
<1>10. HelperInv'
  <2>1. helper' = "write" /\ mine' = mine /\ written' = {} /\ born' = born
    BY DEF BeginFrame, pathVars
  <2>2. Current' = c + 1 /\ CurrentSlot' = z
    BY <1>1, <1>2, <2>1 DEF Current, CurrentSlot
  <2>3. seq'[mine][z] = 2 * (c + 1) - 1
    BY <1>1, <1>3
  <2>4. \A i \in Inodes : i > born => counter'[i] = 0
    <3>1. mine <= born /\ mine \in Int /\ born \in Int /\ Inodes \subseteq Int
      BY RingAssumption DEF Typed, TypeOK, Attached, Inodes
    <3>2. \A i \in Inodes : i > born => i # mine /\ counter[i] = 0
      BY <3>1 DEF RingInv, HelperInv
    <3> QED BY <1>2, <3>2
  <2> QED BY <1>1, <2>1, <2>2, <2>3, <2>4 DEF HelperInv
<1> QED BY <1>7, <1>8, <1>9, <1>10 DEF RingInv

LEMMA RingWritePart ==
  ASSUME Typed, RingInv, NEW p \in Parts, WritePart(p) PROVE RingInv'
<1>1. mine \in Inodes /\ Current \in Nat /\ CurrentSlot \in Slots
  BY MineType, CurrentType DEF WritePart, Typed, Attached
<1>2. UNCHANGED <<seq, counter, mine, helper, born>> /\ helper = "write"
  BY DEF WritePart, pathVars
<1>3. Current' = Current /\ CurrentSlot' = CurrentSlot
  BY <1>2 DEF Current, CurrentSlot
<1>4. data' = [data EXCEPT ![mine] = [data[mine] EXCEPT ![CurrentSlot] =
                 [data[mine][CurrentSlot] EXCEPT ![p] = Current]]]
  BY DEF WritePart
<1>5. \A i \in Inodes, s \in Slots :
        ~(i = mine /\ s = CurrentSlot) => data'[i][s] = data[i][s]
  BY <1>1, <1>4 DEF Typed, TypeOK
<1>6. data'[mine][CurrentSlot] = [data[mine][CurrentSlot] EXCEPT ![p] = Current]
  BY <1>1, <1>4 DEF Typed, TypeOK
<1>7. seq[mine][CurrentSlot] = 2 * Current - 1
  BY <1>2 DEF RingInv, HelperInv
<1>8. SlotHolds' /\ FramesReached'
  BY <1>2 DEF RingInv, SlotHolds, FramesReached
<1>9. StableIsWhole'
  <2> SUFFICES ASSUME NEW i \in Inodes, NEW s \in Slots, NEW n \in Nat \ {0},
                      seq'[i][s] = 2 * n
               PROVE  data'[i][s] = Whole(n)
    BY DEF StableIsWhole
  <2>1. ~(i = mine /\ s = CurrentSlot)
    <3>1. 2 * Current - 1 # 2 * n
      BY <1>1
    <3> QED BY <1>2, <1>7, <3>1
  <2> QED BY <1>2, <1>5, <2>1 DEF RingInv, StableIsWhole
<1>10. HelperInv'
  <2>1. \A q \in written' : data'[mine][CurrentSlot][q] = Current
    <3>1. written' = written \cup {p}
      BY DEF WritePart
    <3>2. data[mine][CurrentSlot] \in [Parts -> Nat] /\ written \subseteq Parts
      BY <1>1 DEF Typed, TypeOK
    <3> QED BY <1>2, <1>6, <3>1, <3>2 DEF RingInv, HelperInv
  <2> QED BY <1>2, <1>3, <2>1 DEF RingInv, HelperInv
<1> QED BY <1>8, <1>9, <1>10 DEF RingInv

LEMMA RingEndFrame == ASSUME Typed, RingInv, EndFrame PROVE RingInv'
<1> DEFINE c == Current
           z == CurrentSlot
<1>1. mine \in Inodes /\ c \in Nat /\ c = counter[mine] /\ z \in Slots /\ z = SlotOf(c)
  BY MineType, CurrentType DEF EndFrame, Current, CurrentSlot, Typed, Attached
<1>2. UNCHANGED <<data, counter, mine, born>> /\ helper = "write" /\ helper' = "publish"
  BY DEF EndFrame, pathVars
<1>3. \A i \in Inodes, s \in Slots :
        seq'[i][s] = IF i = mine /\ s = z THEN 2 * c ELSE seq[i][s]
  BY <1>1 DEF EndFrame, Typed, TypeOK
<1>4. c > 0 /\ seq[mine][z] = 2 * c - 1
  BY <1>2 DEF RingInv, HelperInv
<1>5. data[mine][z] = Whole(c)
  <2>1. data[mine][z] \in [Parts -> Nat]
    BY <1>1 DEF Typed, TypeOK
  <2>2. \A p \in Parts : data[mine][z][p] = c
    BY <1>2 DEF RingInv, HelperInv, EndFrame
  <2> QED BY <2>1, <2>2 DEF Whole
<1>6. \A i \in Inodes : counter[i] \in Nat
  BY DEF Typed, TypeOK
<1>7. \A i \in Inodes, s \in Slots : seq[i][s] \in Nat
  BY DEF Typed, TypeOK
<1> HIDE DEF c, z
<1>8. SlotHolds'
  <2> SUFFICES ASSUME NEW i \in Inodes, NEW s \in Slots
               PROVE  \/ seq'[i][s] = 0
                      \/ \E m \in 1..counter[i] :
                           SlotOf(m) = s /\ seq'[i][s] \in {2 * m - 1, 2 * m}
    BY <1>2 DEF SlotHolds
  <2>1. CASE i = mine /\ s = z
    <3>1. c \in 1..counter[i]
      BY <1>1, <1>4, <2>1
    <3> QED BY <3>1, <1>1, <1>3, <2>1
  <2>2. CASE ~(i = mine /\ s = z)
    BY <1>3, <2>2 DEF RingInv, SlotHolds
  <2> QED BY <2>1, <2>2
<1>9. FramesReached'
  <2> SUFFICES ASSUME NEW i \in Inodes, NEW m \in 1..counter[i]
               PROVE  /\ seq'[i][SlotOf(m)] >= 2 * m - 1
                      /\ m < counter[i] => seq'[i][SlotOf(m)] >= 2 * m
    BY <1>2 DEF FramesReached
  <2>1. m \in Nat /\ SlotOf(m) \in Slots
    BY SlotType, <1>6
  <2>2. seq'[i][SlotOf(m)] >= seq[i][SlotOf(m)]
    BY <1>1, <1>3, <1>4, <1>7, <2>1
  <2>3. seq[i][SlotOf(m)] \in Nat /\ seq'[i][SlotOf(m)] \in Nat
    BY <1>1, <1>3, <1>7, <2>1
  <2> QED BY <2>1, <2>2, <2>3 DEF RingInv, FramesReached
<1>10. StableIsWhole'
  <2> SUFFICES ASSUME NEW i \in Inodes, NEW s \in Slots, NEW n \in Nat \ {0},
                      seq'[i][s] = 2 * n
               PROVE  data[i][s] = Whole(n)
    BY <1>2 DEF StableIsWhole
  <2>1. CASE i = mine /\ s = z
    <3>1. n = c
      BY <1>1, <1>3, <2>1
    <3> QED BY <1>5, <2>1, <3>1
  <2>2. CASE ~(i = mine /\ s = z)
    BY <1>3, <2>2 DEF RingInv, StableIsWhole
  <2> QED BY <2>1, <2>2
<1>11. HelperInv'
  <2>1. Stable(mine, Current)'
    BY <1>1, <1>2, <1>3 DEF Stable, Current, c
  <2> QED BY <1>2, <2>1 DEF RingInv, HelperInv
<1> QED BY <1>8, <1>9, <1>10, <1>11 DEF RingInv

LEMMA RingStep == ASSUME Typed, RingInv, [Next]_vars PROVE RingInv'
<1>1. CASE BeginFrame
  BY <1>1, RingBeginFrame
<1>2. ASSUME NEW p \in Parts, WritePart(p) PROVE RingInv'
  BY <1>2, RingWritePart
<1>3. CASE EndFrame
  BY <1>3, RingEndFrame
<1>4. CASE Setup
  <2>1. UNCHANGED <<seq, data, counter>>
    BY <1>4 DEF Setup, memory
  <2>2. born \in Nat /\ born + 1 \in Inodes /\ born' = born + 1 /\ Inodes \subseteq Nat
    BY <1>4, RingAssumption DEF Setup, Typed, TypeOK, Inodes
  <2>3. counter[born + 1] = 0
    BY <2>2 DEF RingInv, HelperInv
  <2>4. Stable(born + 1, 0)
    BY <2>2, <2>3, EmptyIsStable DEF RingInv
  <2>5. \A i \in Inodes : i > born' => counter'[i] = 0
    BY <2>1, <2>2 DEF RingInv, HelperInv
  <2>6. CASE mine = 0
    <3>1. mine' = born + 1 /\ helper' = "idle"
      BY <1>4, <2>6 DEF Setup
    <3>2. Stable(mine, Current)'
      BY <2>1, <2>3, <2>4, <3>1 DEF Current, Stable
    <3>3. HelperInv'
      BY <3>1, <3>2, <2>5 DEF HelperInv
    <3> QED BY <2>1, <3>3, RingKept
  <2>7. CASE mine # 0
    <3>1. mine' = mine /\ helper' = "retire" /\ helper = "idle"
      BY <1>4, <2>7 DEF Setup
    <3>2. Stable(mine, Current)'
      BY <2>1, <2>7, <3>1 DEF Current, Stable, RingInv, HelperInv
    <3>3. HelperInv'
      BY <2>1, <2>2, <2>3, <2>5, <3>1, <3>2 DEF HelperInv
    <3> QED BY <2>1, <3>3, RingKept
  <2> QED BY <2>6, <2>7
<1>5. CASE Retire
  <2>1. UNCHANGED <<seq, data, counter, born>> /\ mine' = born /\ helper' = "idle"
    BY <1>5 DEF Retire, pathVars
  <2>2. born \in Inodes /\ counter[born] = 0
    BY <1>5, RingAssumption
       DEF Retire, RingInv, HelperInv, Typed, TypeOK, Attached, Inodes
  <2>3. Stable(mine, Current)'
    BY <2>1, <2>2, EmptyIsStable DEF Current, Stable, RingInv
  <2>4. HelperInv'
    BY <2>1, <2>3 DEF RingInv, HelperInv
  <2> QED BY <2>1, <2>4, RingKept
<1>6. CASE Spawn
  <2>1. UNCHANGED <<seq, data, counter, born>> /\ mine' = 0 /\ helper' = "idle"
    BY <1>6 DEF Spawn, memory
  <2>2. HelperInv'
    BY <2>1 DEF RingInv, HelperInv
  <2> QED BY <2>1, <2>2, RingKept
<1>7. CASE Publish \/ Finish
  <2>1. UNCHANGED <<seq, data, counter, born, mine>>
        /\ helper' \in {"idle", "unlink"} /\ helper \in {"publish", "idle"}
    BY <1>7 DEF Publish, Finish, pathVars
  <2>2. HelperInv'
    BY <2>1 DEF RingInv, HelperInv, Stable, Current
  <2> QED BY <2>1, <2>2, RingKept
<1>8. CASE Unlink \/ FinishDirect \/ Die
  <2>1. UNCHANGED <<seq, data, counter, born, mine>> /\ helper' = "off"
    BY <1>8 DEF Unlink, FinishDirect, Die, memory, pathVars
  <2>2. HelperInv'
    BY <2>1 DEF RingInv, HelperInv
  <2> QED BY <2>1, <2>2, RingKept
<1>9. CASE Hook \/ UNCHANGED vars
  <2>1. UNCHANGED <<pathVars, memory, helperVars>>
    BY <1>9 DEF Hook, Feeding, KeepMap, OpenPath, OpenFails, LoadTotal, LoadSeq,
                Older, CopyPart, Draw, Retry, Reads, vars, pathVars, memory, helperVars
  <2>2. HelperInv'
    BY <2>1 DEF RingInv, HelperInv, Stable, Current, CurrentSlot, pathVars, memory, helperVars
  <2> QED BY <2>1, <2>2, RingKept DEF memory, helperVars
<1> QED
  BY <1>1, <1>2, <1>3, <1>4, <1>5, <1>6, <1>7, <1>8, <1>9 DEF Next, Helper, Publishing

-----------------------------------------------------------------------------
(* What a reader can tell from a slot.                                     *)

LEMMA CompletedType ==
  ASSUME Typed, NEW i \in Inodes
  PROVE  /\ counter[i] \in Nat /\ Completed(i) \in Int
         /\ Completed(i) <= counter[i] /\ counter[i] <= Completed(i) + 1
<1>1. counter[i] \in Nat
  BY DEF Typed, TypeOK
<1> QED BY <1>1 DEF Completed

LEMMA CompletedReached ==
  ASSUME Typed, RingInv, NEW i \in Inodes, NEW n \in Nat \ {0}, n <= Completed(i)
  PROVE  seq[i][SlotOf(n)] \in Nat /\ seq[i][SlotOf(n)] >= 2 * n
<1>1. seq[i][SlotOf(n)] \in Nat
  BY SlotType DEF Typed, TypeOK
<1>2. counter[i] \in Nat /\ n \in 1..counter[i]
  BY CompletedType
<1>3. CASE n = counter[i]
  <2>1. Stable(i, n)
    BY <1>2, <1>3 DEF Completed
  <2> QED BY <1>1, <2>1 DEF Stable
<1>4. CASE n < counter[i]
  BY <1>1, <1>2, <1>4 DEF RingInv, FramesReached
<1> QED BY <1>1, <1>2, <1>3, <1>4

(* A frame that has been complete and is not in its slot any more was      *)
(* overtaken by the whole ring.                                            *)
LEMMA MissedIsOvertaken ==
  ASSUME Typed, RingInv, NEW i \in Inodes, NEW n \in Nat \ {0},
         n <= Completed(i), ~Stable(i, n)
  PROVE  counter[i] >= n + SlotCount
<1>1. seq[i][SlotOf(n)] \in Nat /\ seq[i][SlotOf(n)] > 2 * n
  BY CompletedReached DEF Stable
<1>2. SlotOf(n) \in Slots /\ counter[i] \in Nat
  BY SlotType, CompletedType
<1>3. PICK m \in 1..counter[i] :
        SlotOf(m) = SlotOf(n) /\ seq[i][SlotOf(n)] \in {2 * m - 1, 2 * m}
  BY <1>1, <1>2 DEF RingInv, SlotHolds
<1>4. m > n
  BY <1>1, <1>2, <1>3
<1>5. m >= n + SlotCount
  BY <1>2, <1>3, <1>4, NextInSlot
<1> QED BY <1>2, <1>5 DEF SlotCount

(* A frame that is still stable in its slot is one of the newest.          *)
LEMMA StableIsRecent ==
  ASSUME Typed, RingInv, NEW i \in Inodes, NEW n \in Nat, Stable(i, n)
  PROVE  counter[i] < n + SlotCount
<1>1. counter[i] \in Nat
  BY CompletedType
<1> SUFFICES ASSUME counter[i] >= n + SlotCount PROVE FALSE
  BY <1>1 DEF SlotCount
<1>2. n + SlotCount \in 1..counter[i]
  BY <1>1 DEF SlotCount
<1>3. seq[i][SlotOf(n + SlotCount)] >= 2 * (n + SlotCount) - 1
  BY <1>2 DEF RingInv, FramesReached
<1>4. seq[i][SlotOf(n)] = 2 * n
  BY DEF Stable
<1> QED BY <1>3, <1>4, SameSlot DEF SlotCount

-----------------------------------------------------------------------------
(* What a step of the helper does to the ring as a reader sees it.         *)

LEMMA HookLeavesRing ==
  ASSUME Hook \/ UNCHANGED vars
  PROVE  UNCHANGED <<path, born, total, seq, data, counter, helper, mine, written>>
  BY DEF Hook, Feeding, KeepMap, OpenPath, OpenFails, LoadTotal, LoadSeq,
         Older, CopyPart, Draw, Retry, Reads, vars, pathVars, memory, helperVars

LEMMA HelperLeavesHook ==
  ASSUME Helper
  PROVE  UNCHANGED <<feed, map, want, tries, snapshot, copied, shown>>
  BY DEF Helper, Publishing, Spawn, Setup, Retire, BeginFrame, WritePart, EndFrame,
         Publish, Finish, Unlink, FinishDirect, Die, readVars

(* Frames are completed one at a time, by EndFrame.                        *)
LEMMA CompletedBegin ==
  ASSUME Typed, RingInv, BeginFrame, NEW i \in Inodes
  PROVE  counter'[i] >= counter[i] /\ Completed(i)' = Completed(i)
<1>1. mine \in Inodes /\ Current \in Nat /\ Current = counter[mine]
      /\ SlotOf(Current + 1) \in Slots
  BY MineType, CurrentType DEF BeginFrame, Current
<1>2. counter'[i] = IF i = mine THEN Current + 1 ELSE counter[i]
  BY <1>1 DEF BeginFrame, Typed, TypeOK
<1>3. \A s \in Slots :
        seq'[i][s] = IF i = mine /\ s = SlotOf(Current + 1) THEN 2 * (Current + 1) - 1
                                                           ELSE seq[i][s]
  BY <1>1 DEF BeginFrame, Typed, TypeOK
<1>4. CASE i = mine
  <2>1. Completed(i) = Current
    BY <1>1, <1>4 DEF BeginFrame, RingInv, HelperInv, Completed
  <2>2. seq'[i][SlotOf(Current + 1)] # 2 * (Current + 1)
    BY <1>1, <1>3, <1>4
  <2>3. Completed(i)' = Current
    BY <1>1, <1>2, <1>4, <2>2 DEF Completed, Stable
  <2> QED BY <1>1, <1>2, <1>4, <2>1, <2>3
<1>5. CASE i # mine
  <2>1. counter'[i] = counter[i] /\ counter[i] \in Nat /\ SlotOf(counter[i]) \in Slots
    BY <1>2, <1>5, SlotType, CompletedType
  <2> QED BY <1>3, <1>5, <2>1 DEF Completed, Stable
<1> QED BY <1>4, <1>5

LEMMA CompletedEnd ==
  ASSUME Typed, RingInv, EndFrame, NEW i \in Inodes
  PROVE  /\ counter'[i] = counter[i] /\ mine \in Inodes
         /\ Completed(i)' = IF i = mine THEN Completed(i) + 1 ELSE Completed(i)
<1>1. mine \in Inodes /\ Current \in Nat /\ Current = counter[mine]
      /\ CurrentSlot \in Slots /\ CurrentSlot = SlotOf(Current)
  BY MineType, CurrentType DEF EndFrame, Current, CurrentSlot, Typed, Attached
<1>2. counter' = counter
  BY DEF EndFrame
<1>3. \A s \in Slots :
        seq'[i][s] = IF i = mine /\ s = CurrentSlot THEN 2 * Current ELSE seq[i][s]
  BY <1>1 DEF EndFrame, Typed, TypeOK
<1>4. seq[mine][CurrentSlot] = 2 * Current - 1
  BY DEF EndFrame, RingInv, HelperInv
<1>5. CASE i = mine
  <2>1. ~Stable(i, Current)
    BY <1>1, <1>4, <1>5 DEF Stable
  <2>2. Completed(i) = Current - 1
    BY <1>1, <1>5, <2>1 DEF Completed
  <2>3. seq'[i][SlotOf(Current)] = 2 * Current
    BY <1>1, <1>3, <1>5
  <2>4. Completed(i)' = Current
    BY <1>1, <1>2, <1>5, <2>3 DEF Completed, Stable
  <2> QED BY <1>1, <1>2, <1>5, <2>2, <2>4
<1>6. CASE i # mine
  <2>1. counter[i] \in Nat /\ SlotOf(counter[i]) \in Slots
    BY SlotType, CompletedType
  <2> QED BY <1>1, <1>2, <1>3, <1>6, <2>1 DEF Completed, Stable
<1> QED BY <1>5, <1>6

LEMMA CompletedKept ==
  ASSUME [Next]_vars, ~BeginFrame, ~EndFrame
  PROVE  /\ UNCHANGED <<counter, seq>>
         /\ \A i \in Inodes : Completed(i)' = Completed(i)
<1>1. UNCHANGED <<counter, seq>>
  <2>1. CASE Helper
    BY <2>1 DEF Helper, Publishing, Spawn, Setup, Retire, WritePart, Publish,
                Finish, Unlink, FinishDirect, Die, memory
  <2> QED BY <2>1, HookLeavesRing DEF Next
<1> QED BY <1>1 DEF Completed, Stable

(* Both facts at once, for any step.                                       *)
LEMMA Grows ==
  ASSUME Typed, RingInv, [Next]_vars, NEW i \in Inodes
  PROVE  /\ counter[i] \in Nat /\ counter'[i] \in Nat /\ counter'[i] >= counter[i]
         /\ Completed(i) \in Int /\ Completed(i)' \in Int
         /\ Completed(i)' >= Completed(i)
<1>1. Typed'
  BY TypeStep
<1>2. counter[i] \in Nat /\ Completed(i) \in Int
  BY CompletedType
<1>3. counter'[i] \in Nat /\ Completed(i)' \in Int
  BY <1>1, CompletedType DEF Typed, TypeOK, Completed
<1>4. CASE BeginFrame
  BY <1>2, <1>3, <1>4, CompletedBegin
<1>5. CASE EndFrame
  BY <1>2, <1>3, <1>5, CompletedEnd
<1>6. CASE ~BeginFrame /\ ~EndFrame
  BY <1>2, <1>3, <1>6, CompletedKept
<1> QED BY <1>4, <1>5, <1>6

(* A frame that was overwritten never comes back.                          *)
LEMMA GoneForGood ==
  ASSUME Typed, RingInv, [Next]_vars, NEW i \in Inodes, NEW n \in Nat \ {0},
         n <= Completed(i), Stable(i, n)'
  PROVE  Stable(i, n)
<1> SUFFICES ASSUME ~Stable(i, n) PROVE FALSE
  OBVIOUS
<1>1. counter[i] >= n + SlotCount
  BY MissedIsOvertaken
<1>2. Typed' /\ RingInv'
  BY TypeStep, RingStep
<1>3. counter'[i] >= n + SlotCount
  BY <1>1, Grows DEF SlotCount
<1>4. n + SlotCount \in 1..counter'[i]
  BY <1>3, Grows DEF SlotCount
<1>5. seq'[i][SlotOf(n + SlotCount)] >= 2 * (n + SlotCount) - 1
  BY <1>2, <1>4 DEF RingInv, FramesReached
<1>6. seq'[i][SlotOf(n)] = 2 * n
  BY DEF Stable
<1> QED BY <1>5, <1>6, SameSlot DEF SlotCount

-----------------------------------------------------------------------------
(* The header.                                                             *)

LEMMA TotalStep ==
  ASSUME Typed, RingInv, [Next]_vars, NEW i \in Inodes
  PROVE  \/ total'[i] = total[i]
         \/ total'[i] = 0
         \/ total'[i] = Completed(i) /\ Completed(i)' = Completed(i)
<1>1. CASE Retire \/ Finish
  BY <1>1 DEF Retire, Finish, Typed, TypeOK
<1>2. CASE Publish
  <2>1. mine \in Inodes /\ total'[i] = IF i = mine THEN Current ELSE total[i]
    BY <1>2, MineType DEF Publish, Typed, TypeOK, Attached
  <2>2. Completed(mine) = Current
    BY <1>2, <2>1, RingAssumption
       DEF Publish, RingInv, HelperInv, Completed, Current, Inodes
  <2>3. Completed(i)' = Completed(i)
    BY <1>2 DEF Publish, Completed, Stable
  <2> QED BY <2>1, <2>2, <2>3
<1>3. CASE ~(Retire \/ Finish \/ Publish)
  <2>1. total' = total
    <3>1. CASE Helper
      BY <1>3, <3>1 DEF Helper, Publishing, Spawn, Setup, BeginFrame, WritePart,
                        EndFrame, Unlink, FinishDirect, Die, memory
    <3> QED BY <3>1, HookLeavesRing DEF Next
  <2> QED BY <2>1
<1> QED BY <1>1, <1>2, <1>3

AnnouncedInv == RingInv /\ AnnouncedIsComplete

LEMMA AnnouncedStep ==
  ASSUME Typed, AnnouncedInv, [Next]_vars PROVE AnnouncedInv'
<1>1. RingInv'
  BY RingStep DEF AnnouncedInv
<1>2. ASSUME NEW i \in Inodes PROVE total'[i] <= Completed(i)'
  <2>1. /\ \/ total'[i] = total[i]
           \/ total'[i] = 0
           \/ total'[i] = Completed(i) /\ Completed(i)' = Completed(i)
        /\ Completed(i)' >= Completed(i)
        /\ Completed(i) \in Int /\ Completed(i)' \in Int
    BY TotalStep, Grows DEF AnnouncedInv
  <2>2. total[i] <= Completed(i) /\ total[i] \in Nat
    BY DEF AnnouncedInv, AnnouncedIsComplete, Typed, TypeOK
  <2> QED BY <2>1, <2>2
<1> QED BY <1>1, <1>2 DEF AnnouncedInv, AnnouncedIsComplete

LEMMA AnnouncedInit == Init => AnnouncedInv
<1> SUFFICES ASSUME Init PROVE AnnouncedInv
  OBVIOUS
<1>1. RingInv /\ Typed
  BY RingInit, TypeInit
<1>2. ASSUME NEW i \in Inodes PROVE total[i] <= Completed(i)
  <2>1. counter[i] = 0 /\ total[i] = 0
    BY DEF Init
  <2>2. Stable(i, 0)
    BY <1>1, <2>1, EmptyIsStable DEF RingInv
  <2> QED BY <2>1, <2>2 DEF Completed
<1> QED BY <1>1, <1>2 DEF AnnouncedInv, AnnouncedIsComplete

(* The header never runs ahead of the slots.                               *)
THEOREM AnnouncedCorrect == Spec => []AnnouncedIsComplete
<1>1. Init => Typed /\ AnnouncedInv
  BY TypeInit, AnnouncedInit
<1>2. Typed /\ AnnouncedInv /\ [Next]_vars => Typed' /\ AnnouncedInv'
  BY TypeStep, AnnouncedStep
<1>3. AnnouncedInv => AnnouncedIsComplete
  BY DEF AnnouncedInv
<1> QED BY <1>1, <1>2, <1>3, PTL DEF Spec

-----------------------------------------------------------------------------
(* The capture call.  The frame it wants has been complete and announced;  *)
(* what it has copied is of that frame, or the slot has moved on and the   *)
(* second look at the sequence number will tell.                           *)

Reading == feed \in {"try", "older", "copy"}

WantInv ==
    Reading => /\ want <= Completed(map)
               /\ total[map] = 0 \/ want <= total[map]

CopyInv ==
    feed = "copy" /\ Stable(map, want) => \A p \in copied : snapshot[p] = want

ReadInv == WantInv /\ CopyInv /\ OvertakenByTheRing

LEMMA WantType ==
  Typed /\ Reading => want \in Nat \ {0} /\ map \in Inodes
  BY MapType DEF Reading, Typed, TypeOK, Attached

LEMMA ReadHelper ==
  ASSUME Typed, AnnouncedInv, ReadInv, [Next]_vars,
         UNCHANGED <<feed, map, want, snapshot, copied>>
  PROVE  ReadInv'
<1> SUFFICES ASSUME Reading PROVE ReadInv'
  BY DEF ReadInv, WantInv, CopyInv, OvertakenByTheRing, Reading
<1>1. want \in Nat \ {0} /\ map \in Inodes
  BY WantType
<1>2. RingInv /\ want <= Completed(map)
  BY DEF AnnouncedInv, ReadInv, WantInv
<1>3. /\ counter[map] \in Nat /\ counter'[map] \in Nat /\ counter'[map] >= counter[map]
      /\ Completed(map) \in Int /\ Completed(map)' \in Int
      /\ Completed(map)' >= Completed(map)
  <2>1. \A i \in Inodes : i = map => Completed(i)' = Completed(map)'
    BY DEF Completed, Stable
  <2> QED BY <1>1, <1>2, <2>1, Grows
<1>4. WantInv'
  <2>1. want' <= Completed(map)'
    BY <1>1, <1>2, <1>3
  <2>2. \/ total'[map] = total[map]
        \/ total'[map] = 0
        \/ total'[map] = Completed(map)
    BY <1>1, <1>2, TotalStep
  <2>3. total'[map'] = 0 \/ want' <= total'[map']
    BY <1>1, <1>2, <2>2 DEF ReadInv, WantInv
  <2> QED BY <2>1, <2>3 DEF WantInv
<1>5. CopyInv'
  <2> SUFFICES ASSUME feed = "copy", Stable(map, want)' PROVE \A p \in copied : snapshot[p] = want
    BY DEF CopyInv
  <2>1. ASSUME NEW i \in Inodes, i = map PROVE Stable(i, want)
    <3>1. \A n \in Nat : n = want => Stable(i, n)'
      BY <2>1 DEF Stable
    <3> QED BY <1>1, <1>2, <2>1, <3>1, GoneForGood
  <2>2. Stable(map, want)
    BY <1>1, <2>1
  <2> QED BY <2>2 DEF ReadInv, CopyInv
<1>6. OvertakenByTheRing'
  BY <1>1, <1>3 DEF ReadInv, OvertakenByTheRing, SlotCount
<1> QED BY <1>4, <1>5, <1>6 DEF ReadInv

LEMMA ReadHook ==
  ASSUME Typed, AnnouncedInv, ReadInv, Hook PROVE ReadInv'
<1>1. UNCHANGED <<total, seq, data, counter>>
  BY HookLeavesRing
<1>2. RingInv /\ AnnouncedIsComplete
  BY DEF AnnouncedInv
<1>3. CASE KeepMap \/ OpenPath \/ OpenFails \/ Draw
  <2>1. feed' \in {"idle", "total"}
    BY <1>3 DEF KeepMap, OpenPath, OpenFails, Draw
  <2> QED BY <2>1 DEF ReadInv, WantInv, CopyInv, OvertakenByTheRing, Reading
<1>4. CASE LoadTotal
  <2>1. want' = total[map] /\ map' = map /\ feed' \in {"idle", "try"} /\ map \in Inodes
    BY <1>4, MapType DEF LoadTotal
  <2>2. total[map] <= Completed(map) /\ total[map] \in Nat
    BY <1>2, <2>1 DEF AnnouncedIsComplete, Typed, TypeOK
  <2>3. Completed(map)' = Completed(map)
    BY <1>1, <2>1 DEF Completed, Stable
  <2>4. WantInv'
    BY <1>1, <2>1, <2>2, <2>3 DEF WantInv
  <2> QED BY <2>1, <2>4 DEF ReadInv, CopyInv, OvertakenByTheRing
<1>5. ASSUME Reading, UNCHANGED map, want' \in Nat \ {0}, want' <= want PROVE WantInv'
  <2>1. Completed(map)' = Completed(map)
    BY <1>1, <1>5 DEF Completed, Stable
  <2>2. want \in Nat /\ map \in Inodes /\ Completed(map) \in Int /\ total[map] \in Nat
    BY <1>5, WantType, CompletedType DEF Typed, TypeOK
  <2> QED BY <1>1, <1>5, <2>1, <2>2 DEF ReadInv, WantInv
<1>6. CASE LoadSeq
  <2>1. Reading /\ UNCHANGED <<map, want>> /\ copied' = {} /\ want \in Nat \ {0}
        /\ map \in Inodes
    BY <1>6, WantType DEF LoadSeq, Reading
  <2>2. WantInv'
    BY <1>5, <2>1
  <2>3. CopyInv'
    BY <2>1 DEF CopyInv
  <2>4. OvertakenByTheRing'
    <3>1. CASE Stable(map, want)
      BY <1>6, <3>1 DEF LoadSeq, OvertakenByTheRing
    <3>2. CASE ~Stable(map, want)
      <4>1. want <= Completed(map)
        BY <2>1 DEF ReadInv, WantInv
      <4>2. counter[map] >= want + SlotCount
        BY <1>2, <2>1, <3>2, <4>1, MissedIsOvertaken
      <4> QED BY <1>1, <2>1, <4>2 DEF OvertakenByTheRing
    <3> QED BY <3>1, <3>2
  <2> QED BY <2>2, <2>3, <2>4 DEF ReadInv
<1>7. CASE Older
  <2>1. Reading /\ UNCHANGED map /\ want \in Nat \ {0} /\ total[map] \in Nat
        /\ want' = OlderFrame(total[map])
    BY <1>7, WantType DEF Older, Reading, Typed, TypeOK
  <2>2. want' \in Nat /\ want' <= want
    BY <2>1 DEF OlderFrame
  <2>3. feed' = "idle" \/ (feed' = "try" /\ want' # 0)
    <3>1. CASE want' = 0
      BY <1>7, <3>1 DEF Older
    <3>2. CASE want' # 0
      BY <1>7, <3>2 DEF Older, Again
    <3> QED BY <3>1, <3>2
  <2>4. WantInv'
    BY <1>5, <2>1, <2>2, <2>3 DEF WantInv, Reading
  <2> QED BY <2>3, <2>4 DEF ReadInv, CopyInv, OvertakenByTheRing
<1>8. CASE Retry
  <2>1. Reading /\ UNCHANGED <<map, want>> /\ want \in Nat \ {0}
    BY <1>8, WantType DEF Retry, Reading
  <2>2. feed' \in {"idle", "try"}
    BY <1>8 DEF Retry, Again
  <2>3. WantInv'
    BY <1>5, <2>1
  <2> QED BY <2>2, <2>3 DEF ReadInv, CopyInv, OvertakenByTheRing
<1>9. ASSUME NEW p \in Parts, CopyPart(p) PROVE ReadInv'
  <2>1. Reading /\ UNCHANGED <<map, want, feed>> /\ want \in Nat \ {0} /\ map \in Inodes
        /\ feed = "copy" /\ copied' = copied \cup {p}
    BY <1>9, WantType DEF CopyPart, Reading
  <2>2. WantInv'
    BY <1>5, <2>1
  <2>3. ASSUME Stable(map, want) PROVE \A q \in copied' : snapshot'[q] = want
    <3>1. data[map][SlotOf(want)] = Whole(want)
      BY <1>2, <2>1, <2>3, SlotType DEF RingInv, StableIsWhole, Stable
    <3>2. snapshot' = [snapshot EXCEPT ![p] = want]
      BY <1>9, <3>1 DEF CopyPart, Whole
    <3>3. snapshot \in [Parts -> Nat] /\ copied \subseteq Parts
      BY DEF Typed, TypeOK
    <3>4. \A q \in copied : snapshot[q] = want
      BY <2>1, <2>3 DEF ReadInv, CopyInv
    <3> QED BY <2>1, <3>2, <3>3, <3>4
  <2>4. CopyInv'
    BY <1>1, <2>1, <2>3 DEF CopyInv, Stable
  <2> QED BY <2>1, <2>2, <2>4 DEF ReadInv, OvertakenByTheRing
<1> QED
  BY <1>3, <1>4, <1>6, <1>7, <1>8, <1>9 DEF Hook, Feeding

FeedInv == AnnouncedInv /\ ReadInv

LEMMA FeedInit == Init => FeedInv
  BY AnnouncedInit
     DEF Init, FeedInv, ReadInv, WantInv, CopyInv, OvertakenByTheRing, Reading

LEMMA FeedStep == ASSUME Typed, FeedInv, [Next]_vars PROVE FeedInv'
<1>1. CASE Helper
  BY <1>1, AnnouncedStep, ReadHelper, HelperLeavesHook DEF FeedInv
<1>2. CASE Hook
  BY <1>2, AnnouncedStep, ReadHook DEF FeedInv
<1>3. CASE UNCHANGED vars
  BY <1>3, AnnouncedStep, ReadHelper DEF FeedInv, vars
<1> QED BY <1>1, <1>2, <1>3 DEF Next

(* A capture call that misses its frame was overtaken by a whole ring, so  *)
(* that no older frame is left for it to find.                             *)
THEOREM OvertakenCorrect == Spec => []OvertakenByTheRing
<1>1. Init => Typed /\ FeedInv
  BY TypeInit, FeedInit
<1>2. Typed /\ FeedInv /\ [Next]_vars => Typed' /\ FeedInv'
  BY TypeStep, FeedStep
<1>3. FeedInv => OvertakenByTheRing
  BY DEF FeedInv, ReadInv
<1> QED BY <1>1, <1>2, <1>3, PTL DEF Spec

-----------------------------------------------------------------------------
(* The picture.  It is a whole frame, and the call in progress, if it      *)
(* reads the same file, wants a frame no older or has been overtaken.      *)

ShownAs(n) ==
    /\ shown.parts = Whole(n)
    /\ shown.inode # 0 =>
          /\ n <= Completed(shown.inode)
          /\ total[shown.inode] = 0 \/ n <= total[shown.inode]
    /\ shown.inode # 0 /\ Reading /\ map = shown.inode =>
          n <= want \/ counter[map] >= want + SlotCount

ShownInv == \E n \in Nat : ShownAs(n)

LEMMA ShownInit == Init => ShownInv
  BY DEF Init, ShownInv, ShownAs, NoPicture, Reading

(* The frame a call draws is whole.                                        *)
LEMMA DrawsWhole ==
  ASSUME Typed, FeedInv, Draw
  PROVE  /\ want \in Nat \ {0} /\ map \in Inodes /\ want <= Completed(map)
         /\ counter[map] < want + SlotCount
         /\ shown' = [inode |-> map, parts |-> Whole(want)]
<1>1. feed = "copy" /\ copied = Parts /\ Stable(map, want)
      /\ shown' = [inode |-> map, parts |-> snapshot]
  BY DEF Draw, Accepts
<1>2. want \in Nat \ {0} /\ map \in Inodes /\ want <= Completed(map)
  BY <1>1, WantType DEF Reading, FeedInv, ReadInv, WantInv
<1>3. snapshot = Whole(want)
  <2>1. snapshot \in [Parts -> Nat] /\ \A p \in Parts : snapshot[p] = want
    BY <1>1 DEF Typed, TypeOK, FeedInv, ReadInv, CopyInv
  <2> QED BY <2>1 DEF Whole
<1>4. counter[map] < want + SlotCount
  BY <1>1, <1>2, StableIsRecent DEF FeedInv, AnnouncedInv
<1> QED BY <1>1, <1>2, <1>3, <1>4

LEMMA ShownHook ==
  ASSUME Typed, FeedInv, NEW n \in Nat, ShownAs(n), Hook, ~Draw PROVE ShownAs(n)'
<1>1. UNCHANGED <<total, seq, data, counter>>
  BY HookLeavesRing
<1>2. shown' = shown
  BY DEF Hook, Feeding, KeepMap, OpenPath, OpenFails, LoadTotal, LoadSeq, Older,
         CopyPart, Retry
<1>3. Completed(shown.inode)' = Completed(shown.inode)
  BY <1>1, <1>2 DEF Completed, Stable
<1> SUFFICES ASSUME shown.inode # 0, Reading', map' = shown.inode
             PROVE  n <= want' \/ counter[map'] >= want' + SlotCount
  BY <1>1, <1>2, <1>3 DEF ShownAs
<1>4. CASE KeepMap \/ OpenPath \/ OpenFails
  BY <1>4 DEF KeepMap, OpenPath, OpenFails, Reading
<1>5. CASE LoadTotal
  <2>1. want' = total[map] /\ map' = map /\ total[map] # 0
    BY <1>5 DEF LoadTotal, Reading
  <2> QED BY <2>1 DEF ShownAs
<1>6. CASE Older
  <2>1. feed = "older" /\ map' = map /\ want' = OlderFrame(total[map])
    BY <1>6 DEF Older
  <2>2. want \in Nat \ {0} /\ map \in Inodes /\ total[map] \in Nat /\ counter[map] \in Nat
    BY <2>1, WantType DEF Reading, Typed, TypeOK
  <2>3. want' \in Nat /\ want' <= want
    BY <2>1, <2>2 DEF OlderFrame
  <2>4. counter[map] >= want + SlotCount
    BY <2>1 DEF FeedInv, ReadInv, OvertakenByTheRing
  <2> QED BY <2>1, <2>2, <2>3, <2>4 DEF SlotCount
<1>7. CASE LoadSeq \/ Retry \/ \E p \in Parts : CopyPart(p)
  <2>1. UNCHANGED <<map, want>> /\ Reading
    BY <1>7 DEF LoadSeq, Retry, CopyPart, Reading
  <2> QED BY <2>1 DEF ShownAs
<1> QED BY <1>4, <1>5, <1>6, <1>7 DEF Hook, Feeding

LEMMA ShownHelper ==
  ASSUME Typed, FeedInv, NEW n \in Nat, ShownAs(n), [Next]_vars,
         UNCHANGED <<feed, map, want, shown>>
  PROVE  ShownAs(n)'
<1>1. RingInv
  BY DEF FeedInv, AnnouncedInv
<1>2. CASE shown.inode = 0
  BY <1>2 DEF ShownAs
<1>3. CASE shown.inode # 0
  <2>1. PICK i \in Inodes : i = shown.inode
    BY <1>3, RingAssumption DEF Typed, TypeOK, Inodes
  <2>2. /\ counter[i] \in Nat /\ counter'[i] \in Nat /\ counter'[i] >= counter[i]
        /\ Completed(i) \in Int /\ Completed(i)' \in Int
        /\ Completed(i)' >= Completed(i)
    BY <1>1, Grows
  <2>3. Completed(shown.inode)' = Completed(i)' /\ Completed(shown.inode) = Completed(i)
    BY <2>1 DEF Completed, Stable
  <2>4. n <= Completed(i) /\ (total[i] = 0 \/ n <= total[i])
    BY <2>1, <2>3, <1>3 DEF ShownAs
  <2>5. total'[i] = 0 \/ n <= total'[i]
    <3>1. total'[i] = total[i] \/ total'[i] = 0 \/ total'[i] = Completed(i)
      BY <1>1, TotalStep
    <3> QED BY <2>4, <3>1
  <2>6. n <= Completed(i)'
    BY <2>2, <2>4
  <2>7. ASSUME Reading, map = i PROVE n <= want \/ counter'[i] >= want + SlotCount
    <3>1. n <= want \/ counter[i] >= want + SlotCount
      BY <1>3, <2>1, <2>7 DEF ShownAs
    <3>2. want \in Nat
      BY DEF Typed, TypeOK
    <3> QED BY <2>2, <3>1, <3>2 DEF SlotCount
  <2> QED BY <2>1, <2>3, <2>5, <2>6, <2>7 DEF ShownAs, Reading
<1> QED BY <1>2, <1>3

LEMMA ShownStep ==
  ASSUME Typed, FeedInv, ShownInv, [Next]_vars PROVE ShownInv'
<1>1. PICK n \in Nat : ShownAs(n)
  BY DEF ShownInv
<1>2. CASE Draw
  <2>1. /\ want \in Nat \ {0} /\ want <= Completed(map)
        /\ shown' = [inode |-> map, parts |-> Whole(want)]
    BY <1>2, DrawsWhole
  <2>2. UNCHANGED <<total, seq, data, counter, map, want>> /\ feed' = "idle"
    BY <1>2 DEF Draw, Reads, memory, helperVars, readVars
  <2>3. total[map] = 0 \/ want <= total[map]
    BY <1>2 DEF Draw, FeedInv, ReadInv, WantInv, Reading
  <2>4. Completed(map)' = Completed(map)
    BY <2>2 DEF Completed, Stable
  <2>5. ShownAs(want)'
    BY <2>1, <2>2, <2>3, <2>4 DEF ShownAs, Reading, Whole, Completed, Stable
  <2> QED BY <2>1, <2>2, <2>5 DEF ShownInv
<1>3. CASE Hook /\ ~Draw
  BY <1>1, <1>3, ShownHook DEF ShownInv
<1>4. CASE Helper
  BY <1>1, <1>4, ShownHelper, HelperLeavesHook DEF ShownInv
<1>5. CASE UNCHANGED vars
  BY <1>1, <1>5, ShownHelper DEF ShownInv, vars
<1> QED BY <1>2, <1>3, <1>4, <1>5 DEF Next

Inv == Typed /\ FeedInv /\ ShownInv

LEMMA InvInit == Init => Inv
  BY TypeInit, FeedInit, ShownInit DEF Inv

LEMMA InvStep == Inv /\ [Next]_vars => Inv'
  BY TypeStep, FeedStep, ShownStep DEF Inv

(* A torn read never reaches the client.                                   *)
THEOREM NoTornFrameCorrect == Spec => []NoTornFrame
<1>1. Inv => NoTornFrame
  BY DEF Inv, ShownInv, ShownAs, NoTornFrame, Whole
<1> QED BY InvInit, InvStep, <1>1, PTL DEF Spec

-----------------------------------------------------------------------------
(* Refinement.                                                             *)

CompletedMap == [i \in Inodes |-> Completed(i)]

LEMMA FeedInitRefines == Init => Feed!FFInit
<1> SUFFICES ASSUME Init PROVE Feed!FFInit
  OBVIOUS
<1>1. Typed /\ SlotHolds
  BY TypeInit, RingInit DEF RingInv
<1>2. ASSUME NEW i \in Inodes PROVE Completed(i) = 0
  <2>1. counter[i] = 0
    BY DEF Init
  <2> QED BY <1>1, <2>1, EmptyIsStable DEF Completed
<1> QED
  BY <1>2 DEF Init, NoPicture, Whole, Feed!FFInit, Feed!NoPicture, Feed!Whole

LEMMA EndFrameRefines ==
  ASSUME Inv, EndFrame PROVE Feed!FFNext
<1>1. RingInv /\ Typed
  BY DEF Inv, FeedInv, AnnouncedInv
<1>2. mine \in Inodes
  BY <1>1, MineType DEF EndFrame, Typed, Attached
<1>3. \A i \in Inodes : Completed(i)' = IF i = mine THEN Completed(i) + 1 ELSE Completed(i)
  BY <1>1, CompletedEnd
<1>4. CompletedMap' = [CompletedMap EXCEPT ![mine] = @ + 1]
  BY <1>2, <1>3 DEF CompletedMap
<1>5. shown' = shown
  BY DEF EndFrame
<1>6. Feed!Complete(mine)
  BY <1>4, <1>5 DEF Feed!Complete, CompletedMap
<1> QED BY <1>2, <1>6 DEF Feed!FFNext

LEMMA DrawRefines ==
  ASSUME Inv, Draw PROVE Feed!FFNext
<1>1. RingInv /\ Typed /\ FeedInv
  BY DEF Inv, FeedInv, AnnouncedInv
<1>2. /\ want \in Nat \ {0} /\ map \in Inodes /\ want <= Completed(map)
      /\ counter[map] < want + SlotCount
      /\ shown' = [inode |-> map, parts |-> Whole(want)]
  BY <1>1, DrawsWhole
<1>3. Completed(map) <= counter[map] /\ Completed(map) \in Int /\ counter[map] \in Nat
  BY <1>1, <1>2, CompletedType
<1>4. UNCHANGED <<seq, counter>>
  BY DEF Draw, Reads, memory, helperVars
<1>5. CompletedMap' = CompletedMap
  BY <1>4 DEF CompletedMap, Completed, Stable
<1>6. ASSUME shown.inode = map PROVE \A p \in Parts : shown.parts[p] <= want
  <2>1. PICK n \in Nat : ShownAs(n)
    BY DEF Inv, ShownInv
  <2>2. n <= want \/ counter[map] >= want + SlotCount
    <3>1. shown.inode # 0 /\ Reading
      BY <1>2, <1>6, RingAssumption DEF Inodes, Draw, Reading
    <3> QED BY <1>6, <2>1, <3>1 DEF ShownAs
  <2>3. n <= want
    BY <1>2, <1>3, <2>2 DEF SlotCount
  <2> QED BY <2>1, <2>3 DEF ShownAs, Whole
<1>7. Completed(map) - SlotCount < want
  BY <1>2, <1>3 DEF SlotCount
<1>8. Feed!Show(map, want)
  BY <1>2, <1>5, <1>6, <1>7 DEF Feed!Show, Feed!Whole, Whole, CompletedMap
<1>9. want \in 1..CompletedMap[map]
  BY <1>2, <1>3 DEF CompletedMap
<1> QED BY <1>2, <1>8, <1>9 DEF Feed!FFNext, CompletedMap

LEMMA RefineStep == Inv /\ [Next]_vars => [Feed!FFNext]_(Feed!ffVars)
<1> SUFFICES ASSUME Inv, [Next]_vars, ~EndFrame, ~Draw PROVE UNCHANGED Feed!ffVars
  BY EndFrameRefines, DrawRefines
<1>1. RingInv /\ Typed
  BY DEF Inv, FeedInv, AnnouncedInv
<1>2. \A i \in Inodes : Completed(i)' = Completed(i)
  BY <1>1, CompletedBegin, CompletedKept
<1>3. CompletedMap' = CompletedMap
  BY <1>2 DEF CompletedMap
<1>4. shown' = shown
  <2>1. CASE Hook
    BY <2>1 DEF Hook, Feeding, KeepMap, OpenPath, OpenFails, LoadTotal, LoadSeq,
                Older, CopyPart, Retry
  <2> QED BY <2>1, HelperLeavesHook DEF Next, vars
<1> QED BY <1>3, <1>4 DEF Feed!ffVars, CompletedMap

(* The ring implements the frame feed: every picture that reaches the      *)
(* client is one whole frame, among the SlotCount newest of its file and   *)
(* never older than the picture before it.                                 *)
THEOREM RingImplementsFrameFeed == Spec => ImplementsFrameFeed
<1> QED
  BY InvInit, InvStep, FeedInitRefines, RefineStep, PTL
     DEF Spec, ImplementsFrameFeed, Feed!FFSpec

-----------------------------------------------------------------------------
(* The bound of a capture call.  An attempt takes at most one step to look *)
(* at the slot, one for each part and one to decide.                       *)

Attempt == Cardinality(Parts) + 2

StepsLeft ==
    CASE feed = "idle"  -> 0
      [] feed = "total" -> MaxTries * Attempt + 1
      [] feed = "try"   -> (MaxTries - tries) * Attempt
      [] feed = "older" -> (MaxTries - tries) * Attempt - 1
      [] feed = "copy"  -> (MaxTries - tries) * Attempt - 1 - Cardinality(copied)

StepsInBounds == feed # "idle" => StepsLeft \in 1..(MaxTries * Attempt + 1)

StepsDecrease ==
    feed # "idle" => \/ Feeding /\ StepsLeft' < StepsLeft
                     \/ Helper /\ StepsLeft' = StepsLeft

LEMMA AttemptType == Attempt \in Nat /\ Attempt >= 2
  BY RingAssumption, FS_CardinalityType DEF Attempt

(* The attempts that are left take at least one more of them.              *)
LEMMA AttemptsLeft ==
  ASSUME NEW t \in 0..MaxTries
  PROVE  /\ (MaxTries - t) * Attempt \in Nat
         /\ (MaxTries - t) * Attempt <= MaxTries * Attempt
         /\ t < MaxTries => (MaxTries - t) * Attempt
                                = (MaxTries - (t + 1)) * Attempt + Attempt
         /\ t < MaxTries => (MaxTries - t) * Attempt >= Attempt
<1>1. MaxTries \in Nat /\ t \in Nat /\ t <= MaxTries /\ Attempt \in Nat
  BY RingAssumption, AttemptType
<1> DEFINE left == MaxTries - t
<1>2. left \in Nat /\ left <= MaxTries
  BY <1>1
<1>3. \A a \in Nat, x \in Nat : a * x \in Nat
  OBVIOUS
<1>4. MaxTries * Attempt = left * Attempt + t * Attempt
  BY <1>1
<1>5. left * Attempt \in Nat /\ t * Attempt \in Nat
  BY <1>1, <1>2, <1>3
<1>6. ASSUME t < MaxTries
      PROVE  /\ left * Attempt = (MaxTries - (t + 1)) * Attempt + Attempt
             /\ (MaxTries - (t + 1)) * Attempt \in Nat
  <2>1. MaxTries - (t + 1) \in Nat /\ left = MaxTries - (t + 1) + 1
    BY <1>1, <1>6
  <2> QED BY <1>1, <1>3, <2>1
<1> QED BY <1>1, <1>4, <1>5, <1>6

LEMMA CopiedType ==
  ASSUME Typed
  PROVE  /\ Cardinality(copied) \in 0..Cardinality(Parts)
         /\ copied = Parts => Cardinality(copied) = Cardinality(Parts)
         /\ \A p \in Parts \ copied : Cardinality(copied \cup {p}) = Cardinality(copied) + 1
<1>1. copied \in SUBSET Parts /\ IsFiniteSet(Parts)
  BY RingAssumption DEF Typed, TypeOK
<1>2. IsFiniteSet(copied) /\ Cardinality(copied) <= Cardinality(Parts)
  BY <1>1, FS_Subset
<1> QED BY <1>1, <1>2, FS_CardinalityType, FS_AddElement

LEMMA StepsType == Typed => StepsInBounds
<1> SUFFICES ASSUME Typed, feed # "idle" PROVE StepsLeft \in 1..(MaxTries * Attempt + 1)
  BY DEF StepsInBounds
<1>1. /\ tries \in 0..MaxTries /\ feed \in {"total", "try", "older", "copy"}
      /\ feed \in {"try", "older", "copy"} => tries < MaxTries
  BY DEF Typed, TypeOK, Attached
<1> DEFINE left == (MaxTries - tries) * Attempt
           all == MaxTries * Attempt
<1>2. left \in Nat /\ left <= all /\ (tries < MaxTries => left >= Attempt)
  BY <1>1, AttemptsLeft
<1>3. all \in Nat
  <2>1. 0 \in 0..MaxTries /\ MaxTries - 0 = MaxTries
    BY RingAssumption
  <2> QED BY <2>1, AttemptsLeft
<1>4. Attempt = Cardinality(Parts) + 2 /\ Cardinality(Parts) \in Nat
      /\ Cardinality(copied) \in 0..Cardinality(Parts)
  BY CopiedType, RingAssumption, FS_CardinalityType DEF Attempt
<1>5. StepsLeft = CASE feed = "total" -> all + 1
                    [] feed = "try"   -> left
                    [] feed = "older" -> left - 1
                    [] feed = "copy"  -> left - 1 - Cardinality(copied)
  BY <1>1 DEF StepsLeft
<1> SUFFICES StepsLeft \in 1..(all + 1)
  OBVIOUS
<1> HIDE DEF left, all
<1> QED BY <1>1, <1>2, <1>3, <1>4, <1>5

(* A call that goes on has used up a whole attempt.                        *)
LEMMA AgainDecreases ==
  ASSUME Typed, Typed', feed \in {"older", "copy"},
         feed = "copy" => copied = Parts,
         \/ feed' = "idle"
         \/ feed' = "try" /\ tries' = tries + 1
  PROVE  StepsLeft' < StepsLeft
<1>1. feed # "idle" /\ StepsLeft \in Nat /\ StepsLeft >= 1
  BY StepsType, AttemptsLeft, RingAssumption, AttemptType DEF StepsInBounds
<1>2. CASE feed' = "idle"
  <2>1. StepsLeft' = 0
    BY <1>2 DEF StepsLeft
  <2> QED BY <1>1, <2>1
<1>3. CASE feed' = "try" /\ tries' = tries + 1
  <2>1. tries \in 0..MaxTries /\ tries < MaxTries /\ tries + 1 \in 0..MaxTries
    BY <1>3, RingAssumption DEF Typed, TypeOK, Attached
  <2> DEFINE left == (MaxTries - tries) * Attempt
             next == (MaxTries - (tries + 1)) * Attempt
  <2>2. left = next + Attempt /\ next \in Nat
    BY <2>1, AttemptsLeft
  <2>3. StepsLeft' = next
    BY <1>3 DEF StepsLeft, Attempt
  <2>4. Attempt = Cardinality(Parts) + 2 /\ Cardinality(Parts) \in Nat
    BY RingAssumption, FS_CardinalityType DEF Attempt
  <2>5. \/ StepsLeft = left - 1
        \/ StepsLeft = left - 1 - Cardinality(Parts)
    <3>1. feed = "copy" => Cardinality(copied) = Cardinality(Parts)
      BY CopiedType
    <3> QED BY <3>1 DEF StepsLeft
  <2> HIDE DEF left, next
  <2> QED BY <2>2, <2>3, <2>4, <2>5
<1> QED BY <1>2, <1>3

LEMMA StepsStep == ASSUME Typed, [Next]_vars PROVE [StepsDecrease]_vars
<1> SUFFICES ASSUME Next, feed # "idle"
             PROVE  \/ Feeding /\ StepsLeft' < StepsLeft
                    \/ Helper /\ StepsLeft' = StepsLeft
  BY DEF StepsDecrease
<1>1. Typed'
  BY TypeStep
<1>2. CASE Helper
  BY <1>2, HelperLeavesHook DEF StepsLeft
<1>3. Hook => Feeding
  BY DEF Hook, KeepMap, OpenPath, OpenFails
<1> DEFINE left == (MaxTries - tries) * Attempt
           all == MaxTries * Attempt
<1>4. StepsLeft \in Nat /\ StepsLeft >= 1
  BY StepsType, AttemptsLeft, RingAssumption, AttemptType DEF StepsInBounds
<1>5. CASE LoadTotal
  <2>1. feed = "total" /\ feed' \in {"idle", "try"} /\ tries' = 0
    BY <1>5 DEF LoadTotal
  <2>2. StepsLeft = all + 1
    BY <2>1 DEF StepsLeft
  <2>3. MaxTries - 0 = MaxTries /\ all \in Nat
    BY RingAssumption, AttemptsLeft
  <2>4. StepsLeft' = 0 \/ StepsLeft' = all
    BY <2>1, <2>3 DEF StepsLeft, Attempt
  <2> HIDE DEF all
  <2> QED BY <1>5, <2>2, <2>3, <2>4 DEF Feeding
<1>6. CASE LoadSeq
  <2>1. feed = "try" /\ feed' \in {"copy", "older"} /\ copied' = {} /\ tries' = tries
    BY <1>6 DEF LoadSeq
  <2>2. Cardinality(copied') = 0
    BY <2>1, FS_EmptySet
  <2>3. tries \in 0..MaxTries
    BY DEF Typed, TypeOK
  <2>4. left \in Nat
    BY <2>3, AttemptsLeft
  <2>5. StepsLeft = left
    BY <2>1 DEF StepsLeft
  <2>6. StepsLeft' = left - 1 \/ StepsLeft' = left - 1 - 0
    BY <2>1, <2>2 DEF StepsLeft, Attempt
  <2> HIDE DEF left
  <2> QED BY <1>6, <2>4, <2>5, <2>6 DEF Feeding
<1>7. CASE Older
  <2>1. feed = "older" /\ (feed' = "idle" \/ (feed' = "try" /\ tries' = tries + 1))
    BY <1>7 DEF Older, Again
  <2> QED BY <1>1, <1>7, <2>1, AgainDecreases DEF Feeding
<1>8. CASE Draw
  <2>1. feed' = "idle"
    BY <1>8 DEF Draw
  <2>2. StepsLeft' = 0
    BY <2>1 DEF StepsLeft
  <2> QED BY <1>4, <1>8, <2>2 DEF Feeding
<1>9. CASE Retry
  <2>1. /\ feed = "copy" /\ copied = Parts
        /\ feed' = "idle" \/ (feed' = "try" /\ tries' = tries + 1)
    BY <1>9 DEF Retry, Again
  <2> QED BY <1>1, <1>9, <2>1, AgainDecreases DEF Feeding
<1>10. ASSUME NEW p \in Parts, CopyPart(p) PROVE Feeding /\ StepsLeft' < StepsLeft
  <2>1. feed = "copy" /\ feed' = "copy" /\ tries' = tries
        /\ p \in Parts \ copied /\ copied' = copied \cup {p}
    BY <1>10 DEF CopyPart
  <2>2. Cardinality(copied') = Cardinality(copied) + 1 /\ Cardinality(copied) \in Nat
    BY <2>1, CopiedType, RingAssumption, FS_CardinalityType
  <2>3. left \in Nat
    BY AttemptsLeft DEF Typed, TypeOK
  <2>4. StepsLeft = left - 1 - Cardinality(copied)
    BY <2>1 DEF StepsLeft
  <2>5. StepsLeft' = left - 1 - Cardinality(copied')
    BY <2>1 DEF StepsLeft, Attempt
  <2> HIDE DEF left
  <2> QED BY <1>10, <2>2, <2>3, <2>4, <2>5 DEF Feeding
<1> QED
  BY <1>2, <1>3, <1>5, <1>6, <1>7, <1>8, <1>9, <1>10 DEF Next, Feeding

(* A capture call takes a bounded number of steps under frame_lock: every  *)
(* step of feed_capture_frame_locked uses up one of the steps it has left, *)
(* and no step of the helper gives one back, however often it overwrites   *)
(* the frame that is copied.  CaptureReturns follows, since the thread     *)
(* inside the call is scheduled again and again.                           *)
THEOREM CaptureIsBounded == Spec => [][StepsDecrease]_vars /\ []StepsInBounds
<1> QED BY TypeInit, TypeStep, StepsType, StepsStep, PTL DEF Spec
=============================================================================
