------------------------ MODULE TerminalService_proofs ------------------------
(* Theorems about the terminal service, for any connections and limits.    *)
EXTENDS TerminalService, FiniteSetTheorems, SequenceTheorems, Integers, TLAPS

(* What a step does to the phases and the slot counter.                    *)

Places == Serving \cup {"out", "refused", "rejected", "failed", "done"}

Stays == UNCHANGED <<active, phase>>
Admitted(p) ==
    phase[p] = "out" /\ active < MaxSessions /\ active' = active + 1 /\ Enter(p, "hello")
Refused(p) == phase[p] = "out" /\ UNCHANGED active /\ Enter(p, "refused")
Moves(p) ==
    phase[p] \in Serving /\ UNCHANGED active /\ \E next \in Serving : Enter(p, next)
Leaves(p) ==
    phase[p] \in Serving /\ \E how \in Places \ (Serving \cup {"out"}) : Leave(p, how)

Shape == Stays \/ \E p \in Peers : Admitted(p) \/ Refused(p) \/ Moves(p) \/ Leaves(p)

LEMMA ShapeOfSteps ==
  ASSUME TypeOK, [Next]_vars
  PROVE  Shape
<1> USE TerminalAssumption
    DEF Shape, Stays, Serving, Places, TypeOK, Abandon, serverVars, shellVars, peerVars
<1>1. ASSUME NEW p \in Peers, Accept(p) PROVE Shape
  BY <1>1 DEF Accept, Full, Admitted, Refused
<1>2. ASSUME NEW p \in Peers, Greeted(p) PROVE Shape
  BY <1>2 DEF Greeted, Moves
<1>3. ASSUME NEW p \in Peers, Rejected(p) PROVE Shape
  BY <1>3 DEF Rejected, Leaves
<1>4. ASSUME NEW p \in Peers, ReadHeader(p) PROVE Shape
  <2>1. PICK kind \in Kinds \cup {"none", "head", "tail", "body", "invalid"} \cup {wire[p][1].of} :
             IF kind = "invalid" THEN Abandon(p)
             ELSE /\ Enter(p, IF kind = "eof" THEN "hangup" ELSE "payload")
                  /\ UNCHANGED active
    BY <1>4 DEF ReadHeader
  <2> QED BY <1>4, <2>1 DEF ReadHeader, Moves, Leaves
<1>5. ASSUME NEW p \in Peers, ReadPayload(p) PROVE Shape
  BY <1>5 DEF ReadPayload, NextFrame, Moves
<1>6. ASSUME NEW p \in Peers, Pause(p) PROVE Shape
  BY <1>6 DEF Pause, PauseInHeader, PauseInPayload, Moves, Leaves
<1>7. ASSUME NEW p \in Peers, EndOfStream(p) PROVE Shape
  BY <1>7 DEF EndOfStream, Moves, Leaves
<1>8. ASSUME NEW p \in Peers, HangUp(p) \/ Reap(p) PROVE Shape
  BY <1>8 DEF HangUp, Reap, Moves
<1>9. ASSUME NEW p \in Peers, Join(p) PROVE Shape
  BY <1>9 DEF Join, Leaves
<1>10. ASSUME NEW p \in Peers,
              \/ OutputEnds(p) \/ ShellExits(p) \/ BackgroundEnds(p) \/ SendChunk(p) \/ Close(p)
              \/ \E kind \in Kinds : NewFrame(p, kind)
       PROVE  Shape
  BY <1>10 DEF OutputEnds, ShellExits, BackgroundEnds, SendChunk, Close, NewFrame
<1>11. ASSUME NEW p \in Peers, Written(p) \/ WriteFails(p) PROVE Shape
  BY <1>11 DEF Written, WriteFails, NextFrame, Moves, Leaves
<1>12. CASE UNCHANGED vars
  BY <1>12 DEF vars
<1> QED BY <1>1, <1>2, <1>3, <1>4, <1>5, <1>6, <1>7, <1>8, <1>9, <1>10, <1>11, <1>12
        DEF Next, Handle

-----------------------------------------------------------------------------
(* The slots.                                                              *)

SlotInv == TypeOK /\ SlotsAreSessions

LEMMA SessionsFinite == IsFiniteSet(Sessions) /\ Cardinality(Sessions) \in Nat
<1>1. Sessions \subseteq Peers
  BY DEF Sessions
<1> QED BY <1>1, TerminalAssumption, FS_Subset, FS_CardinalityType

LEMMA TypeInit == Init => TypeOK
<1> SUFFICES ASSUME Init PROVE TypeOK
  OBVIOUS
<1>1. active \in Nat /\ phase \in [Peers -> Serving \cup {"out", "refused", "rejected", "failed", "done"}]
  BY DEF Init
<1>2. << >> \in Seq(Chunks)
  OBVIOUS
<1> QED BY <1>1, <1>2 DEF Init, TypeOK

LEMMA SlotsInit == Init => SlotsAreSessions
<1> SUFFICES ASSUME Init PROVE SlotsAreSessions
  OBVIOUS
<1>1. Sessions = {}
  BY DEF Init, Sessions, Serving
<1>2. Cardinality({}) = 0
  BY FS_EmptySet
<1> QED BY <1>1, <1>2, TerminalAssumption DEF Init, SlotsAreSessions

LEMMA SlotsStep ==
  ASSUME SlotInv, Shape
  PROVE  SlotsAreSessions' /\ active' \in Nat
<1> USE TerminalAssumption DEF SlotInv, SlotsAreSessions, TypeOK, Sessions, Enter
<1>1. CASE Stays
  BY <1>1 DEF Stays
<1>2. ASSUME NEW p \in Peers, Admitted(p) PROVE SlotsAreSessions' /\ active' \in Nat
  <2>1. Sessions' = Sessions \cup {p} /\ p \notin Sessions
    BY <1>2 DEF Admitted, Serving
  <2> HIDE DEF Sessions
  <2>2. Cardinality(Sessions') = Cardinality(Sessions) + 1
    BY <2>1, SessionsFinite, FS_AddElement
  <2> QED BY <1>2, <2>2, SessionsFinite DEF Admitted
<1>3. ASSUME NEW p \in Peers, Refused(p) PROVE SlotsAreSessions' /\ active' \in Nat
  <2>1. Sessions' = Sessions
    BY <1>3 DEF Refused, Serving
  <2> QED BY <1>3, <2>1 DEF Refused
<1>4. ASSUME NEW p \in Peers, Moves(p) PROVE SlotsAreSessions' /\ active' \in Nat
  <2>1. Sessions' = Sessions
    BY <1>4 DEF Moves
  <2> QED BY <1>4, <2>1 DEF Moves
<1>5. ASSUME NEW p \in Peers, Leaves(p) PROVE SlotsAreSessions' /\ active' \in Nat
  <2>1. Sessions' = Sessions \ {p} /\ p \in Sessions
    BY <1>5 DEF Leaves, Leave
  <2> HIDE DEF Sessions
  <2>2. Cardinality(Sessions') = Cardinality(Sessions) - 1
    BY <2>1, SessionsFinite, FS_RemoveElement
  <2>3. Cardinality(Sessions) # 0
    BY <2>1, SessionsFinite, FS_EmptySet
  <2> QED BY <1>5, <2>2, <2>3, SessionsFinite DEF Leaves, Leave
<1> QED BY <1>1, <1>2, <1>3, <1>4, <1>5 DEF Shape

(* What is sent, on its way and entered.                                   *)
LEMMA FrameType ==
  ASSUME NEW kind \in Kinds, NEW number \in Nat
  PROVE  Frame(kind, number) \in Seq(Chunks)
<1>1. Head1(kind) \in Chunks /\ Head2 \in Chunks /\ Payload(kind, number) \in Chunks
  BY DEF Chunks, Payload
<1> QED BY <1>1 DEF Frame

LEMMA ChunksType ==
  ASSUME TypeOK, [Next]_vars
  PROVE  /\ entered' \in [Peers -> Seq(Chunks)]
         /\ wire' \in [Peers -> Seq(Chunks)] /\ unsent' \in [Peers -> Seq(Chunks)]
         /\ sent' \in Nat /\ typed' \in [Peers -> Nat]
<1> USE DEF TypeOK, serverVars, shellVars, peerVars
<1> DEFINE Typed ==
       /\ entered' \in [Peers -> Seq(Chunks)]
       /\ wire' \in [Peers -> Seq(Chunks)] /\ unsent' \in [Peers -> Seq(Chunks)]
       /\ sent' \in Nat /\ typed' \in [Peers -> Nat]
<1>1. CASE UNCHANGED <<entered, wire, unsent, sent, typed>>
  BY <1>1
<1>2. ASSUME NEW p \in Peers, ReadHeader(p) PROVE Typed
  <2>1. SubSeq(wire[p], 3, Len(wire[p])) \in Seq(Chunks)
    BY <1>2 DEF ReadHeader
  <2> QED BY <1>2, <2>1 DEF ReadHeader
<1>3. ASSUME NEW p \in Peers, ReadPayload(p) \/ Written(p) PROVE Typed
  <2>1. Tail(wire[p]) \in Seq(Chunks) /\ Head(wire[p]) \in Chunks
    BY <1>3 DEF ReadPayload, Written
  <2>2. Append(entered[p], Head(wire[p])) \in Seq(Chunks)
    BY <2>1
  <2> QED BY <1>3, <2>1, <2>2 DEF ReadPayload, Written, NextFrame
<1>4. ASSUME NEW p \in Peers, Pause(p) \/ EndOfStream(p) \/ WriteFails(p) PROVE Typed
  <2>1. wire' = wire \/ wire' = [wire EXCEPT ![p] = << >>]
    BY <1>4 DEF Pause, PauseInHeader, PauseInPayload, EndOfStream, WriteFails
  <2>2. << >> \in Seq(Chunks) /\ wire \in [Peers -> Seq(Chunks)]
    BY DEF TypeOK
  <2>3. wire' \in [Peers -> Seq(Chunks)]
    BY <2>1, <2>2
  <2> QED BY <1>4, <2>3 DEF Pause, EndOfStream, WriteFails
<1>5. ASSUME NEW p \in Peers, NEW kind \in Kinds, NewFrame(p, kind) PROVE Typed
  <2>1. typed' \in [Peers -> Nat] /\ sent' \in Nat
    BY <1>5 DEF NewFrame
  <2>2. Frame(kind, typed'[p]) \in Seq(Chunks)
    BY <2>1, FrameType
  <2> QED BY <1>5, <2>1, <2>2 DEF NewFrame
<1>6. ASSUME NEW p \in Peers, SendChunk(p) PROVE Typed
  <2>1. Tail(unsent[p]) \in Seq(Chunks) /\ Head(unsent[p]) \in Chunks
    BY <1>6 DEF SendChunk
  <2>2. Append(wire[p], Head(unsent[p])) \in Seq(Chunks)
    BY <2>1
  <2> QED BY <1>6, <2>1, <2>2 DEF SendChunk
<1>7. ASSUME NEW p \in Peers,
             \/ Accept(p) \/ Greeted(p) \/ Rejected(p) \/ HangUp(p) \/ Reap(p) \/ Join(p)
             \/ OutputEnds(p) \/ ShellExits(p) \/ BackgroundEnds(p) \/ Close(p)
      PROVE  Typed
  BY <1>1, <1>7 DEF Accept, Greeted, Rejected, HangUp, Reap, Join, OutputEnds, ShellExits,
                    BackgroundEnds, Close
<1>8. CASE UNCHANGED vars
  BY <1>1, <1>8 DEF vars
<1> QED BY <1>2, <1>3, <1>4, <1>5, <1>6, <1>7, <1>8 DEF Next, Handle

LEMMA TypeStep ==
  ASSUME SlotInv, [Next]_vars
  PROVE  TypeOK'
<1>1. active' \in Nat
  BY ShapeOfSteps, SlotsStep DEF SlotInv
<1>2. phase' \in [Peers -> Places]
  <2>1. phase \in [Peers -> Places] /\ Shape
    BY ShapeOfSteps DEF SlotInv, TypeOK, Places
  <2> QED BY <2>1 DEF Shape, Stays, Admitted, Refused, Moves, Leaves, Leave, Enter, Places, Serving
<1>3. /\ reading' \in [Peers -> Kinds \cup {"none"}]
      /\ shell' \in [Peers -> {"none", "live", "exited", "reaped"}]
      /\ output' \in [Peers -> {"none", "on", "off"}]
      /\ background' \in [Peers -> BOOLEAN]
      /\ closed' \in [Peers -> BOOLEAN] /\ cut' \in [Peers -> BOOLEAN]
  <2> USE DEF SlotInv, TypeOK, Abandon, serverVars, shellVars, peerVars
  <2> DEFINE Typed ==
         /\ reading' \in [Peers -> Kinds \cup {"none"}]
         /\ shell' \in [Peers -> {"none", "live", "exited", "reaped"}]
         /\ output' \in [Peers -> {"none", "on", "off"}]
         /\ background' \in [Peers -> BOOLEAN]
         /\ closed' \in [Peers -> BOOLEAN] /\ cut' \in [Peers -> BOOLEAN]
  <2>1. ASSUME NEW p \in Peers, Accept(p) \/ Greeted(p) \/ Rejected(p) PROVE Typed
    BY <2>1 DEF Accept, Greeted, Rejected
  <2>2. ASSUME NEW p \in Peers, ReadHeader(p) PROVE Typed
    <3>1. wire[p][1] \in Chunks
      BY <2>2 DEF ReadHeader
    <3>2. wire[p][1].part = "head" => wire[p][1].of \in Kinds
      BY <3>1 DEF Chunks, Head1, Head2
    <3>3. reading' \in [Peers -> Kinds \cup {"none"}]
      BY <2>2, <3>2 DEF ReadHeader
    <3> QED BY <2>2, <3>3 DEF ReadHeader
  <2>3. ASSUME NEW p \in Peers,
               ReadPayload(p) \/ Written(p) \/ WriteFails(p) \/ EndOfStream(p)
        PROVE  Typed
    BY <2>3 DEF ReadPayload, Written, WriteFails, EndOfStream
  <2>4. ASSUME NEW p \in Peers, Pause(p) PROVE Typed
    BY <2>4 DEF Pause, PauseInHeader, PauseInPayload
  <2>5. ASSUME NEW p \in Peers, HangUp(p) \/ Reap(p) \/ Join(p) PROVE Typed
    BY <2>5 DEF HangUp, Reap, Join
  <2>6. ASSUME NEW p \in Peers, OutputEnds(p) \/ ShellExits(p) \/ BackgroundEnds(p) PROVE Typed
    <3>1. CASE OutputEnds(p)
      BY <3>1 DEF OutputEnds
    <3>2. CASE ShellExits(p)
      <4>1. background' \in [Peers -> BOOLEAN]
        BY <3>2 DEF ShellExits
      <4> QED BY <3>2, <4>1 DEF ShellExits
    <3>3. CASE BackgroundEnds(p)
      BY <3>3 DEF BackgroundEnds
    <3> QED BY <2>6, <3>1, <3>2, <3>3
  <2>7. ASSUME NEW p \in Peers, SendChunk(p) \/ Close(p) \/ \E kind \in Kinds : NewFrame(p, kind)
        PROVE  Typed
    BY <2>7 DEF SendChunk, Close, NewFrame
  <2>8. CASE UNCHANGED vars
    BY <2>8 DEF vars
  <2> QED BY <2>1, <2>2, <2>3, <2>4, <2>5, <2>6, <2>7, <2>8 DEF Next, Handle
<1>4. /\ entered' \in [Peers -> Seq(Chunks)]
      /\ wire' \in [Peers -> Seq(Chunks)] /\ unsent' \in [Peers -> Seq(Chunks)]
      /\ sent' \in Nat /\ typed' \in [Peers -> Nat]
  BY ChunksType DEF SlotInv
<1> QED BY <1>1, <1>2, <1>3, <1>4 DEF TypeOK, Places

LEMMA SlotInvariant == Spec => []SlotInv
<1>1. Init => SlotInv
  BY TypeInit, SlotsInit DEF SlotInv
<1>2. SlotInv /\ [Next]_vars => SlotInv'
  BY ShapeOfSteps, SlotsStep, TypeStep DEF SlotInv
<1> QED BY <1>1, <1>2, PTL DEF Spec

(* The state is well typed.                                                *)
THEOREM TypeCorrect == Spec => []TypeOK
<1>1. SlotInv => TypeOK
  BY DEF SlotInv
<1> QED BY <1>1, SlotInvariant, PTL

(* The counter is the number of sessions under way, on every way out of    *)
(* them, and never more than the limit.                                    *)
THEOREM SlotsCorrect == Spec => []SlotsAreSessions
<1>1. SlotInv => SlotsAreSessions
  BY DEF SlotInv
<1> QED BY <1>1, SlotInvariant, PTL

-----------------------------------------------------------------------------
(* What a session has left behind when it is over.  The output thread of a *)
(* terminal that is still open ends only when the adapter has gone.        *)

Ending ==
    \A p \in Peers :
        /\ phase[p] \in {"join", "done"} => shell[p] = "reaped"
        /\ phase[p] = "done" => output[p] = "off"
        /\ phase[p] \in {"out", "hello"} => shell[p] = "none" /\ output[p] = "none"
        /\ output[p] = "off" /\ ~closed[p] => shell[p] # "live" /\ ~background[p]

LEMMA EndingStep ==
  ASSUME TypeOK, Ending, [Next]_vars
  PROVE  Ending'
<1> USE DEF Ending, TypeOK, Serving, Enter, Leave, Abandon, serverVars, shellVars, peerVars
<1>1. ASSUME NEW p \in Peers, Accept(p) PROVE Ending'
  BY <1>1 DEF Accept
<1>2. ASSUME NEW p \in Peers, Greeted(p) PROVE Ending'
  BY <1>2 DEF Greeted
<1>3. ASSUME NEW p \in Peers, Rejected(p) PROVE Ending'
  BY <1>3 DEF Rejected
<1>4. ASSUME NEW p \in Peers, ReadHeader(p) PROVE Ending'
  <2>1. phase[p] = "header" /\ phase' \in {[phase EXCEPT ![p] = x] : x \in {"failed", "hangup", "payload"}}
    BY <1>4 DEF ReadHeader
  <2> QED BY <1>4, <2>1 DEF ReadHeader
<1>5. ASSUME NEW p \in Peers, ReadPayload(p) \/ Written(p) \/ WriteFails(p) PROVE Ending'
  BY <1>5 DEF ReadPayload, Written, WriteFails, NextFrame
<1>6. ASSUME NEW p \in Peers, Pause(p) PROVE Ending'
  BY <1>6 DEF Pause, PauseInHeader, PauseInPayload
<1>7. ASSUME NEW p \in Peers, EndOfStream(p) PROVE Ending'
  BY <1>7 DEF EndOfStream
<1>8. ASSUME NEW p \in Peers, HangUp(p) PROVE Ending'
  BY <1>8 DEF HangUp
<1>9. ASSUME NEW p \in Peers, Reap(p) PROVE Ending'
  BY <1>9 DEF Reap
<1>10. ASSUME NEW p \in Peers, Join(p) PROVE Ending'
  BY <1>10 DEF Join
<1>11. ASSUME NEW p \in Peers, OutputEnds(p) PROVE Ending'
  BY <1>11 DEF OutputEnds, Open
<1>12. ASSUME NEW p \in Peers, ShellExits(p) PROVE Ending'
  BY <1>12 DEF ShellExits
<1>13. ASSUME NEW p \in Peers, BackgroundEnds(p) PROVE Ending'
  BY <1>13 DEF BackgroundEnds
<1>14. ASSUME NEW p \in Peers, Close(p) PROVE Ending'
  BY <1>14 DEF Close
<1>15. ASSUME NEW p \in Peers, SendChunk(p) \/ \E kind \in Kinds : NewFrame(p, kind)
       PROVE  Ending'
  BY <1>15 DEF SendChunk, NewFrame
<1>16. CASE UNCHANGED vars
  BY <1>16 DEF vars
<1> QED BY <1>1, <1>2, <1>3, <1>4, <1>5, <1>6, <1>7, <1>8, <1>9, <1>10, <1>11, <1>12,
           <1>13, <1>14, <1>15, <1>16 DEF Next, Handle

(* A session that ended in the regular way has reaped its shell and its    *)
(* output thread, and nothing holds its terminal unless the adapter went.  *)
THEOREM DoneCorrect == Spec => []DoneLeavesNoShell
<1>1. Init => Ending
  BY DEF Init, Ending
<1>2. TypeOK /\ Ending /\ [Next]_vars => Ending'
  BY EndingStep
<1>3. TypeOK /\ Ending => DoneLeavesNoShell
  BY DEF TypeOK, Ending, DoneLeavesNoShell
<1> QED BY <1>1, <1>2, <1>3, TypeCorrect, PTL DEF Spec
-----------------------------------------------------------------------------
(* Keystrokes.  What is on its way or still to be sent is one stream of    *)
(* whole frames, at the place where the service is in it, and the          *)
(* keystrokes in it are those typed and not yet entered, in their order.   *)

Stream(p) == wire[p] \o unsent[p]
Data(s, i) == i \in 1..Len(s) /\ s[i].part = "body" /\ s[i].of = "data"

Framed(s) ==
    \A i \in 1..Len(s) : s[i].part = "head" =>
        /\ i + 1 <= Len(s) /\ s[i + 1].part = "tail"
        /\ s[i].of = "eof" => (i + 2 <= Len(s) => s[i + 2].part = "head")
        /\ s[i].of # "eof" =>
             /\ i + 2 <= Len(s) /\ s[i + 2].part = "body" /\ s[i + 2].of = s[i].of
             /\ i + 3 <= Len(s) => s[i + 3].part = "head"

Aligned(s, place, kind) ==
    /\ place = "header" => (1 <= Len(s) => s[1].part = "head")
    /\ place \in {"payload", "write"} =>
          /\ 1 <= Len(s) /\ s[1].part = "body" /\ s[1].of = kind
          /\ 2 <= Len(s) => s[2].part = "head"

Ordered(s, from, to) ==
    /\ from <= to
    /\ \A i \in 1..Len(s) : Data(s, i) => s[i].number \in (from + 1)..to
    /\ \A i, j \in 1..Len(s) :
          Data(s, i) /\ Data(s, j) /\ i < j => s[i].number < s[j].number
    /\ \A n \in (from + 1)..to : \E i \in 1..Len(s) : Data(s, i) /\ s[i].number = n

Flowing(p) ==
    /\ \A i \in 1..Len(entered[p]) : entered[p][i] = Payload("data", i)
    /\ phase[p] \in {"out", "hello"} =>
          entered[p] = << >> /\ wire[p] = << >> /\ unsent[p] = << >> /\ typed[p] = 0
    /\ phase[p] = "write" => reading[p] = "data"
    /\ phase[p] \in Reading =>
          /\ Framed(Stream(p)) /\ Aligned(Stream(p), phase[p], reading[p])
          /\ Ordered(Stream(p), Len(entered[p]), typed[p])

Flow == \A p \in Peers : ~cut[p] => Flowing(p)

(* What is left of a stream whose first chunks were read.                  *)
Shortened(s, t, k) == Len(s) = Len(t) + k /\ \A i \in 1..Len(t) : t[i] = s[i + k]

LEMMA ShortenedFramed ==
  ASSUME NEW s \in Seq(Chunks), NEW t \in Seq(Chunks), NEW k \in Nat,
         Shortened(s, t, k), Framed(s)
  PROVE  Framed(t)
<1> SUFFICES ASSUME NEW i \in 1..Len(t), t[i].part = "head"
             PROVE  /\ i + 1 <= Len(t) /\ t[i + 1].part = "tail"
                    /\ t[i].of = "eof" => (i + 2 <= Len(t) => t[i + 2].part = "head")
                    /\ t[i].of # "eof" =>
                         /\ i + 2 <= Len(t) /\ t[i + 2].part = "body" /\ t[i + 2].of = t[i].of
                         /\ i + 3 <= Len(t) => t[i + 3].part = "head"
  BY DEF Framed
<1>1. Len(s) \in Nat /\ Len(t) \in Nat /\ Len(s) = Len(t) + k
  BY LenProperties DEF Shortened
<1>2. \A j \in 0..3 : i + j <= Len(t) => t[i + j] = s[i + j + k] /\ i + j + k = (i + k) + j
  BY <1>1 DEF Shortened
<1> DEFINE h == i + k
<1>3. h \in 1..Len(s) /\ s[h].part = "head" /\ s[h].of = t[i].of
  BY <1>1, <1>2
<1>4. /\ h + 1 <= Len(s) /\ s[h + 1].part = "tail"
      /\ s[h].of = "eof" => (h + 2 <= Len(s) => s[h + 2].part = "head")
      /\ s[h].of # "eof" =>
           /\ h + 2 <= Len(s) /\ s[h + 2].part = "body" /\ s[h + 2].of = s[h].of
           /\ h + 3 <= Len(s) => s[h + 3].part = "head"
  BY <1>3 DEF Framed
<1>5. \A j \in 1..3 : /\ i + j <= Len(t) <=> h + j <= Len(s)
                      /\ i + j <= Len(t) => t[i + j] = s[h + j]
  <2> TAKE j \in 1..3
  <2>1. i + j <= Len(t) <=> h + j <= Len(s)
    BY <1>1
  <2>2. i + j + k = h + j
    BY <1>1
  <2>3. i + j <= Len(t) => t[i + j] = s[i + j + k]
    <3>1. j \in 0..3
      OBVIOUS
    <3> QED BY <1>2, <3>1
  <2> HIDE DEF h
  <2> QED BY <2>1, <2>2, <2>3
<1>6. /\ (i + 1 <= Len(t) <=> h + 1 <= Len(s)) /\ (i + 1 <= Len(t) => t[i + 1] = s[h + 1])
      /\ (i + 2 <= Len(t) <=> h + 2 <= Len(s)) /\ (i + 2 <= Len(t) => t[i + 2] = s[h + 2])
      /\ (i + 3 <= Len(t) <=> h + 3 <= Len(s)) /\ (i + 3 <= Len(t) => t[i + 3] = s[h + 3])
  <2> HIDE DEF h
  <2> QED BY <1>5
<1> HIDE DEF h
<1> QED BY <1>3, <1>4, <1>6, Zenon

LEMMA ShortenedOrdered ==
  ASSUME NEW s \in Seq(Chunks), NEW t \in Seq(Chunks), NEW k \in Nat,
         NEW from \in Nat, NEW to \in Nat,
         Shortened(s, t, k), Ordered(s, from, to), \A i \in 1..k : ~Data(s, i)
  PROVE  Ordered(t, from, to)
<1>1. Len(s) \in Nat /\ Len(t) \in Nat /\ Len(s) = Len(t) + k
  BY LenProperties DEF Shortened
<1>2. \A i \in 1..Len(t) : i + k \in 1..Len(s) /\ t[i] = s[i + k] /\ (Data(t, i) <=> Data(s, i + k))
  BY <1>1 DEF Shortened, Data
<1>3. ASSUME NEW n \in (from + 1)..to
      PROVE  \E i \in 1..Len(t) : Data(t, i) /\ t[i].number = n
  <2>1. PICK i \in 1..Len(s) : Data(s, i) /\ s[i].number = n
    BY DEF Ordered
  <2>2. i - k \in 1..Len(t) /\ (i - k) + k = i
    BY <1>1, <2>1
  <2> QED BY <1>2, <2>1, <2>2
<1>4. \A i, j \in 1..Len(t) : Data(t, i) /\ Data(t, j) /\ i < j => t[i].number < t[j].number
  <2> TAKE i, j \in 1..Len(t)
  <2>1. i + k \in 1..Len(s) /\ j + k \in 1..Len(s) /\ (i < j => i + k < j + k)
    BY <1>1
  <2> QED BY <1>2, <2>1 DEF Ordered
<1>5. \A i \in 1..Len(t) : Data(t, i) => t[i].number \in (from + 1)..to
  BY <1>2 DEF Ordered
<1> QED BY <1>3, <1>4, <1>5 DEF Ordered

(* The first keystroke of the stream is the next one to be entered.        *)
LEMMA FirstKeystroke ==
  ASSUME NEW s \in Seq(Chunks), NEW t \in Seq(Chunks),
         NEW from \in Nat, NEW to \in Nat,
         Shortened(s, t, 1), Ordered(s, from, to), Data(s, 1)
  PROVE  s[1] = Payload("data", from + 1) /\ Ordered(t, from + 1, to)
<1>1. Len(s) \in Nat /\ Len(t) \in Nat /\ Len(s) = Len(t) + 1 /\ 1 \in 1..Len(s)
  BY LenProperties DEF Shortened, Data
<1>2. \A i \in 1..Len(t) : i + 1 \in 1..Len(s) /\ t[i] = s[i + 1] /\ (Data(t, i) <=> Data(s, i + 1))
  BY <1>1 DEF Shortened, Data
<1>3. s[1].number \in (from + 1)..to
  BY <1>1 DEF Ordered
<1>4. s[1].number = from + 1
  <2>1. PICK i \in 1..Len(s) : Data(s, i) /\ s[i].number = from + 1
    BY <1>3 DEF Ordered
  <2>2. i > 1 => s[1].number < s[i].number
    BY <1>1, <2>1 DEF Ordered
  <2> QED BY <1>1, <1>3, <2>1, <2>2
<1>5. s[1] = Payload("data", from + 1)
  <2>1. s[1] \in Chunks /\ s[1].part = "body" /\ s[1].of = "data"
    BY <1>1, ElementOfSeq DEF Data
  <2>2. s[1] \in [part : {"body"}, of : Kinds, number : Nat]
    BY <2>1 DEF Chunks, Head1, Head2
  <2> QED BY <1>4, <2>1, <2>2 DEF Payload
<1>6. \A i \in 1..Len(t) : Data(t, i) => t[i].number \in (from + 2)..to
  <2> TAKE i \in 1..Len(t)
  <2> HAVE Data(t, i)
  <2>1. s[1].number < s[i + 1].number /\ s[i + 1].number \in (from + 1)..to
    BY <1>1, <1>2 DEF Ordered
  <2> QED BY <1>2, <1>4, <2>1
<1>7. \A i, j \in 1..Len(t) : Data(t, i) /\ Data(t, j) /\ i < j => t[i].number < t[j].number
  <2> TAKE i, j \in 1..Len(t)
  <2>1. i + 1 \in 1..Len(s) /\ j + 1 \in 1..Len(s) /\ (i < j => i + 1 < j + 1)
    BY <1>1
  <2> QED BY <1>2, <2>1 DEF Ordered
<1>8. ASSUME NEW n \in (from + 2)..to
      PROVE  \E i \in 1..Len(t) : Data(t, i) /\ t[i].number = n
  <2>1. PICK i \in 1..Len(s) : Data(s, i) /\ s[i].number = n
    BY DEF Ordered
  <2>2. i # 1
    BY <1>4, <2>1
  <2>3. i - 1 \in 1..Len(t) /\ (i - 1) + 1 = i
    BY <1>1, <2>1, <2>2
  <2> QED BY <1>2, <2>1, <2>3
<1>9. from + 1 <= to /\ (from + 1) + 1 = from + 2
  BY <1>3
<1> QED BY <1>5, <1>6, <1>7, <1>8, <1>9 DEF Ordered
(* A frame added at the end of the stream.                                 *)
Longer(s, t, kind, number) ==
    LET L == Len(s)
    IN  /\ \A i \in 1..L : t[i] = s[i]
        /\ t[L + 1].part = "head" /\ t[L + 1].of = kind /\ t[L + 2].part = "tail"
        /\ kind = "eof" => Len(t) = L + 2
        /\ kind # "eof" => /\ Len(t) = L + 3 /\ t[L + 3].part = "body"
                           /\ t[L + 3].of = kind /\ t[L + 3].number = number

LEMMA FrameIsLonger ==
  ASSUME NEW s \in Seq(Chunks), NEW kind \in Kinds, NEW number \in Nat
  PROVE  s \o Frame(kind, number) \in Seq(Chunks) /\ Longer(s, s \o Frame(kind, number), kind, number)
<1> DEFINE f == Frame(kind, number)
           t == s \o f
<1>1. f \in Seq(Chunks) /\ Len(s) \in Nat
  BY FrameType, LenProperties
<1>2. /\ Len(f) = IF kind = "eof" THEN 2 ELSE 3
      /\ f[1] = Head1(kind) /\ f[2] = Head2
      /\ kind # "eof" => f[3] = Payload(kind, number)
  BY DEF Frame
<1> HIDE DEF f
<1>3. /\ t \in Seq(Chunks) /\ Len(t) = Len(s) + Len(f)
      /\ \A i \in 1..Len(s) + Len(f) : t[i] = IF i <= Len(s) THEN s[i] ELSE f[i - Len(s)]
  BY <1>1, ConcatProperties
<1>4. \A j \in 1..Len(f) : t[Len(s) + j] = f[j]
  <2> TAKE j \in 1..Len(f)
  <2>1. /\ Len(s) + j \in 1..Len(s) + Len(f) /\ ~(Len(s) + j <= Len(s))
        /\ Len(s) + j - Len(s) = j
    BY <1>1, <1>2
  <2> QED BY <1>3, <2>1
<1>5. \A i \in 1..Len(s) : t[i] = s[i]
  BY <1>1, <1>2, <1>3
<1>6. /\ t[Len(s) + 1] = Head1(kind) /\ t[Len(s) + 2] = Head2
      /\ kind # "eof" => t[Len(s) + 3] = Payload(kind, number)
  BY <1>2, <1>4
<1>7. Len(t) = Len(s) + (IF kind = "eof" THEN 2 ELSE 3)
  BY <1>2, <1>3
<1> HIDE DEF t
<1>8. Longer(s, t, kind, number)
  BY <1>1, <1>5, <1>6, <1>7 DEF Longer, Head1, Head2, Payload
<1> QED BY <1>3, <1>8 DEF t, f

LEMMA LongerFramed ==
  ASSUME NEW s \in Seq(Chunks), NEW t \in Seq(Chunks), NEW kind \in Kinds, NEW number \in Nat,
         Longer(s, t, kind, number), Framed(s)
  PROVE  Framed(t)
<1> DEFINE L == Len(s)
<1>1. L \in Nat /\ Len(t) \in Nat /\ Len(t) >= L + 2
  BY LenProperties DEF Longer
<1> SUFFICES ASSUME NEW i \in 1..Len(t), t[i].part = "head"
             PROVE  /\ i + 1 <= Len(t) /\ t[i + 1].part = "tail"
                    /\ t[i].of = "eof" => (i + 2 <= Len(t) => t[i + 2].part = "head")
                    /\ t[i].of # "eof" =>
                         /\ i + 2 <= Len(t) /\ t[i + 2].part = "body" /\ t[i + 2].of = t[i].of
                         /\ i + 3 <= Len(t) => t[i + 3].part = "head"
  BY DEF Framed
<1>2. CASE i <= L
  <2>1. i \in 1..L /\ t[i] = s[i]
    BY <1>1, <1>2 DEF Longer
  <2>2. /\ i + 1 <= L /\ s[i + 1].part = "tail"
        /\ s[i].of = "eof" => (i + 2 <= L => s[i + 2].part = "head")
        /\ s[i].of # "eof" =>
             /\ i + 2 <= L /\ s[i + 2].part = "body" /\ s[i + 2].of = s[i].of
             /\ i + 3 <= L => s[i + 3].part = "head"
    BY <2>1 DEF Framed
  <2>3. \A j \in 1..3 : i + j <= L => t[i + j] = s[i + j]
    BY <1>1, <2>1 DEF Longer
  <2>4. \A j \in 1..3 : i + j = L + 1 => t[i + j].part = "head"
    BY DEF Longer
  <2>5. i + 2 <= L \/ i + 2 = L + 1
    BY <1>1, <2>1, <2>2
  <2>6. i + 2 <= L => (i + 3 <= L \/ i + 3 = L + 1)
    BY <1>1, <2>1
  <2> HIDE DEF L
  <2> QED BY <1>1, <2>1, <2>2, <2>3, <2>4, <2>5, <2>6, SMTT(30)
<1>3. CASE i > L
  <2>1. i = L + 1
    <3>1. i \in {L + 1, L + 2, L + 3} /\ (i = L + 3 => kind # "eof")
      BY <1>1, <1>3 DEF Longer
    <3> QED BY <3>1 DEF Longer
  <2>2. i + 1 = L + 2 /\ i + 2 = L + 3 /\ i + 3 = L + 4
    BY <1>1, <2>1
  <2>3. t[i].of = kind /\ t[i + 1].part = "tail"
    BY <2>1, <2>2 DEF Longer
  <2>4. CASE kind = "eof"
    <3>1. Len(t) = L + 2
      BY <2>4 DEF Longer
    <3> QED BY <1>1, <2>2, <2>3, <2>4, <3>1
  <2>5. CASE kind # "eof"
    <3>1. Len(t) = L + 3 /\ t[i + 2].part = "body" /\ t[i + 2].of = kind
      BY <2>2, <2>5 DEF Longer
    <3> QED BY <1>1, <2>2, <2>3, <2>5, <3>1
  <2> QED BY <2>4, <2>5
<1> QED BY <1>1, <1>2, <1>3

LEMMA LongerAligned ==
  ASSUME NEW s \in Seq(Chunks), NEW t \in Seq(Chunks), NEW kind \in Kinds, NEW number \in Nat,
         NEW place, NEW reads, Longer(s, t, kind, number), Aligned(s, place, reads)
  PROVE  Aligned(t, place, reads)
<1>1. Len(s) \in Nat /\ Len(t) \in Nat /\ Len(t) >= Len(s) + 2
  BY LenProperties DEF Longer
<1>2. place = "header" => t[1].part = "head"
  <2>1. CASE Len(s) = 0
    BY <2>1 DEF Longer
  <2>2. CASE Len(s) # 0
    BY <1>1, <2>2 DEF Longer, Aligned
  <2> QED BY <2>1, <2>2
<1>3. place \in {"payload", "write"} =>
           t[1].part = "body" /\ t[1].of = reads /\ t[2].part = "head"
  <2> HAVE place \in {"payload", "write"}
  <2>1. t[1] = s[1] /\ s[1].part = "body" /\ s[1].of = reads /\ 1 <= Len(s)
    BY <1>1 DEF Longer, Aligned
  <2>2. CASE Len(s) = 1
    BY <2>1, <2>2 DEF Longer
  <2>3. CASE Len(s) # 1
    BY <1>1, <2>1, <2>3 DEF Longer, Aligned
  <2> QED BY <2>1, <2>2, <2>3
<1> QED BY <1>1, <1>2, <1>3 DEF Aligned

LEMMA LongerOrdered ==
  ASSUME NEW s \in Seq(Chunks), NEW t \in Seq(Chunks), NEW kind \in Kinds,
         NEW from \in Nat, NEW to \in Nat, NEW next \in Nat,
         next = IF kind = "data" THEN to + 1 ELSE to,
         Longer(s, t, kind, next), Ordered(s, from, to)
  PROVE  Ordered(t, from, next)
<1> DEFINE L == Len(s)
<1>1. L \in Nat /\ Len(t) \in {L + 2, L + 3} /\ 1..L \subseteq 1..Len(t)
  BY LenProperties DEF Longer
<1>2. \A i \in 1..L : t[i] = s[i] /\ (Data(t, i) <=> Data(s, i))
  BY <1>1 DEF Longer, Data
<1>3. \A i \in 1..Len(t) : i \notin 1..L /\ Data(t, i) =>
            i = L + 3 /\ kind = "data" /\ t[i].number = next
  <2> TAKE i \in 1..Len(t)
  <2> HAVE i \notin 1..L /\ Data(t, i)
  <2>1. i \in {L + 1, L + 2, L + 3} /\ (i = L + 3 => kind # "eof")
    BY <1>1 DEF Longer
  <2> QED BY <2>1 DEF Longer, Data
<1>4. kind = "data" => L + 3 \in 1..Len(t) /\ Data(t, L + 3) /\ t[L + 3].number = next
  BY <1>1 DEF Longer, Data
<1>5. \A i \in 1..L : Data(s, i) => s[i].number \in (from + 1)..to
  BY DEF Ordered
<1>6. \A i \in 1..Len(t) : Data(t, i) => t[i].number \in (from + 1)..next
  BY <1>2, <1>3, <1>5 DEF Ordered
<1>7. ASSUME NEW i \in 1..Len(t), NEW j \in 1..Len(t), Data(t, i), Data(t, j), i < j
      PROVE  t[i].number < t[j].number
  <2>1. i \in 1..L
    BY <1>1, <1>3, <1>7
  <2>2. CASE j \in 1..L
    BY <1>2, <1>7, <2>1, <2>2 DEF Ordered
  <2>3. CASE j \notin 1..L
    <3>1. t[j].number = to + 1
      BY <1>3, <1>7, <2>3
    <3>2. t[i].number \in (from + 1)..to
      BY <1>2, <1>5, <1>7, <2>1
    <3> QED BY <3>1, <3>2
  <2> QED BY <2>2, <2>3
<1>8. ASSUME NEW n \in (from + 1)..next
      PROVE  \E i \in 1..Len(t) : Data(t, i) /\ t[i].number = n
  <2>1. CASE n \in (from + 1)..to
    <3>1. PICK i \in 1..L : Data(s, i) /\ s[i].number = n
      BY <2>1 DEF Ordered
    <3> QED BY <1>1, <1>2, <3>1
  <2>2. CASE n \notin (from + 1)..to
    BY <1>4, <2>2
  <2> QED BY <2>1, <2>2
<1>9. from <= next
  BY DEF Ordered
<1> HIDE DEF L
<1> QED BY <1>6, <1>7, <1>8, <1>9 DEF Ordered
(* The steps.                                                              *)
Same(p) ==
    /\ entered'[p] = entered[p] /\ wire'[p] = wire[p] /\ unsent'[p] = unsent[p]
    /\ typed'[p] = typed[p] /\ phase'[p] = phase[p] /\ reading'[p] = reading[p]
    /\ cut'[p] = cut[p]

LEMMA SameFlows ==
  ASSUME NEW p \in Peers, Flowing(p), Same(p)
  PROVE  Flowing(p)'
  BY DEF Flowing, Same, Stream

(* Nothing is promised of a stream that is not read any more.              *)
LEMMA OverFlows ==
  ASSUME NEW p \in Peers, Flowing(p), entered'[p] = entered[p],
         phase'[p] \notin {"out", "hello", "header", "payload", "write"}
  PROVE  Flowing(p)'
  BY DEF Flowing, Reading

(* A stream shortened at the part that is on its way.                      *)
LEMMA ShortenedStream ==
  ASSUME NEW w \in Seq(Chunks), NEW v \in Seq(Chunks), NEW u \in Seq(Chunks),
         NEW k \in Nat, Shortened(w, v, k)
  PROVE  Shortened(w \o u, v \o u, k)
<1> DEFINE a == Len(v)
           b == Len(u)
           s == w \o u
           t == v \o u
<1>1. a \in Nat /\ b \in Nat /\ Len(w) = a + k
  BY LenProperties DEF Shortened
<1>2. /\ Len(s) = a + k + b /\ Len(t) = a + b
      /\ \A i \in 1..a + k + b : s[i] = IF i <= a + k THEN w[i] ELSE u[i - (a + k)]
      /\ \A i \in 1..a + b : t[i] = IF i <= a THEN v[i] ELSE u[i - a]
  <2>1. /\ Len(t) = Len(v) + Len(u)
        /\ \A i \in 1..Len(v) + Len(u) : t[i] = IF i <= Len(v) THEN v[i] ELSE u[i - Len(v)]
    BY ConcatProperties
  <2>2. /\ Len(s) = Len(w) + Len(u)
        /\ \A i \in 1..Len(w) + Len(u) : s[i] = IF i <= Len(w) THEN w[i] ELSE u[i - Len(w)]
    BY ConcatProperties
  <2> HIDE DEF s, t
  <2> QED BY <1>1, <2>1, <2>2
<1>3. \A i \in 1..a : v[i] = w[i + k]
  BY DEF Shortened
<1> HIDE DEF a, b, s, t
<1>4. ASSUME NEW i \in 1..Len(t) PROVE t[i] = s[i + k]
  <2> DEFINE j == i + k
             c == a + k
  <2>1. /\ i \in 1..a + b /\ j \in 1..c + b
        /\ (i <= a) <=> (j <= c)
        /\ i - a = j - c
    BY <1>1, <1>2
  <2>2. \A n \in 1..c + b : s[n] = IF n <= c THEN w[n] ELSE u[n - c]
    BY <1>2
  <2>3. i <= a => v[i] = w[j]
    BY <1>1, <1>3, <2>1, SMTT(30)
  <2> HIDE DEF j, c
  <2>4. t[i] = IF i <= a THEN v[i] ELSE u[i - a]
    BY <1>2, <2>1
  <2>5. s[j] = IF j <= c THEN w[j] ELSE u[j - c]
    BY <2>1, <2>2
  <2>6. t[i] = s[j]
    BY <2>1, <2>3, <2>4, <2>5
  <2> QED BY <2>6 DEF j
<1>5. Len(s) = Len(t) + k
  BY <1>1, <1>2
<1>6. Shortened(s, t, k)
  BY <1>4, <1>5 DEF Shortened
<1> QED BY <1>6 DEF s, t

LEMMA HeaderFlows ==
  ASSUME TypeOK, NEW p \in Peers, Flowing(p), ReadHeader(p)
  PROVE  Flowing(p)'
<1> DEFINE w == wire[p]
           s == Stream(p)
           t == SubSeq(w, 3, Len(w)) \o unsent[p]
<1>1. w \in Seq(Chunks) /\ unsent[p] \in Seq(Chunks) /\ Len(w) \in Nat /\ Len(w) >= 2
  BY LenProperties DEF TypeOK, ReadHeader
<1>2. /\ wire'[p] = SubSeq(w, 3, Len(w)) /\ unsent'[p] = unsent[p]
      /\ entered'[p] = entered[p] /\ typed'[p] = typed[p] /\ phase[p] = "header"
  BY DEF ReadHeader, TypeOK, shellVars, peerVars
<1>3. s \in Seq(Chunks) /\ Len(s) \in Nat /\ 2 <= Len(s) /\ w[1] = s[1]
  <2>1. Len(unsent[p]) \in Nat
    BY <1>1, LenProperties
  <2>2. /\ s \in Seq(Chunks) /\ Len(s) = Len(w) + Len(unsent[p])
        /\ \A i \in 1..Len(w) + Len(unsent[p]) :
             s[i] = IF i <= Len(w) THEN w[i] ELSE unsent[p][i - Len(w)]
    BY <1>1, ConcatProperties DEF Stream
  <2> HIDE DEF s, w
  <2> QED BY <1>1, <2>1, <2>2
<1>4. t \in Seq(Chunks) /\ Stream(p)' = t /\ Shortened(s, t, 2)
  <2> DEFINE v == SubSeq(w, 3, Len(w))
  <2>1. /\ v \in Seq(Chunks) /\ Len(v) = Len(w) - 2
        /\ \A i \in 1..Len(w) - 2 : v[i] = w[i + 2]
    BY <1>1
  <2>2. v \o unsent[p] \in Seq(Chunks) /\ Stream(p)' = v \o unsent[p]
    BY <1>1, <1>2, <2>1, ConcatProperties DEF Stream
  <2> HIDE DEF v
  <2>3. Shortened(w, v, 2)
    <3> HIDE DEF w
    <3> QED BY <1>1, <2>1 DEF Shortened
  <2>4. Shortened(w \o unsent[p], v \o unsent[p], 2)
    <3> HIDE DEF w
    <3> QED BY <1>1, <2>1, <2>3, ShortenedStream
  <2> QED BY <2>2, <2>4 DEF v, Stream
<1>6. /\ Framed(s) /\ Aligned(s, "header", reading[p])
      /\ Ordered(s, Len(entered[p]), typed[p])
  BY <1>2 DEF Flowing, Reading
<1> HIDE DEF s, t
<1>7. s[1].part = "head" /\ s[2].part = "tail" /\ s[1] \in Chunks
  <2>1. s[1].part = "head" /\ 1 \in 1..Len(s)
    BY <1>3, <1>6 DEF Aligned
  <2>2. s[1 + 1].part = "tail" /\ 1 + 1 = 2
    BY <1>6, <2>1 DEF Framed
  <2>3. s[1] \in Chunks
    BY <1>3, <2>1, ElementOfSeq
  <2> QED BY <2>1, <2>2, <2>3
<1>8. s[1].of \in Kinds
  BY <1>7 DEF Chunks, Head1, Head2
<1>9. CASE s[1].of = "eof"
  <2>1. phase'[p] = "hangup"
    BY <1>3, <1>7, <1>9 DEF ReadHeader, Enter, TypeOK
  <2> QED BY <1>2, <2>1, OverFlows
<1>10. CASE s[1].of # "eof"
  <2>1. phase'[p] = "payload" /\ reading'[p] = s[1].of
    BY <1>3, <1>7, <1>8, <1>10 DEF ReadHeader, Enter, TypeOK, Kinds
  <2>2. /\ 1 + 2 <= Len(s) /\ s[1 + 2].part = "body" /\ s[1 + 2].of = s[1].of
        /\ 1 + 3 <= Len(s) => s[1 + 3].part = "head"
    <3>1. 1 \in 1..Len(s)
      BY <1>3
    <3> QED BY <1>6, <1>7, <1>10, <3>1 DEF Framed
  <2>3. Len(t) \in Nat /\ Len(s) = Len(t) + 2
    BY <1>4, LenProperties DEF Shortened
  <2>4. /\ 1 <= Len(t) /\ t[1] = s[3]
        /\ 2 <= Len(t) => t[2] = s[4]
    BY <1>4, <1>3, <2>2, <2>3 DEF Shortened
  <2>5. Aligned(t, "payload", s[1].of)
    BY <1>3, <2>2, <2>3, <2>4 DEF Aligned
  <2>6. Framed(t)
    BY <1>3, <1>4, <1>6, ShortenedFramed
  <2>7. Ordered(t, Len(entered[p]), typed[p])
    <3>1. \A i \in 1..2 : ~Data(s, i)
      BY <1>7 DEF Data
    <3>2. Len(entered[p]) \in Nat /\ typed[p] \in Nat
      BY LenProperties DEF TypeOK
    <3> QED BY <1>3, <1>4, <1>6, <3>1, <3>2, ShortenedOrdered
  <2>8. \A i \in 1..Len(entered[p]) : entered[p][i] = Payload("data", i)
    BY DEF Flowing, Reading
  <2> QED BY <1>2, <1>4, <2>1, <2>5, <2>6, <2>7, <2>8 DEF Flowing, Reading
<1> QED BY <1>9, <1>10

(* A payload that is the first chunk of the stream is taken off it.        *)
TakesPayload(p) ==
    /\ phase[p] \in {"payload", "write"} /\ wire[p] # << >>
    /\ wire' = [wire EXCEPT ![p] = Tail(@)]
    /\ phase' = [phase EXCEPT ![p] = "header"]
    /\ UNCHANGED <<unsent, typed, reading>>

LEMMA TakenPayload ==
  ASSUME TypeOK, NEW p \in Peers, Flowing(p), TakesPayload(p)
  PROVE  /\ Framed(Stream(p)') /\ Aligned(Stream(p)', "header", reading[p])
         /\ reading[p] # "data" => Ordered(Stream(p)', Len(entered[p]), typed[p])
         /\ reading[p] = "data" =>
               /\ Head(wire[p]) = Payload("data", Len(entered[p]) + 1)
               /\ Ordered(Stream(p)', Len(entered[p]) + 1, typed[p])
<1> DEFINE w == wire[p]
           v == Tail(w)
           s == w \o unsent[p]
           t == v \o unsent[p]
<1>1. w \in Seq(Chunks) /\ unsent[p] \in Seq(Chunks) /\ w # << >>
  BY DEF TypeOK, TakesPayload
<1>2. wire'[p] = v /\ unsent'[p] = unsent[p] /\ typed'[p] = typed[p]
  BY DEF TakesPayload, TypeOK
<1>3. /\ v \in Seq(Chunks) /\ Len(v) = Len(w) - 1 /\ Len(w) \in Nat
      /\ \A i \in 1..Len(v) : v[i] = w[i + 1]
      /\ Len(w) >= 1 /\ Head(w) = w[1]
  BY <1>1, HeadTailProperties, LenProperties, EmptySeq
<1>4. s \in Seq(Chunks) /\ t \in Seq(Chunks) /\ Stream(p) = s /\ Stream(p)' = t
  BY <1>1, <1>2, <1>3, ConcatProperties DEF Stream
<1>5. Shortened(s, t, 1)
  <2> HIDE DEF w, v
  <2>1. Shortened(w, v, 1)
    BY <1>3 DEF Shortened
  <2> QED BY <1>1, <1>3, <2>1, ShortenedStream
<1>6. s[1] = Head(w) /\ Len(s) \in Nat /\ 1 <= Len(s)
  <2>1. Len(unsent[p]) \in Nat
    BY <1>1, LenProperties
  <2>2. /\ Len(s) = Len(w) + Len(unsent[p])
        /\ \A i \in 1..Len(w) + Len(unsent[p]) :
             s[i] = IF i <= Len(w) THEN w[i] ELSE unsent[p][i - Len(w)]
    BY <1>1, ConcatProperties
  <2> HIDE DEF s, w, v
  <2> QED BY <1>3, <2>1, <2>2
<1> HIDE DEF s, t, v
<1>7. /\ Framed(s) /\ Aligned(s, "payload", reading[p])
      /\ Ordered(s, Len(entered[p]), typed[p])
      /\ \A i \in 1..Len(entered[p]) : entered[p][i] = Payload("data", i)
  BY <1>1, <1>4 DEF Flowing, TakesPayload, Aligned, Reading
<1>8. Len(entered[p]) \in Nat /\ typed[p] \in Nat /\ entered[p] \in Seq(Chunks)
  BY LenProperties DEF TypeOK
<1>9. Framed(t) /\ Aligned(t, "header", reading[p])
  <2>1. Framed(t)
    BY <1>4, <1>5, <1>7, ShortenedFramed
  <2>2. Len(t) \in Nat /\ Len(s) = Len(t) + 1 /\ (1 <= Len(t) => t[1] = s[2])
    BY <1>4, <1>5, LenProperties DEF Shortened
  <2>3. 2 <= Len(s) => s[2].part = "head"
    BY <1>7 DEF Aligned
  <2> QED BY <2>1, <2>2, <2>3 DEF Aligned
<1>10. ASSUME reading[p] = "data"
       PROVE  /\ Head(w) = Payload("data", Len(entered[p]) + 1)
              /\ Ordered(t, Len(entered[p]) + 1, typed[p])
  <2>1. Data(s, 1)
    BY <1>6, <1>7, <1>10 DEF Data, Aligned
  <2> QED BY <1>4, <1>5, <1>6, <1>7, <1>8, <2>1, FirstKeystroke
<1>11. ASSUME reading[p] # "data" PROVE Ordered(t, Len(entered[p]), typed[p])
  <2>1. \A i \in 1..1 : ~Data(s, i)
    BY <1>7, <1>11 DEF Data, Aligned
  <2> QED BY <1>4, <1>5, <1>7, <1>8, <2>1, ShortenedOrdered
<1> QED BY <1>4, <1>9, <1>10, <1>11

LEMMA PayloadFlows ==
  ASSUME TypeOK, NEW p \in Peers, Flowing(p), ReadPayload(p)
  PROVE  Flowing(p)'
<1>1. /\ entered' = entered /\ unsent' = unsent /\ typed' = typed /\ reading' = reading
      /\ phase[p] = "payload"
  BY DEF ReadPayload, shellVars, peerVars
<1>2. CASE reading[p] = "data"
  <2>1. phase'[p] = "write" /\ wire' = wire
    BY <1>2 DEF ReadPayload, Enter, TypeOK
  <2> QED BY <1>1, <1>2, <2>1 DEF Flowing, Stream, Aligned, Reading
<1>3. CASE reading[p] # "data"
  <2>1. TakesPayload(p) /\ phase'[p] = "header"
    BY <1>1, <1>3 DEF ReadPayload, NextFrame, Enter, TakesPayload, TypeOK
  <2>2. /\ Framed(Stream(p)') /\ Aligned(Stream(p)', "header", reading[p])
        /\ Ordered(Stream(p)', Len(entered[p]), typed[p])
    BY <1>3, <2>1, TakenPayload
  <2> QED BY <1>1, <2>1, <2>2 DEF Flowing, Reading
<1> QED BY <1>2, <1>3

LEMMA WrittenFlows ==
  ASSUME TypeOK, NEW p \in Peers, Flowing(p), Written(p)
  PROVE  Flowing(p)'
<1>1. TakesPayload(p) /\ phase'[p] = "header" /\ reading[p] = "data"
  BY DEF Written, NextFrame, Enter, TakesPayload, Flowing, TypeOK, peerVars
<1> DEFINE n == Len(entered[p])
           c == Head(wire[p])
<1>2. /\ Framed(Stream(p)') /\ Aligned(Stream(p)', "header", reading[p])
      /\ c = Payload("data", n + 1) /\ Ordered(Stream(p)', n + 1, typed[p])
  BY <1>1, TakenPayload
<1>3. /\ entered[p] \in Seq(Chunks) /\ n \in Nat /\ c \in Chunks
      /\ entered'[p] = Append(entered[p], c)
  <2>1. wire[p] \in Seq(Chunks) /\ wire[p] # << >> /\ entered[p] \in Seq(Chunks)
    BY <1>1 DEF TypeOK, TakesPayload
  <2> QED BY <2>1, LenProperties, HeadTailProperties DEF Written, TypeOK
<1> HIDE DEF c
<1>4. /\ Len(entered'[p]) = n + 1
      /\ \A i \in 1..n : entered'[p][i] = entered[p][i]
      /\ entered'[p][n + 1] = c
  BY <1>3, AppendProperties
<1>5. \A i \in 1..n : entered[p][i] = Payload("data", i)
  BY DEF Flowing
<1> HIDE DEF n
<1>6. \A i \in 1..Len(entered'[p]) : entered'[p][i] = Payload("data", i)
  BY <1>2, <1>3, <1>4, <1>5, SMTT(30)
<1>7. reading'[p] = reading[p] /\ typed'[p] = typed[p]
  BY <1>1 DEF TakesPayload
<1> QED BY <1>1, <1>2, <1>4, <1>6, <1>7 DEF Flowing, Reading

LEMMA SendFlows ==
  ASSUME TypeOK, NEW p \in Peers, Flowing(p), SendChunk(p)
  PROVE  Flowing(p)'
<1> DEFINE u == unsent[p]
<1>1. wire[p] \in Seq(Chunks) /\ u \in Seq(Chunks) /\ u # << >>
  BY DEF TypeOK, SendChunk
<1>2. Head(u) \in Chunks /\ Tail(u) \in Seq(Chunks) /\ Head(u) = u[1] /\ Len(u) \in Nat \ {0}
  BY <1>1, HeadTailProperties, EmptySeq
<1>3. u = << Head(u) >> \o Tail(u)
  <2>1. SubSeq(u, 1, Len(u)) = << u[1] >> \o SubSeq(u, 1 + 1, Len(u))
    BY <1>1, <1>2, SubSeqRecursiveFirst
  <2>2. SubSeq(u, 1, Len(u)) = u /\ Tail(u) = SubSeq(u, 2, Len(u))
    BY <1>1, SubSeqFull, TailIsSubSeq
  <2> QED BY <1>2, <2>1, <2>2
<1>4. Append(wire[p], Head(u)) \o Tail(u) = wire[p] \o u
  <2>1. Append(wire[p], Head(u)) = wire[p] \o << Head(u) >>
    BY <1>1, <1>2, AppendIsConcat
  <2>2. << Head(u) >> \in Seq(Chunks)
    BY <1>2
  <2>3. (wire[p] \o << Head(u) >>) \o Tail(u) = wire[p] \o (<< Head(u) >> \o Tail(u))
    <3> DEFINE x == wire[p]
               y == << Head(u) >>
               z == Tail(u)
    <3>1. x \in Seq(Chunks) /\ y \in Seq(Chunks) /\ z \in Seq(Chunks)
      BY <1>1, <1>2, <2>2
    <3> HIDE DEF x, y, z
    <3>2. (x \o y) \o z = x \o (y \o z)
      BY <3>1, ConcatAssociative
    <3> QED BY <3>2 DEF x, y, z
  <2> QED BY <1>3, <2>1, <2>3
<1>5. Stream(p)' = Stream(p)
  <2>1. wire'[p] = Append(wire[p], Head(u)) /\ unsent'[p] = Tail(u)
    BY DEF SendChunk, TypeOK
  <2> QED BY <1>4, <2>1 DEF Stream
<1>6. /\ phase' = phase /\ reading' = reading /\ entered' = entered /\ typed' = typed
      /\ phase[p] \in Reading
  BY DEF SendChunk, serverVars, shellVars
<1> QED BY <1>5, <1>6 DEF Flowing, Reading

LEMMA NewFrameFlows ==
  ASSUME TypeOK, NEW p \in Peers, NEW kind \in Kinds, Flowing(p), NewFrame(p, kind)
  PROVE  Flowing(p)'
<1> DEFINE s == wire[p]
           next == IF kind = "data" THEN typed[p] + 1 ELSE typed[p]
           t == s \o Frame(kind, next)
<1>1. s \in Seq(Chunks) /\ next \in Nat /\ typed[p] \in Nat /\ Len(entered[p]) \in Nat
  BY LenProperties DEF TypeOK
<1>2. /\ typed'[p] = next /\ unsent'[p] = Frame(kind, next) /\ wire' = wire
      /\ phase' = phase /\ reading' = reading /\ entered' = entered
      /\ phase[p] \in Reading /\ unsent[p] = << >>
  BY DEF NewFrame, TypeOK, serverVars, shellVars
<1>3. Stream(p) = s /\ Stream(p)' = t
  BY <1>1, <1>2, ConcatEmptySeq DEF Stream
<1>4. t \in Seq(Chunks) /\ Longer(s, t, kind, next)
  <2> HIDE DEF s, next
  <2> QED BY <1>1, FrameIsLonger
<1>5. /\ Framed(s) /\ Aligned(s, phase[p], reading[p])
      /\ Ordered(s, Len(entered[p]), typed[p])
      /\ \A i \in 1..Len(entered[p]) : entered[p][i] = Payload("data", i)
  BY <1>2, <1>3 DEF Flowing
<1>6. next = IF kind = "data" THEN typed[p] + 1 ELSE typed[p]
  OBVIOUS
<1> HIDE DEF s, t, next
<1>7. Framed(t) /\ Aligned(t, phase[p], reading[p])
  BY <1>1, <1>4, <1>5, LongerFramed, LongerAligned
<1>8. Ordered(t, Len(entered[p]), next)
  BY <1>1, <1>4, <1>5, <1>6, LongerOrdered, SMTT(30)
<1> QED BY <1>2, <1>3, <1>5, <1>7, <1>8 DEF Flowing, Reading

LEMMA FlowStep == ASSUME TypeOK, Flow, [Next]_vars PROVE Flow'
<1>1. ASSUME NEW p \in Peers, \A q \in Peers \ {p} : Same(q), ~cut'[p] => Flowing(p)'
      PROVE  Flow'
  BY <1>1, SameFlows DEF Flow, Same
<1> USE DEF TypeOK, serverVars, shellVars, peerVars
<1>2. ASSUME NEW p \in Peers, Accept(p) PROVE Flow'
  <2>1. \A q \in Peers \ {p} : Same(q)
    BY <1>2 DEF Accept, Enter, Same
  <2>2. ~cut'[p] => Flowing(p)'
    <3>1. UNCHANGED <<entered, wire, unsent, typed, cut>> /\ phase'[p] \in {"refused", "hello"}
          /\ phase[p] = "out"
      BY <1>2 DEF Accept, Enter
    <3> QED BY <3>1 DEF Flow, Flowing, Reading
  <2> QED BY <1>1, <2>1, <2>2
<1>3. ASSUME NEW p \in Peers, Greeted(p) PROVE Flow'
  <2>1. \A q \in Peers \ {p} : Same(q)
    BY <1>3 DEF Greeted, Enter, Same
  <2>2. ~cut'[p] => Flowing(p)'
    <3>1. /\ UNCHANGED <<entered, wire, unsent, typed, cut>> /\ phase'[p] = "header"
          /\ phase[p] = "hello"
      BY <1>3 DEF Greeted, Enter
    <3> HAVE ~cut'[p]
    <3>2. /\ entered'[p] = << >> /\ wire'[p] = << >> /\ unsent'[p] = << >> /\ typed'[p] = 0
      BY <3>1 DEF Flow, Flowing
    <3>3. Stream(p)' = << >>
      BY <3>2 DEF Stream
    <3>4. Framed(<< >>) /\ Aligned(<< >>, "header", reading'[p]) /\ Ordered(<< >>, 0, 0)
      BY DEF Framed, Aligned, Ordered
    <3> QED BY <3>1, <3>2, <3>3, <3>4 DEF Flowing, Reading
  <2> QED BY <1>1, <2>1, <2>2
<1>4. ASSUME NEW p \in Peers, Rejected(p) \/ HangUp(p) \/ Reap(p) \/ Join(p) \/ EndOfStream(p)
                                     \/ WriteFails(p)
      PROVE  Flow'
  <2>1. \A q \in Peers \ {p} : Same(q)
    BY <1>4 DEF Rejected, HangUp, Reap, Join, EndOfStream, WriteFails, Abandon, Leave, Enter, Same
  <2>2. /\ entered' = entered /\ cut' = cut
        /\ phase'[p] \notin {"out", "hello", "header", "payload", "write"}
    BY <1>4 DEF Rejected, HangUp, Reap, Join, EndOfStream, WriteFails, Abandon, Leave, Enter
  <2> QED BY <1>1, <2>1, <2>2, OverFlows DEF Flow
<1>5. ASSUME NEW p \in Peers, ReadHeader(p) PROVE Flow'
  <2>1. \A q \in Peers \ {p} : Same(q)
    BY <1>5 DEF ReadHeader, Abandon, Leave, Enter, Same
  <2>2. cut' = cut
    BY <1>5 DEF ReadHeader
  <2> QED BY <1>1, <1>5, <2>1, <2>2, HeaderFlows DEF Flow
<1>6. ASSUME NEW p \in Peers, ReadPayload(p) PROVE Flow'
  <2>1. \A q \in Peers \ {p} : Same(q)
    BY <1>6 DEF ReadPayload, NextFrame, Enter, Same
  <2>2. cut' = cut
    BY <1>6 DEF ReadPayload
  <2> QED BY <1>1, <1>6, <2>1, <2>2, PayloadFlows DEF Flow
<1>7. ASSUME NEW p \in Peers, Pause(p) PROVE Flow'
  <2>1. \A q \in Peers \ {p} : Same(q)
    BY <1>7 DEF Pause, PauseInHeader, PauseInPayload, Abandon, Leave, Enter, Same
  <2>2. CASE phase'[p] \notin {"out", "hello", "header", "payload", "write"}
    <3>1. entered' = entered /\ (cut[p] => cut'[p])
      BY <1>7 DEF Pause, PauseInHeader, PauseInPayload
    <3> QED BY <1>1, <2>1, <2>2, <3>1, OverFlows DEF Flow
  <2>3. CASE phase'[p] \in {"out", "hello", "header", "payload", "write"}
    <3>1. /\ phase' = phase /\ phase[p] = "header" /\ UNCHANGED <<entered, unsent, typed, reading>>
          /\ wire'[p] = << >> /\ cut'[p] = (cut[p] \/ wire[p] # << >>)
      BY <1>7, <2>3 DEF Pause, PauseInHeader, PauseInPayload, Abandon, Leave, Enter
    <3>2. ~cut'[p] => Same(p) /\ ~cut[p]
      BY <3>1 DEF Same
    <3> QED BY <1>1, <2>1, <3>2, SameFlows DEF Flow
  <2> QED BY <2>2, <2>3
<1>8. ASSUME NEW p \in Peers, SendChunk(p) PROVE Flow'
  <2>1. (\A q \in Peers \ {p} : Same(q)) /\ cut' = cut
    BY <1>8 DEF SendChunk, Same
  <2> QED BY <1>1, <1>8, <2>1, SendFlows DEF Flow
<1>9. ASSUME NEW p \in Peers, NEW kind \in Kinds, NewFrame(p, kind) PROVE Flow'
  <2>1. (\A q \in Peers \ {p} : Same(q)) /\ cut' = cut
    BY <1>9 DEF NewFrame, Same
  <2> QED BY <1>1, <1>9, <2>1, NewFrameFlows DEF Flow
<1>10. CASE UNCHANGED <<entered, wire, unsent, typed, phase, reading, cut>>
  BY <1>10, SameFlows DEF Flow, Same
<1>11. ASSUME NEW p \in Peers, OutputEnds(p) \/ ShellExits(p) \/ BackgroundEnds(p) \/ Close(p)
       PROVE  Flow'
  BY <1>10, <1>11 DEF OutputEnds, ShellExits, BackgroundEnds, Close
<1>12. CASE UNCHANGED vars
  BY <1>10, <1>12 DEF vars
<1>13. ASSUME NEW p \in Peers, Written(p) PROVE Flow'
  <2>1. \A q \in Peers \ {p} : Same(q)
    BY <1>13 DEF Written, NextFrame, Enter, Same
  <2>2. cut' = cut
    BY <1>13 DEF Written
  <2> QED BY <1>1, <1>13, <2>1, <2>2, WrittenFlows DEF Flow
<1> QED BY <1>2, <1>3, <1>4, <1>5, <1>6, <1>7, <1>8, <1>9, <1>11, <1>12, <1>13 DEF Next, Handle

(* Keystrokes reach the shell complete, once and in order, for any number  *)
(* of frames in any chunks, unless a pause cut a header in two.            *)
THEOREM KeystrokesCorrect == Spec => []KeystrokesIntact
<1>1. Init => Flow
  <2> SUFFICES ASSUME Init, NEW p \in Peers PROVE Flowing(p)
    BY DEF Flow
  <2>1. /\ phase[p] = "out" /\ entered[p] = << >> /\ wire[p] = << >>
        /\ unsent[p] = << >> /\ typed[p] = 0
    BY DEF Init
  <2> QED BY <2>1 DEF Flowing, Reading
<1>2. TypeOK /\ Flow /\ [Next]_vars => Flow'
  BY FlowStep
<1>3. TypeOK /\ Flow => KeystrokesIntact
  <2> SUFFICES ASSUME TypeOK, Flow, NEW p \in Peers, ~cut[p]
               PROVE  entered[p] = [i \in DOMAIN entered[p] |-> Payload("data", i)]
    BY DEF KeystrokesIntact
  <2>1. entered[p] \in [1..Len(entered[p]) -> Chunks] /\ DOMAIN entered[p] = 1..Len(entered[p])
    BY LenProperties DEF TypeOK
  <2>2. \A i \in 1..Len(entered[p]) : entered[p][i] = Payload("data", i)
    BY DEF Flow, Flowing
  <2> QED BY <2>1, <2>2
<1> QED BY <1>1, <1>2, <1>3, TypeCorrect, PTL DEF Spec

-----------------------------------------------------------------------------
(* The bound of a session whose adapter has gone: what is left to read and *)
(* the steps after the loop.                                               *)

StepsToEnd(p) ==
    CASE phase[p] \in {"hello", "payload"} -> Len(wire[p]) + 5
      [] phase[p] \in {"header", "write"} -> Len(wire[p]) + 4
      [] phase[p] = "hangup" -> 3
      [] phase[p] = "wait" -> 2
      [] phase[p] = "join" -> 1
      [] OTHER -> 0

EndsAfterClose(p) == closed[p] /\ phase[p] \in Serving

StepsDecrease ==
    \A p \in Peers : EndsAfterClose(p) =>
        IF Handle(p) \/ Written(p) THEN StepsToEnd(p)' < StepsToEnd(p)
                                   ELSE StepsToEnd(p)' = StepsToEnd(p)

(* The guards of the steps of handle_connection that wait for nobody.      *)
GoesOn(p) ==
    \/ phase[p] \in {"hello", "header", "payload", "hangup"}
    \/ phase[p] = "write" /\ ~Open(p)
    \/ phase[p] = "wait" /\ shell[p] \in {"exited", "reaped"}
    \/ phase[p] = "join" /\ output[p] = "off"

(* What a session can be waiting for when it has not: programs to read     *)
(* what is written to their terminal, a shell that has been hung up to     *)
(* end, background processes that have the terminal open, or its own       *)
(* output thread, when nobody has it open.                                 *)
HeldUp(p) ==
    \/ phase[p] = "write" /\ Open(p)
    \/ phase[p] = "wait" /\ HungUp(p) /\ shell[p] = "live"
    \/ phase[p] = "join" /\ background[p]
    \/ phase[p] = "join" /\ output[p] = "on" /\ ~Open(p)

WaitsAreNamed ==
    \A p \in Peers : EndsAfterClose(p) =>
        StepsToEnd(p) \in Nat \ {0} /\ (GoesOn(p) \/ HeldUp(p))

Begun == {"header", "payload", "write", "hangup", "wait", "join"}
ShellStarted == \A p \in Peers : phase[p] \in Begun => shell[p] # "none" /\ output[p] # "none"

LEMMA ShellStartedStep ==
  ASSUME TypeOK, ShellStarted, [Next]_vars PROVE ShellStarted'
<1> SUFFICES ASSUME NEW p \in Peers, phase'[p] \in Begun
             PROVE  shell'[p] # "none" /\ output'[p] # "none"
  BY DEF ShellStarted
<1>1. Shape
  BY ShapeOfSteps
<1>2. CASE \E q \in Peers : Greeted(q)
  BY <1>2 DEF Greeted, Enter, ShellStarted, TypeOK
<1>3. CASE ~\E q \in Peers : Greeted(q)
  <2>1. shell'[p] = "none" => shell[p] = "none"
    BY <1>3 DEF Next, Handle, Accept, Rejected, ReadHeader, ReadPayload, NextFrame, Written,
                WriteFails, Pause, PauseInHeader, PauseInPayload, EndOfStream, HangUp, Reap, Join, OutputEnds, ShellExits,
                BackgroundEnds, NewFrame, SendChunk, Close, shellVars, vars, TypeOK
  <2>2. output'[p] = "none" => output[p] = "none"
    BY <1>3 DEF Next, Handle, Accept, Rejected, ReadHeader, ReadPayload, NextFrame, Written,
                WriteFails, Pause, PauseInHeader, PauseInPayload, EndOfStream, HangUp, Reap, Join, OutputEnds, ShellExits,
                BackgroundEnds, NewFrame, SendChunk, Close, shellVars, vars, TypeOK
  <2>3. phase[p] \in Begun
    <3>1. CASE \E q \in Peers : Accept(q) \/ Rejected(q)
      BY <3>1 DEF Accept, Rejected, Enter, Leave, Begun, TypeOK
    <3>2. CASE ~\E q \in Peers : Accept(q) \/ Rejected(q)
      <4>1. \/ phase' = phase
            \/ \E q \in Peers : \E x : phase[q] \in Begun /\ phase' = [phase EXCEPT ![q] = x]
        BY <1>3, <3>2
           DEF Next, Handle, ReadHeader, ReadPayload, NextFrame, Written, WriteFails, Pause,
               PauseInHeader, Abandon, PauseInPayload, EndOfStream, HangUp, Reap, Join, OutputEnds, ShellExits,
               BackgroundEnds, NewFrame, SendChunk, Close, serverVars, vars, Enter, Leave, Begun
      <4> QED BY <4>1 DEF TypeOK
    <3> QED BY <3>1, <3>2
  <2> QED BY <2>1, <2>2, <2>3 DEF ShellStarted
<1> QED BY <1>2, <1>3

LEMMA HandleDecreases ==
  ASSUME TypeOK, NEW p \in Peers, Handle(p) \/ Written(p) PROVE StepsToEnd(p)' < StepsToEnd(p)
<1> USE DEF TypeOK, Enter, Leave, Abandon, StepsToEnd
<1>1. wire[p] \in Seq(Chunks) /\ Len(wire[p]) \in Nat
  BY LenProperties
<1>2. CASE Greeted(p) \/ Rejected(p)
  BY <1>1, <1>2 DEF Greeted, Rejected
<1>3. CASE ReadHeader(p)
  <2>1. wire'[p] = SubSeq(wire[p], 3, Len(wire[p])) /\ Len(wire[p]) >= 2 /\ phase[p] = "header"
    BY <1>3 DEF ReadHeader
  <2>2. Len(wire'[p]) = Len(wire[p]) - 2
    <3> DEFINE n == Len(wire[p])
    <3>1. n \in Nat /\ n >= 2 /\ \A i \in 3..n : wire[p][i] \in Chunks
      BY <1>1, <2>1, ElementOfSeq
    <3> HIDE DEF n
    <3>2. Len(SubSeq(wire[p], 3, n)) = IF 3 <= n THEN n - 3 + 1 ELSE 0
      BY <3>1, SubSeqProperties
    <3>3. Len(SubSeq(wire[p], 3, n)) = n - 2
      BY <3>1, <3>2
    <3> QED BY <2>1, <3>3 DEF n
  <2>3. phase'[p] \in {"failed", "hangup", "payload"}
    BY <1>3 DEF ReadHeader
  <2> QED BY <1>1, <2>1, <2>2, <2>3
<1>4. CASE ReadPayload(p) \/ Written(p)
  <2>1. CASE ReadPayload(p) /\ reading[p] = "data"
    BY <1>1, <2>1 DEF ReadPayload
  <2>2. CASE Written(p) \/ (ReadPayload(p) /\ reading[p] # "data")
    <3>1. /\ wire'[p] = Tail(wire[p]) /\ wire[p] # << >>
          /\ phase[p] \in {"payload", "write"} /\ phase'[p] = "header"
      BY <2>2 DEF ReadPayload, Written, NextFrame
    <3>2. Len(wire'[p]) = Len(wire[p]) - 1 /\ Len(wire[p]) >= 1
      BY <1>1, <3>1, HeadTailProperties, EmptySeq
    <3> QED BY <1>1, <3>1, <3>2
  <2> QED BY <1>4, <2>1, <2>2
<1>5. CASE EndOfStream(p) \/ WriteFails(p)
  BY <1>1, <1>5 DEF EndOfStream, WriteFails
<1>6. CASE HangUp(p) \/ Reap(p) \/ Join(p)
  BY <1>6 DEF HangUp, Reap, Join
<1> QED BY <1>2, <1>3, <1>4, <1>5, <1>6 DEF Handle

LEMMA OthersKeep ==
  ASSUME TypeOK, NEW p \in Peers, EndsAfterClose(p), ~Handle(p), ~Written(p), [Next]_vars
  PROVE  StepsToEnd(p)' = StepsToEnd(p)
<1> SUFFICES phase'[p] = phase[p] /\ wire'[p] = wire[p]
  BY DEF StepsToEnd
<1> USE DEF TypeOK, Enter, Leave, Abandon
<1>1. ASSUME NEW q \in Peers \ {p}, Handle(q) \/ Written(q) PROVE phase'[p] = phase[p] /\ wire'[p] = wire[p]
  <2>1. CASE ReadHeader(q) \/ ReadPayload(q) \/ Written(q) \/ WriteFails(q) \/ EndOfStream(q)
    BY <1>1, <2>1 DEF ReadHeader, ReadPayload, Written, WriteFails, NextFrame, EndOfStream
  <2> QED BY <1>1, <2>1 DEF Handle, Greeted, Rejected, HangUp, Reap, Join
<1>2. ASSUME NEW q \in Peers, Accept(q) PROVE phase'[p] = phase[p] /\ wire'[p] = wire[p]
  BY <1>2 DEF Accept, EndsAfterClose, Serving
<1>3. ASSUME NEW q \in Peers, Pause(q) \/ SendChunk(q)
      PROVE  phase'[p] = phase[p] /\ wire'[p] = wire[p]
  BY <1>3 DEF Pause, PauseInHeader, PauseInPayload, SendChunk, EndsAfterClose, serverVars
<1>4. ASSUME NEW q \in Peers,
             OutputEnds(q) \/ ShellExits(q) \/ BackgroundEnds(q) \/ Close(q)
               \/ \E kind \in Kinds : NewFrame(q, kind)
      PROVE  phase'[p] = phase[p] /\ wire'[p] = wire[p]
  BY <1>4 DEF OutputEnds, ShellExits, BackgroundEnds, Close, NewFrame, serverVars
<1> QED BY <1>1, <1>2, <1>3, <1>4 DEF Next, vars

(* When the adapter has gone its session is bounded: every step of         *)
(* handle_connection brings it closer to giving its slot back and nothing  *)
(* else moves it.  It goes on unless it is held up in a write to a         *)
(* terminal that programs have open (terminal.rs:138 blocks as long as     *)
(* they do not read), waits for a shell it has hung up, or waits for the   *)
(* copy of the output, which background processes alone can delay.  The    *)
(* first and the last can be for good; CloseFreesSlot names the same two.  *)
THEOREM CloseIsBounded == Spec => [][StepsDecrease]_vars /\ []WaitsAreNamed
<1>1. Init => Ending /\ ShellStarted
  BY DEF Init, Ending, ShellStarted, Begun
<1>2. TypeOK /\ Ending /\ ShellStarted /\ [Next]_vars => Ending' /\ ShellStarted'
  BY EndingStep, ShellStartedStep
<1>3. TypeOK /\ Ending /\ ShellStarted => WaitsAreNamed
  <2> SUFFICES ASSUME TypeOK, Ending, ShellStarted, NEW p \in Peers, EndsAfterClose(p)
               PROVE  StepsToEnd(p) \in Nat \ {0} /\ (GoesOn(p) \/ HeldUp(p))
    BY DEF WaitsAreNamed
  <2>1. Len(wire[p]) \in Nat
    BY LenProperties DEF TypeOK
  <2>2. StepsToEnd(p) \in Nat \ {0}
    BY <2>1 DEF StepsToEnd, EndsAfterClose, Serving
  <2>3. /\ phase[p] \in Serving /\ shell[p] \in {"none", "live", "exited", "reaped"}
        /\ output[p] \in {"none", "on", "off"}
    BY DEF TypeOK, EndsAfterClose
  <2> QED BY <2>2, <2>3 DEF ShellStarted, Begun, Ending, Open, Serving, GoesOn, HeldUp, HungUp
<1>4. TypeOK /\ [Next]_vars => [StepsDecrease]_vars
  BY HandleDecreases, OthersKeep DEF StepsDecrease
<1> QED BY <1>1, <1>2, <1>3, <1>4, TypeCorrect, PTL DEF Spec
=============================================================================
