-------------------------- MODULE PortalInput_proofs --------------------------
(* Theorems about the portal backend, for any set of lines, any kinds of   *)
(* motion and any bounds.                                                  *)
EXTENDS PortalInput, FiniteSetTheorems, FunctionTheorems, SequenceTheorems, TLAPS

-----------------------------------------------------------------------------
(* Types.  The worker is busy with an event or a motion when its step says *)
(* so, and a waiting caller waits for an event.                            *)

Queueable == Events \cup {Flush}

Busy ==
    /\ caller = "wait" => call \in Events
    /\ worker \in {"notify", "accepted", "rejected"} => current \in Events
    /\ worker = "move" => current \in Motions

Typed == TypeOK /\ Busy

LEMMA EventType ==
  ASSUME NEW line \in Lines \cup {Wheel}, NEW down \in BOOLEAN
  PROVE  Event(line, down) \in Events
  BY DEF Event, Events

LEMMA UnheardType ==
  /\ \A e \in Events : Unheard(e) \in Events /\ Unheard(e) # Flush
  /\ Unheard(Flush) = Flush
  /\ \A e \in Motions \cup {Nothing} : Unheard(e) = e
  BY DEF Unheard, Events, Flush, Motions, Nothing

LEMMA FlushIsNoEvent == Flush \notin Events
  BY DEF Flush, Events

LEMMA MovedType ==
  ASSUME NEW p \in Positions, NEW m \in Motions PROVE Moved(p, m) \in Positions
  BY DEF Moved, Positions, Motions

LEMMA MotionType ==
  /\ \A k \in Nat : Absolute(k) \in Motions
  /\ \A n \in Nat : Relative(n) \in Motions
  BY DEF Absolute, Relative, Motions

LEMMA MergedType ==
  ASSUME pending \in Motions \cup {Nothing}, NEW m \in Motions
  PROVE  merge_motion(m) \in Motions
<1>1. CASE m.kind = "relative" /\ pending.kind = "relative"
  <2>1. m.steps \in Nat /\ pending.steps \in Nat
    BY <1>1 DEF Motions, Nothing
  <2> QED BY <1>1, <2>1, MotionType DEF merge_motion
<1>2. CASE ~(m.kind = "relative" /\ pending.kind = "relative")
  BY <1>2 DEF merge_motion
<1> QED BY <1>1, <1>2

LEMMA MappedQueue ==
  ASSUME queue \in Seq(Queueable)
  PROVE  LET mapped == [i \in DOMAIN queue |-> Unheard(queue[i])]
         IN  mapped \in Seq(Queueable) /\ DOMAIN mapped = DOMAIN queue
<1> DEFINE mapped == [i \in DOMAIN queue |-> Unheard(queue[i])]
<1>1. Len(queue) \in Nat /\ DOMAIN queue = 1..Len(queue)
  BY LenProperties
<1>2. \A i \in 1..Len(queue) : Unheard(queue[i]) \in Queueable
  BY <1>1, ElementOfSeq, UnheardType DEF Queueable
<1>3. mapped \in [1..Len(queue) -> Queueable]
  BY <1>1, <1>2
<1>4. mapped \in Seq(Queueable)
  BY <1>1, <1>3, SMT
<1> QED BY <1>4

LEMMA TypeInit == Init => Typed
<1> SUFFICES ASSUME Init PROVE Typed
  OBVIOUS
<1>1. Origin \in Positions /\ queue \in Seq(Queueable)
  BY DEF Init, Origin, Positions
<1> QED BY <1>1 DEF Init, Typed, TypeOK, Busy, Queueable

LEMMA SubmitTypes ==
  ASSUME Typed, NEW event \in Events, Submit(event), held' \subseteq Lines,
         todo' \subseteq Lines, client' \in {"on", "leaving", "gone"}
  PROVE  Typed'
<1> USE DEF given
<1>1. queue' \in Seq(Queueable)
  BY DEF Submit, Typed, TypeOK, Queueable
<1> QED BY <1>1 DEF Submit, Typed, TypeOK, Busy, Queueable, motionVars

LEMMA CallerTypes == ASSUME Typed, Caller PROVE Typed'
<1> USE DEF given
<1>1. ASSUME NEW line \in Lines \cup {Wheel}, NEW down \in BOOLEAN, Input(line, down)
      PROVE  Typed'
  BY <1>1, SubmitTypes, EventType DEF Input, clientVars, Typed, TypeOK
<1>2. ASSUME NEW line \in Lines, ReleaseHeld(line) PROVE Typed'
  BY <1>2, SubmitTypes, EventType DEF ReleaseHeld, Typed, TypeOK
<1>3. ASSUME NEW kind \in Kinds, Motion(kind) PROVE Typed'
  <2> DEFINE motion == IF kind = "absolute" THEN Absolute(issued + 1) ELSE Relative(1)
  <2>1. motion \in Motions /\ issued + 1 \in Nat
    BY MotionType DEF Typed, TypeOK
  <2>2. merge_motion(motion) \in Motions /\ Moved(meant, motion) \in Positions
    BY <2>1, MergedType, MovedType DEF Typed, TypeOK
  <2> HIDE DEF motion
  <2>3. /\ pending' \in Motions /\ meant' \in Positions /\ issued' \in Nat
        /\ caller' = "merged"
        /\ UNCHANGED <<given, clientVars, call, reply, queue, queued, worker, current,
                       desktop, pointer>>
    BY <1>3, <2>1, <2>2 DEF Motion, motion
  <2> QED BY <2>3 DEF clientVars, Typed, TypeOK, Busy
<1>4. CASE Succeeds
  <2>1. held' \subseteq Lines
    BY <1>4 DEF Succeeds, Recorded, Typed, TypeOK, Busy, Events
  <2> QED BY <1>4, <2>1 DEF Succeeds, Typed, TypeOK, Busy, motionVars
<1>5. CASE Fails
  BY <1>5 DEF Fails, Disconnects, Typed, TypeOK, Busy, motionVars
<1>6. CASE TimesOut
  <2>1. queue' \in Seq(Queueable)
    BY <1>6, MappedQueue DEF TimesOut, Typed, TypeOK, Queueable
  <2>2. /\ current' \in Events \cup Motions \cup {Nothing, Flush}
        /\ current \in Events => current' \in Events
        /\ current \in Motions => current' \in Motions
    BY <1>6, UnheardType DEF TimesOut, Typed, TypeOK
  <2>3. client' \in {"on", "leaving", "gone"} /\ todo' \subseteq Lines
    BY <1>6 DEF TimesOut, Disconnects, Typed, TypeOK
  <2>4. /\ caller' = "idle"
        /\ UNCHANGED <<given, held, call, reply, pending, queued, worker, desktop,
                       motionVars, pointer>>
    BY <1>6 DEF TimesOut
  <2> QED BY <2>1, <2>2, <2>3, <2>4 DEF Typed, TypeOK, Busy, motionVars, Queueable
<1>7. CASE Refused
  BY <1>7 DEF Refused, Disconnects, Typed, TypeOK, Busy, motionVars, callVars
<1>8. CASE Swap
  BY <1>8 DEF Swap, clientVars, Typed, TypeOK, Busy, motionVars
<1>9. CASE SendFlush
  <2>1. queue' \in Seq(Queueable)
    BY <1>9 DEF SendFlush, Typed, TypeOK, Queueable
  <2>2. /\ client' \in {"on", "leaving", "gone"} /\ todo' \subseteq Lines
        /\ queued' \in BOOLEAN
    BY <1>9 DEF SendFlush, Disconnects, Typed, TypeOK
  <2>3. /\ caller' = "idle"
        /\ UNCHANGED <<given, held, call, reply, pending, worker, current, desktop,
                       motionVars, pointer>>
    BY <1>9 DEF SendFlush
  <2> QED BY <2>1, <2>2, <2>3 DEF Typed, TypeOK, Busy, motionVars, Queueable
<1>10. CASE Leave
  BY <1>10 DEF Leave, Typed, TypeOK, Busy, motionVars, callVars
<1>11. CASE Gone
  BY <1>11 DEF Gone, Typed, TypeOK, Busy, motionVars, callVars
<1>12. CASE Connect
  BY <1>12 DEF Connect, Typed, TypeOK, Busy, motionVars, callVars
<1> QED BY <1>1, <1>2, <1>3, <1>4, <1>5, <1>6, <1>7, <1>8, <1>9, <1>10, <1>11, <1>12
        DEF Caller, InsideMotion

LEMMA WorkerTypes == ASSUME Typed, Worker PROVE Typed'
<1> USE DEF given
<1>1. CASE Receive
  <2>1. Head(queue) \in Queueable /\ Tail(queue) \in Seq(Queueable)
    BY <1>1, HeadTailProperties DEF Receive, Typed, TypeOK, Queueable
  <2>2. Head(queue).kind # "flush" => Head(queue) \in Events
    BY <2>1 DEF Queueable, Flush
  <2> QED BY <1>1, <2>1, <2>2
          DEF Receive, Rest, clientVars, motionVars, Typed, TypeOK, Busy, Queueable
<1>2. CASE Notified
  <2>1. current.line \in Lines \cup {Wheel} /\ desktop \subseteq Lines
    BY <1>2 DEF Notified, Typed, TypeOK, Busy, Events
  <2>2. Effect \in {desktop, desktop \cup {current.line}, desktop \ {current.line}}
        /\ (current.line = Wheel => Effect = desktop)
    BY DEF Effect
  <2>3. Effect \subseteq Lines
    BY <2>1, <2>2
  <2>4. desktop' \subseteq Lines /\ worker' \in {"accepted", "rejected"}
    BY <1>2, <2>1, <2>3 DEF Notified
  <2> QED BY <1>2, <2>4
          DEF Notified, Rest, clientVars, motionVars, Typed, TypeOK, Busy
<1>3. CASE Answer
  <2>1. queue' \in Seq(Queueable)
    BY <1>3, EmptySeq DEF Answer, Typed, TypeOK, Queueable
  <2>2. reply' \in {"none", "ok", "failed"} /\ worker' \in {"recv", "dead"}
    BY <1>3 DEF Answer, Typed, TypeOK
  <2> QED BY <1>3, <2>1, <2>2
          DEF Answer, Rest, clientVars, motionVars, Typed, TypeOK, Busy, Queueable
<1>4. CASE Take
  <2>1. current' \in Motions \cup {Nothing} /\ pending' \in Motions \cup {Nothing}
    BY <1>4 DEF Take, Typed, TypeOK
  <2>2. worker' = "clear" \/ (worker' = "move" /\ current' \in Motions)
    BY <1>4, <2>1 DEF Take
  <2>3. Busy'
    BY <1>4, <2>2 DEF Take, Rest, Typed, TypeOK, Busy
  <2>4. TypeOK'
    BY <1>4, <2>1, <2>2 DEF Take, Rest, clientVars, motionVars, Typed, TypeOK
  <2> QED BY <2>3, <2>4 DEF Typed
<1>5. CASE Move
  <2>1. pointer' \in Positions
    BY <1>5, MovedType DEF Move, Typed, TypeOK, Busy
  <2>2. worker' = "take" /\ current' = Nothing
    BY <1>5 DEF Move
  <2>3. Busy'
    BY <1>5, <2>2 DEF Move, Rest, Typed, TypeOK, Busy
  <2>4. TypeOK'
    BY <1>5, <2>1, <2>2 DEF Move, Rest, clientVars, motionVars, Typed, TypeOK
  <2> QED BY <2>3, <2>4 DEF Typed
<1>6. CASE ClearFlag
  <2>1. queued' \in BOOLEAN /\ worker' = "look"
    BY <1>6 DEF ClearFlag
  <2> QED BY <1>6, <2>1
          DEF ClearFlag, Rest, clientVars, motionVars, Typed, TypeOK, Busy
<1>7. CASE Look
  BY <1>7 DEF Look, Rest, clientVars, motionVars, Typed, TypeOK, Busy
<1>8. CASE CompareExchange
  <2>1. queued' \in BOOLEAN /\ worker' \in {"recv", "take"}
    BY <1>8 DEF CompareExchange
  <2> QED BY <1>8, <2>1
          DEF CompareExchange, Rest, clientVars, motionVars, Typed, TypeOK, Busy
<1> QED BY <1>1, <1>2, <1>3, <1>4, <1>5, <1>6, <1>7, <1>8 DEF Worker, Flushing

LEMMA TypeStep == Typed /\ [Next]_vars => Typed'
<1> USE DEF given
<1> SUFFICES ASSUME Typed, [Next]_vars PROVE Typed'
  OBVIOUS
<1>1. CASE UNCHANGED vars
  BY <1>1 DEF vars, Typed, TypeOK, Busy
<1> QED BY <1>1, CallerTypes, WorkerTypes DEF Next

(* What a behaviour is given stays what it is.                             *)
LEMMA GivenStep == ASSUME [Next]_vars PROVE timely' = timely /\ kinds' = kinds
<1>1. CASE Worker
  BY <1>1 DEF Worker, Flushing, Receive, Notified, Answer, Take, Move, ClearFlag,
              Look, CompareExchange, Rest, given
<1>2. CASE Caller
  BY <1>2 DEF Caller, Input, ReleaseHeld, Submit, Motion, Succeeds, Fails, TimesOut,
              Refused, InsideMotion, Swap, SendFlush, Leave, Gone, Connect, given
<1> QED BY <1>1, <1>2 DEF Next, vars, given

(* Every field has its type in every reachable state.                      *)
THEOREM TypeCorrect == Spec => []TypeOK
<1>1. Init => Typed
  BY TypeInit
<1>2. Typed /\ [Next]_vars => Typed'
  BY TypeStep
<1>3. Typed => TypeOK
  BY DEF Typed
<1> QED BY <1>1, <1>2, <1>3, PTL DEF Spec

-----------------------------------------------------------------------------
(* No lost wake-up.  The worker clears the flag before it looks again, the *)
(* caller leaves its motion before it swaps the flag: whoever comes second *)
(* sees the other.                                                         *)
LEMMA StrandedStep ==
  ASSUME Typed, NoStrandedMotion, [Next]_vars PROVE NoStrandedMotion'
<1>1. CASE Caller
  <2>1. CASE \E line \in Lines \cup {Wheel} : \E down \in BOOLEAN : Submit(Event(line, down))
    BY <2>1 DEF Submit, NoStrandedMotion
  <2>2. CASE \E kind \in Kinds : Motion(kind)
    BY <2>2 DEF Motion, NoStrandedMotion
  <2>3. CASE Swap
    BY <2>3 DEF Swap, NoStrandedMotion
  <2>4. CASE SendFlush
    BY <2>4 DEF SendFlush, NoStrandedMotion
  <2>5. CASE Succeeds \/ Fails \/ TimesOut \/ Refused \/ Leave \/ Gone \/ Connect
    BY <2>5 DEF Succeeds, Fails, TimesOut, Refused, Leave, Gone, Connect, callVars,
                NoStrandedMotion
  <2> QED BY <1>1, <2>1, <2>2, <2>3, <2>4, <2>5
          DEF Caller, Input, ReleaseHeld, InsideMotion
<1>2. CASE Worker
  <2>1. CASE Receive \/ Notified \/ Answer
    BY <2>1 DEF Receive, Notified, Answer, Rest, NoStrandedMotion
  <2>2. CASE Take \/ Move
    BY <2>2 DEF Take, Move, Rest, NoStrandedMotion
  <2>3. CASE ClearFlag \/ Look \/ CompareExchange
    BY <2>3 DEF ClearFlag, Look, CompareExchange, Rest, NoStrandedMotion
  <2> QED BY <1>2, <2>1, <2>2, <2>3 DEF Worker, Flushing
<1>3. CASE UNCHANGED vars
  BY <1>3 DEF vars, NoStrandedMotion
<1> QED BY <1>1, <1>2, <1>3 DEF Next

(* A pending motion is always on its way to the worker while it lives.     *)
THEOREM NoStrandedMotionCorrect == Spec => []NoStrandedMotion
<1>1. Init => NoStrandedMotion
  BY DEF Init, NoStrandedMotion
<1>2. Typed /\ NoStrandedMotion /\ [Next]_vars => NoStrandedMotion'
  BY StrandedStep
<1> QED BY <1>1, <1>2, TypeInit, TypeStep, PTL DEF Spec

-----------------------------------------------------------------------------
(* One flush.                                                              *)

Flushes(q) == {i \in DOMAIN q : q[i] = Flush}

LEMMA FlushesFinite ==
  ASSUME NEW q \in Seq(Queueable)
  PROVE  IsFiniteSet(Flushes(q)) /\ Cardinality(Flushes(q)) \in Nat
<1>1. Len(q) \in Nat /\ DOMAIN q = 1..Len(q)
  BY LenProperties
<1>2. IsFiniteSet(1..Len(q))
  BY <1>1, FS_Interval
<1>3. Flushes(q) \subseteq 1..Len(q)
  BY <1>1 DEF Flushes
<1>4. IsFiniteSet(Flushes(q))
  BY <1>2, <1>3, FS_Subset
<1> QED BY <1>4, FS_CardinalityType

(* Appending a flush makes one more.                                       *)
LEMMA AppendFlushes ==
  ASSUME NEW q \in Seq(Queueable), NEW e \in Queueable
  PROVE  Cardinality(Flushes(Append(q, e))) =
           Cardinality(Flushes(q)) + (IF e = Flush THEN 1 ELSE 0)
<1>1. Len(q) \in Nat /\ DOMAIN q = 1..Len(q)
  BY LenProperties
<1>2. /\ DOMAIN Append(q, e) = 1..(Len(q) + 1)
      /\ Append(q, e)[Len(q) + 1] = e
      /\ \A i \in 1..Len(q) : Append(q, e)[i] = q[i]
  BY <1>1
<1>3. Len(q) + 1 \notin Flushes(q)
  BY <1>1 DEF Flushes
<1>4. CASE e = Flush
  <2>1. Flushes(Append(q, e)) = Flushes(q) \cup {Len(q) + 1}
    BY <1>1, <1>2, <1>4 DEF Flushes
  <2> QED BY <1>3, <1>4, <2>1, FlushesFinite, FS_AddElement
<1>5. CASE e # Flush
  <2>1. Flushes(Append(q, e)) = Flushes(q)
    BY <1>1, <1>2, <1>5 DEF Flushes
  <2> QED BY <1>5, <2>1, FlushesFinite
<1> QED BY <1>4, <1>5

(* Receiving one makes one less.                                           *)
LEMMA TailFlushes ==
  ASSUME NEW q \in Seq(Queueable), q # <<>>
  PROVE  Cardinality(Flushes(Tail(q))) =
           Cardinality(Flushes(q)) - (IF Head(q) = Flush THEN 1 ELSE 0)
<1> DEFINE Rear == Flushes(q) \ {1}
           shift == [i \in Rear |-> i - 1]
<1>1. /\ Len(q) \in Nat \ {0} /\ DOMAIN q = 1..Len(q)
      /\ DOMAIN Tail(q) = 1..(Len(q) - 1)
      /\ \A i \in 1..(Len(q) - 1) : Tail(q)[i] = q[i + 1]
      /\ Head(q) = q[1]
  BY LenProperties, HeadTailProperties, EmptySeq
<1>2. /\ \A i \in Rear : i \in 2..Len(q) /\ q[i] = Flush
      /\ \A j \in Flushes(Tail(q)) : j \in Int /\ j + 1 \in Rear
      /\ \A i \in Rear : i \in Int /\ i - 1 \in Flushes(Tail(q))
  BY <1>1 DEF Flushes
<1>3. shift \in Bijection(Rear, Flushes(Tail(q)))
  <2>1. shift \in [Rear -> Flushes(Tail(q))]
    BY <1>2
  <2>2. \A a, b \in Rear : shift[a] = shift[b] => a = b
    BY <1>2
  <2>3. \A t \in Flushes(Tail(q)) : \E r \in Rear : shift[r] = t
    <3> TAKE t \in Flushes(Tail(q))
    <3>1. t + 1 \in Rear /\ shift[t + 1] = t
      BY <1>2
    <3> QED BY <3>1
  <2> QED BY <2>1, <2>2, <2>3, Fun_IsBij
<1>4. IsFiniteSet(Rear)
        /\ Cardinality(Rear) = IF 1 \in Flushes(q) THEN Cardinality(Flushes(q)) - 1
                                                   ELSE Cardinality(Flushes(q))
  BY FlushesFinite, FS_RemoveElement
<1>5. Cardinality(Flushes(Tail(q))) = Cardinality(Rear)
  BY <1>3, <1>4, FS_Bijection DEF ExistsBijection
<1>6. 1 \in Flushes(q) <=> Head(q) = Flush
  BY <1>1 DEF Flushes
<1> QED BY <1>4, <1>5, <1>6, FlushesFinite

LEMMA FlushStep == ASSUME Typed, OneFlush, [Next]_vars PROVE OneFlush'
<1>1. queue \in Seq(Queueable) /\ FlushesQueued = Cardinality(Flushes(queue))
      /\ FlushesQueued' = Cardinality(Flushes(queue'))
  BY DEF FlushesQueued, Flushes, Typed, TypeOK, Queueable
<1>2. FlushesQueued \in Nat
  BY <1>1, FlushesFinite
<1>3. /\ worker # "dead" => FlushesOutstanding = IF queued THEN 1 ELSE 0
      /\ queued \in BOOLEAN
  BY DEF OneFlush, Typed, TypeOK
<1>4. ASSUME UNCHANGED queue PROVE FlushesQueued' = FlushesQueued
  BY <1>1, <1>4
<1>5. CASE Caller
  <2>1. ASSUME NEW line \in Lines \cup {Wheel}, NEW down \in BOOLEAN,
               Submit(Event(line, down))
        PROVE  OneFlush'
    <3>1. Event(line, down) \in Queueable /\ Event(line, down) # Flush
      BY EventType, FlushIsNoEvent DEF Queueable
    <3>2. FlushesQueued' = FlushesQueued
      BY <1>1, <1>2, <2>1, <3>1, AppendFlushes DEF Submit
    <3> QED BY <1>2, <1>3, <2>1, <3>2 DEF Submit, OneFlush, FlushesOutstanding
  <2>2. ASSUME NEW kind \in Kinds, Motion(kind) PROVE OneFlush'
    BY <1>2, <1>3, <1>4, <2>2 DEF Motion, OneFlush, FlushesOutstanding
  <2>3. CASE Swap
    BY <1>2, <1>3, <1>4, <2>3 DEF Swap, OneFlush, FlushesOutstanding
  <2>4. CASE SendFlush
    <3>1. CASE worker = "dead"
      BY <2>4, <3>1 DEF SendFlush, OneFlush
    <3>2. CASE worker # "dead"
      <4>1. FlushesQueued' = FlushesQueued + 1
        BY <1>1, <2>4, <3>2, AppendFlushes DEF SendFlush, Queueable
      <4> QED BY <1>2, <1>3, <2>4, <3>2, <4>1 DEF SendFlush, OneFlush, FlushesOutstanding
    <3> QED BY <3>1, <3>2
  <2>5. CASE TimesOut
    <3>1. DOMAIN queue' = DOMAIN queue
          /\ \A i \in DOMAIN queue : queue'[i] = Unheard(queue[i])
      BY <2>5 DEF TimesOut
    <3>2. \A i \in DOMAIN queue : queue[i] \in Queueable
      BY <1>1, LenProperties, ElementOfSeq
    <3>3. \A e \in Queueable : Unheard(e) = Flush <=> e = Flush
      BY UnheardType DEF Queueable
    <3>4. Flushes(queue') = Flushes(queue)
      BY <3>1, <3>2, <3>3 DEF Flushes
    <3> QED BY <1>1, <1>2, <1>3, <2>5, <3>4 DEF TimesOut, OneFlush, FlushesOutstanding
  <2>6. CASE Succeeds \/ Fails \/ Refused \/ Leave \/ Gone \/ Connect
    <3>1. UNCHANGED <<queue, worker, queued>>
          /\ (caller' = "send" <=> caller = "send")
      BY <2>6 DEF Succeeds, Fails, Refused, Leave, Gone, Connect, callVars
    <3> QED BY <1>2, <1>3, <1>4, <3>1 DEF OneFlush, FlushesOutstanding
  <2> QED BY <1>5, <2>1, <2>2, <2>3, <2>4, <2>5, <2>6
          DEF Caller, Input, ReleaseHeld, InsideMotion
<1>6. CASE Worker
  <2>1. CASE Receive
    <3>1. queue # <<>> /\ queue' = Tail(queue) /\ Head(queue) \in Queueable
      BY <1>1, <2>1, HeadTailProperties DEF Receive
    <3>2. Head(queue).kind = "flush" <=> Head(queue) = Flush
      BY <3>1 DEF Queueable, Flush, Events
    <3>3. FlushesQueued' = FlushesQueued - (IF Head(queue) = Flush THEN 1 ELSE 0)
      BY <1>1, <3>1, TailFlushes
    <3> QED BY <1>2, <1>3, <2>1, <3>2, <3>3
            DEF Receive, Rest, OneFlush, FlushesOutstanding
  <2>2. CASE Notified
    BY <1>2, <1>3, <1>4, <2>2 DEF Notified, Rest, OneFlush, FlushesOutstanding
  <2>3. CASE Answer
    BY <1>2, <1>3, <1>4, <2>3 DEF Answer, Rest, OneFlush, FlushesOutstanding
  <2>4. CASE Flushing
    <3>1. UNCHANGED <<queue, caller>>
      BY <2>4 DEF Flushing, Take, Move, ClearFlag, Look, CompareExchange, Rest
    <3>2. CASE Take \/ Move
      BY <1>2, <1>3, <1>4, <3>1, <3>2
         DEF Take, Move, OneFlush, FlushesOutstanding
    <3>3. CASE ClearFlag \/ Look \/ CompareExchange
      BY <1>2, <1>3, <1>4, <3>1, <3>3
         DEF ClearFlag, Look, CompareExchange, OneFlush, FlushesOutstanding
    <3> QED BY <2>4, <3>2, <3>3 DEF Flushing
  <2> QED BY <1>6, <2>1, <2>2, <2>3, <2>4 DEF Worker
<1>7. CASE UNCHANGED vars
  BY <1>2, <1>3, <1>4, <1>7 DEF vars, OneFlush, FlushesOutstanding
<1> QED BY <1>5, <1>6, <1>7 DEF Next

LEMMA FlushInit == Init => OneFlush
<1> SUFFICES ASSUME Init PROVE OneFlush
  OBVIOUS
<1>1. {i \in DOMAIN queue : queue[i] = Flush} = {}
  BY DEF Init
<1>2. FlushesQueued = 0
  BY <1>1, FS_EmptySet DEF FlushesQueued
<1> QED BY <1>2 DEF Init, OneFlush, FlushesOutstanding

(* motion_queued is exact: as long as the worker lives, it is set when one *)
(* FlushMotion event is outstanding and clear when there is none.          *)
THEOREM OneFlushCorrect == Spec => []OneFlush
<1>1. Typed /\ OneFlush /\ [Next]_vars => OneFlush'
  BY FlushStep
<1> QED BY <1>1, FlushInit, TypeInit, TypeStep, PTL DEF Spec

-----------------------------------------------------------------------------
(* Input follows motion.  At most one event has a caller, who waits for    *)
(* it.  As long as a motion is pending, that event still has a flush in    *)
(* front of it or the worker is about to take the motion.                  *)

Live(e) == e \in Events /\ e.live

OneLive ==
    /\ \A i \in DOMAIN queue :
         Live(queue[i]) => /\ caller = "wait" /\ reply = "none"
                           /\ ~Live(current)
                           /\ \A j \in DOMAIN queue : Live(queue[j]) => j = i
    /\ Live(current) => caller = "wait" /\ reply = "none"
    /\ worker = "dead" => queue = <<>> /\ current = Nothing

Taking == worker \in {"take", "move", "clear"}
Looking == worker \in {"look", "cas"} /\ ~queued
Ahead(i) == \E j \in DOMAIN queue : j < i /\ queue[j] = Flush

Covered ==
    pending # Nothing =>
        \A i \in DOMAIN queue : Live(queue[i]) => Taking \/ Looking \/ Ahead(i)

Following == OneLive /\ Covered /\ InputFollowsMotion

FlushInv == Typed /\ NoStrandedMotion /\ OneFlush

LEMMA NoLive ==
  /\ \A e \in Queueable \cup Motions \cup {Nothing} : ~Live(Unheard(e))
  /\ ~Live(Flush) /\ ~Live(Nothing) /\ \A m \in Motions : ~Live(m)
  BY DEF Live, Unheard, Queueable, Events, Flush, Motions, Nothing

(* A flush that the flag announces is in the queue or in the worker.       *)
LEMMA Announced ==
  ASSUME FlushInv, queued, caller = "idle", worker # "dead", ~Taking
  PROVE  \E j \in DOMAIN queue : queue[j] = Flush
<1>1. FlushesQueued = 1
  <2>1. FlushesQueued \in Nat
    BY FlushesFinite
       DEF FlushInv, FlushesQueued, Flushes, Typed, TypeOK, Queueable
  <2> QED BY <2>1 DEF FlushInv, OneFlush, FlushesOutstanding, Taking
<1>2. Flushes(queue) # {}
  BY <1>1, FS_EmptySet DEF FlushesQueued, Flushes
<1> QED BY <1>2 DEF Flushes

LEMMA SubmitFollows ==
  ASSUME FlushInv, Following, NEW event \in Events, event # Flush, Submit(event)
  PROVE  Following'
<1>1. /\ Len(queue) \in Nat /\ DOMAIN queue = 1..Len(queue)
      /\ DOMAIN queue' = 1..(Len(queue) + 1)
      /\ queue'[Len(queue) + 1] = event
      /\ \A i \in 1..Len(queue) : queue'[i] = queue[i]
  BY LenProperties DEF Submit, FlushInv, Typed, TypeOK
<1>2. \A i \in 1..Len(queue) : ~Live(queue[i])
  BY <1>1 DEF Submit, Following, OneLive
<1>3. ~Live(current) /\ UNCHANGED <<current, worker, queued, pending>>
      /\ caller = "idle" /\ caller' = "wait" /\ reply' = "none" /\ worker # "dead"
  BY DEF Submit, Following, OneLive
<1>4. OneLive'
  BY <1>1, <1>2, <1>3 DEF OneLive, Live
<1>5. ASSUME pending # Nothing PROVE Taking \/ Looking \/ Ahead(Len(queue) + 1)
  <2>1. CASE queued /\ ~Taking
    BY <1>1, <1>3, <2>1, Announced DEF Ahead
  <2>2. CASE ~queued
    BY <1>3, <1>5, <2>2 DEF FlushInv, NoStrandedMotion, Looking
  <2> QED BY <2>1, <2>2
<1>6. Covered'
  <2> SUFFICES ASSUME pending # Nothing, NEW i \in DOMAIN queue', Live(queue'[i])
               PROVE  (Taking \/ Looking)'
                        \/ \E j \in DOMAIN queue' : j < i /\ queue'[j] = Flush
    BY <1>3 DEF Covered, Ahead
  <2>1. i = Len(queue) + 1
    BY <1>1, <1>2
  <2> QED BY <1>1, <1>3, <1>5, <2>1 DEF Ahead, Taking, Looking
<1>7. InputFollowsMotion'
  BY <1>3 DEF Following, InputFollowsMotion
<1> QED BY <1>4, <1>6, <1>7 DEF Following

LEMMA CallerFollows == ASSUME FlushInv, Following, Caller PROVE Following'
<1>1. CASE \E line \in Lines \cup {Wheel} : \E down \in BOOLEAN : Submit(Event(line, down))
  BY <1>1, SubmitFollows, EventType, FlushIsNoEvent
<1>2. ASSUME caller # "wait", UNCHANGED <<queue, worker, current, reply>>
      PROVE  Following'
  <2>1. ~Live(current) /\ \A i \in DOMAIN queue : ~Live(queue[i])
    BY <1>2 DEF Following, OneLive
  <2>2. OneLive' /\ Covered'
    BY <1>2, <2>1 DEF Following, OneLive, Covered, Live
  <2>3. ~(worker = "notify" /\ current.live)
    BY <2>1 DEF FlushInv, Typed, Busy, Live
  <2> QED BY <1>2, <2>2, <2>3 DEF Following, InputFollowsMotion
<1>3. CASE \E kind \in Kinds : Motion(kind)
  BY <1>2, <1>3 DEF Motion
<1>4. CASE Swap
  BY <1>2, <1>4 DEF Swap
<1>5. CASE SendFlush
  <2>1. CASE worker = "dead"
    BY <1>2, <1>5, <2>1 DEF SendFlush
  <2>2. CASE worker # "dead"
    <3>1. /\ Len(queue) \in Nat /\ DOMAIN queue = 1..Len(queue)
          /\ DOMAIN queue' = 1..(Len(queue) + 1)
          /\ queue'[Len(queue) + 1] = Flush
          /\ \A i \in 1..Len(queue) : queue'[i] = queue[i]
      BY <1>5, <2>2, LenProperties DEF SendFlush, FlushInv, Typed, TypeOK
    <3>2. /\ ~Live(current) /\ \A i \in 1..Len(queue) : ~Live(queue[i])
          /\ UNCHANGED <<current, worker, pending>>
      BY <1>5, <3>1 DEF SendFlush, Following, OneLive
    <3>3. \A i \in DOMAIN queue' : ~Live(queue'[i])
      BY <3>1, <3>2, NoLive
    <3>4. OneLive' /\ Covered'
      BY <2>2, <3>2, <3>3 DEF OneLive, Covered, Live
    <3> QED BY <3>2, <3>4 DEF Following, InputFollowsMotion
  <2> QED BY <2>1, <2>2
<1>6. CASE Refused \/ Leave \/ Gone \/ Connect
  <2>1. UNCHANGED <<queue, worker, current, reply, caller, pending, queued>>
    BY <1>6 DEF Refused, Leave, Gone, Connect, callVars
  <2> QED BY <2>1 DEF Following, OneLive, Covered, InputFollowsMotion, Live, Ahead,
                      Taking, Looking
<1>7. CASE Succeeds \/ Fails
  <2>1. UNCHANGED <<queue, worker, current, pending>>
        /\ (reply # "none" \/ worker = "dead")
    BY <1>7 DEF Succeeds, Fails
  <2>2. ~Live(current) /\ \A i \in DOMAIN queue : ~Live(queue[i])
    BY <2>1, NoLive DEF Following, OneLive
  <2> QED BY <2>1, <2>2
          DEF Following, OneLive, Covered, InputFollowsMotion, Live
<1>8. CASE TimesOut
  <2>1. /\ DOMAIN queue' = DOMAIN queue
        /\ \A i \in DOMAIN queue : queue'[i] = Unheard(queue[i])
        /\ current' = Unheard(current) /\ UNCHANGED <<worker, pending>>
        /\ worker # "dead"
    BY <1>8 DEF TimesOut
  <2>2. \A i \in DOMAIN queue : queue[i] \in Queueable
    BY LenProperties, ElementOfSeq DEF FlushInv, Typed, TypeOK, Queueable
  <2>3. ~Live(current') /\ \A i \in DOMAIN queue' : ~Live(queue'[i])
    BY <2>1, <2>2, NoLive DEF FlushInv, Typed, TypeOK, Queueable
  <2>4. OneLive' /\ Covered'
    BY <2>1, <2>3 DEF OneLive, Covered, Live
  <2>5. worker = "notify" => current' \in Events
    BY <2>1, UnheardType DEF FlushInv, Typed, Busy
  <2> QED BY <2>1, <2>3, <2>4, <2>5 DEF Following, InputFollowsMotion, Live
<1> QED BY <1>1, <1>3, <1>4, <1>5, <1>6, <1>7, <1>8
        DEF Caller, Input, ReleaseHeld, InsideMotion

LEMMA WorkerFollows == ASSUME FlushInv, Following, Worker PROVE Following'
<1>1. CASE Receive
  <2> DEFINE head == Head(queue)
  <2>1. /\ Len(queue) \in Nat \ {0} /\ DOMAIN queue = 1..Len(queue)
        /\ DOMAIN queue' = 1..(Len(queue) - 1)
        /\ \A i \in 1..(Len(queue) - 1) : queue'[i] = queue[i + 1]
        /\ head = queue[1] /\ current' = queue[1]
    BY <1>1, LenProperties, HeadTailProperties, EmptySeq
       DEF Receive, FlushInv, Typed, TypeOK
  <2>2. UNCHANGED <<caller, reply, pending, queued>> /\ worker = "recv"
        /\ worker' = IF head.kind = "flush" THEN "take" ELSE "notify"
    BY <1>1 DEF Receive, Rest
  <2>3. queue[1] \in Queueable
    BY <2>1, ElementOfSeq DEF FlushInv, Typed, TypeOK, Queueable
  <2>4. head.kind = "flush" <=> queue[1] = Flush
    BY <2>1, <2>3 DEF Queueable, Flush, Events
  <2>5. OneLive'
    <3>1. \A i \in DOMAIN queue' : i + 1 \in DOMAIN queue /\ i + 1 # 1
      BY <2>1
    <3>2. worker' # "dead"
      BY <2>2
    <3>3. ASSUME NEW i \in DOMAIN queue', Live(queue'[i])
          PROVE  /\ caller' = "wait" /\ reply' = "none" /\ ~Live(current')
                 /\ \A j \in DOMAIN queue' : Live(queue'[j]) => j = i
      <4>1. i \in Int /\ i + 1 \in DOMAIN queue /\ Live(queue[i + 1])
        BY <2>1, <3>3
      <4>2. \A j \in DOMAIN queue : Live(queue[j]) => j = i + 1
        BY <4>1 DEF Following, OneLive
      <4>3. ~Live(current')
        BY <2>1, <3>1, <4>1, <4>2
      <4>4. \A j \in DOMAIN queue' : Live(queue'[j]) => j = i
        BY <2>1, <4>1, <4>2
      <4> QED BY <2>2, <4>1, <4>3, <4>4 DEF Following, OneLive
    <3>4. Live(current') => caller' = "wait" /\ reply' = "none"
      BY <2>1, <2>2 DEF Following, OneLive
    <3> QED BY <3>2, <3>3, <3>4 DEF OneLive, Live
  <2>6. Covered'
    <3> SUFFICES ASSUME pending # Nothing, worker' # "take",
                        NEW i \in DOMAIN queue', Live(queue'[i])
                 PROVE  \E j \in DOMAIN queue' : j < i /\ queue'[j] = Flush
      BY <2>2 DEF Covered, Taking, Ahead, Live
    <3>1. i \in Int /\ i + 1 \in DOMAIN queue /\ Live(queue[i + 1])
      BY <2>1
    <3>2. Ahead(i + 1)
      BY <2>2, <3>1 DEF Following, Covered, Taking, Looking
    <3>3. PICK j \in DOMAIN queue : j < i + 1 /\ queue[j] = Flush
      BY <3>2 DEF Ahead
    <3>4. j # 1
      BY <2>2, <2>4, <3>3
    <3>5. j - 1 \in DOMAIN queue' /\ j - 1 < i /\ queue'[j - 1] = Flush
      BY <2>1, <3>1, <3>3, <3>4
    <3> QED BY <3>5
  <2>7. InputFollowsMotion'
    <3> SUFFICES ASSUME worker' = "notify", current'.live PROVE pending = Nothing
      BY <2>2 DEF InputFollowsMotion
    <3>1. queue[1] \in Events
      BY <2>2, <2>3, <2>4 DEF Queueable
    <3>2. Live(queue[1])
      BY <2>1, <3>1 DEF Live
    <3>3. ~Taking /\ ~Looking /\ ~Ahead(1)
      BY <2>1, <2>2 DEF Taking, Looking, Ahead
    <3> QED BY <2>1, <3>2, <3>3 DEF Following, Covered
  <2> QED BY <2>5, <2>6, <2>7 DEF Following
<1>2. CASE Notified
  <2>1. UNCHANGED <<queue, caller, reply, pending, queued, current>>
        /\ worker = "notify" /\ worker' \in {"accepted", "rejected"}
    BY <1>2 DEF Notified, Rest
  <2>2. OneLive'
    BY <2>1 DEF Following, OneLive, Live
  <2>3. Covered' /\ InputFollowsMotion'
    BY <2>1 DEF Following, Covered, InputFollowsMotion, Taking, Looking, Ahead, Live
  <2> QED BY <2>2, <2>3 DEF Following
<1>3. CASE Answer
  <2>1. UNCHANGED <<caller, pending, queued>> /\ current' = Nothing
        /\ (queue' = queue \/ queue' = <<>>)
        /\ (worker' = "dead" => queue' = <<>>) /\ worker' \in {"recv", "dead"}
        /\ worker \in {"accepted", "rejected"}
        /\ (~current.live => reply' = reply)
    BY <1>3 DEF Answer, Rest
  <2>2. current \in Events
    BY <2>1 DEF FlushInv, Typed, Busy
  <2>3. \A i \in DOMAIN queue : Live(queue[i]) => ~current.live
    BY <2>2 DEF Following, OneLive, Live
  <2>4. \A i \in DOMAIN queue' : i \in DOMAIN queue /\ queue'[i] = queue[i]
    BY <2>1
  <2>5. OneLive'
    BY <2>1, <2>3, <2>4, NoLive DEF Following, OneLive, Live
  <2>6. Covered'
    BY <2>1 DEF Following, Covered, Taking, Looking, Ahead, Live
  <2>7. InputFollowsMotion'
    BY <2>1 DEF InputFollowsMotion
  <2> QED BY <2>5, <2>6, <2>7 DEF Following
<1>4. CASE Flushing
  <2>1. UNCHANGED <<queue, caller, reply>>
    BY <1>4 DEF Flushing, Take, Move, ClearFlag, Look, CompareExchange, Rest
  <2>2. worker' \in {"recv", "clear", "move", "take", "look", "cas"}
    BY <1>4 DEF Flushing, Take, Move, ClearFlag, Look, CompareExchange
  <2>3. worker # "dead"
    BY <1>4 DEF Flushing, Take, Move, ClearFlag, Look, CompareExchange
  <2>4. current' = current \/ ~Live(current')
    BY <1>4, NoLive
       DEF Flushing, Take, Move, ClearFlag, Look, CompareExchange, FlushInv, Typed, TypeOK
  <2>5. OneLive'
    BY <2>1, <2>2, <2>4 DEF Following, OneLive, Live
  <2>6. Covered'
    <3>1. CASE Take
      BY <3>1 DEF Take, Covered
    <3>2. CASE Move \/ ClearFlag
      BY <2>1, <3>2 DEF Move, ClearFlag, Covered, Taking, Looking
    <3>3. CASE Look \/ CompareExchange
      BY <2>1, <3>3
         DEF Look, CompareExchange, Following, Covered, Taking, Looking, Ahead, Live
    <3> QED BY <1>4, <3>1, <3>2, <3>3 DEF Flushing
  <2>7. InputFollowsMotion'
    BY <2>2 DEF InputFollowsMotion
  <2> QED BY <2>5, <2>6, <2>7 DEF Following
<1> QED BY <1>1, <1>2, <1>3, <1>4 DEF Worker

(* A key, a button or the wheel acts where the client's pointer was: every *)
(* motion its client sent before it has reached the portal.                *)
THEOREM InputFollowsMotionCorrect == Spec => []InputFollowsMotion
<1> DEFINE Inv == FlushInv /\ Following
<1>1. Init => Inv
  <2>1. Init => NoStrandedMotion /\ Following
    BY NoLive DEF Init, NoStrandedMotion, Following, OneLive, Covered, InputFollowsMotion
  <2> QED BY <2>1, TypeInit, FlushInit DEF FlushInv
<1>2. Inv /\ [Next]_vars => Inv'
  <2> SUFFICES ASSUME Inv, [Next]_vars PROVE Inv'
    OBVIOUS
  <2>1. FlushInv'
    BY TypeStep, StrandedStep, FlushStep DEF FlushInv
  <2>2. CASE UNCHANGED vars
    BY <2>1, <2>2 DEF vars, Following, OneLive, Covered, InputFollowsMotion, Live,
                      Taking, Looking, Ahead
  <2> QED BY <2>1, <2>2, CallerFollows, WorkerFollows DEF Next
<1>3. Inv => InputFollowsMotion
  BY DEF Following
<1> QED BY <1>1, <1>2, <1>3, PTL DEF Spec
-----------------------------------------------------------------------------
(* Merging loses no motion, when clients send motions of one kind and the  *)
(* portal accepts them: what is on its way takes the pointer from where it *)
(* is to where the client meant it to be.                                  *)

Underway == IF worker = "move" THEN Moved(pointer, current) ELSE pointer
Arriving ==
    /\ pending # Nothing => pending.kind \in kinds
    /\ meant = IF pending = Nothing THEN Underway ELSE Moved(Underway, pending)

(* Two motions of one kind, merged, have the effect of both.               *)
LEMMA MergedMoves ==
  ASSUME OneKind, kinds \subseteq {"absolute", "relative"}, TypeOK, pending # Nothing => pending.kind \in kinds,
         NEW p \in Positions, NEW m \in Motions, m.kind \in kinds
  PROVE  /\ merge_motion(m).kind \in kinds
         /\ Moved(p, merge_motion(m)) =
              Moved(IF pending = Nothing THEN p ELSE Moved(p, pending), m)
<1> USE DEF merge_motion, Moved, Positions, Motions, Nothing, TypeOK
<1>1. CASE pending = Nothing
  BY <1>1
<1>2. CASE pending # Nothing /\ m.kind = "absolute"
  BY <1>2
<1>3. CASE pending # Nothing /\ m.kind = "relative"
  <2>1. pending.kind = "relative"
    <3>1. pending.kind \in kinds /\ "relative" \in kinds
      BY <1>3
    <3>2. "absolute" \in kinds => kinds = {"absolute", "relative"}
      BY <3>1, ZenonT(30)
    <3>3. pending.kind = "absolute" \/ pending.kind = "relative"
      BY <3>1
    <3> QED BY <3>1, <3>2, <3>3 DEF OneKind
  <2>2. /\ pending.steps \in Nat /\ m.steps \in Nat /\ p.steps \in Nat
        /\ merge_motion(m) = Relative(pending.steps + m.steps)
    BY <1>3, <2>1
  <2>3. Moved(p, pending) = [p EXCEPT !.steps = @ + pending.steps]
    BY <2>1
  <2>4. Moved(Moved(p, pending), m) = [p EXCEPT !.steps = @ + pending.steps + m.steps]
    BY <1>3, <2>2, <2>3
  <2>5. Moved(p, merge_motion(m)) = [p EXCEPT !.steps = @ + (pending.steps + m.steps)]
    BY <2>2, SMTT(30) DEF Relative
  <2>6. merge_motion(m).kind \in kinds
    BY <1>3, <2>2 DEF Relative
  <2>7. pending.steps + m.steps = m.steps + pending.steps
    BY <2>2
  <2>8. Moved(p, merge_motion(m)) = Moved(Moved(p, pending), m)
    <3>1. p.steps + pending.steps + m.steps = p.steps + (pending.steps + m.steps)
      BY <2>2
    <3> HIDE DEF Moved, merge_motion
    <3> QED BY <2>4, <2>5, <3>1
  <2> HIDE DEF Moved, merge_motion
  <2> QED BY <1>3, <2>6, <2>8
<1> QED BY <1>1, <1>2, <1>3

LEMMA ArrivingStep ==
  ASSUME timely, OneKind, Typed, Arriving, [Next]_vars PROVE Arriving'
<1>0. kinds' = kinds /\ kinds \subseteq {"absolute", "relative"}
  BY GivenStep, PortalAssumption DEF Typed, TypeOK
<1>1. CASE UNCHANGED <<pending, meant, pointer>> /\ Underway' = Underway
  BY <1>0, <1>1 DEF Arriving
<1>2. ASSUME NEW kind \in Kinds, Motion(kind) PROVE Arriving'
  <2> DEFINE motion == IF kind = "absolute" THEN Absolute(issued + 1) ELSE Relative(1)
  <2>1. motion \in Motions /\ motion.kind = kind
    BY PortalAssumption, MotionType DEF Typed, TypeOK, Absolute, Relative
  <2>2. Underway \in Positions
    BY MovedType DEF Underway, Typed, TypeOK, Busy
  <2> HIDE DEF motion
  <2>3. /\ pending' = merge_motion(motion) /\ meant' = Moved(meant, motion)
        /\ kind \in kinds /\ UNCHANGED <<worker, pointer, current>>
    BY <1>2 DEF Motion, motion
  <2>4. pending' # Nothing /\ Underway' = Underway
    BY <2>1, <2>3, MergedType DEF Typed, TypeOK, Motions, Nothing, Underway
  <2>5. /\ merge_motion(motion).kind \in kinds
        /\ Moved(Underway, merge_motion(motion)) = Moved(meant, motion)
    BY <1>0, <2>1, <2>2, <2>3, MergedMoves DEF Arriving, Typed
  <2> QED BY <1>0, <2>3, <2>4, <2>5 DEF Arriving
<1>3. CASE Take
  BY <1>0, <1>3 DEF Take, Rest, motionVars, Arriving, Underway
<1>4. CASE Move
  BY <1>0, <1>4 DEF Move, Rest, motionVars, Arriving, Underway
<1>5. CASE TimesOut
  <2>1. worker = "move" => current' = current
    BY <1>5, UnheardType DEF TimesOut, Typed, Busy
  <2> QED BY <1>1, <1>5, <2>1 DEF TimesOut, motionVars, Underway
<1>6. CASE \E line \in Lines \cup {Wheel} : \E down \in BOOLEAN : Submit(Event(line, down))
  BY <1>1, <1>6 DEF Submit, motionVars, Underway
<1>7. CASE Succeeds \/ Fails \/ Refused \/ Leave \/ Gone \/ Connect \/ Swap \/ SendFlush
  BY <1>1, <1>7 DEF Succeeds, Fails, Refused, Leave, Gone, Connect, Swap, SendFlush,
                    motionVars, Underway
<1>8. CASE Receive \/ Notified \/ Answer \/ ClearFlag \/ Look \/ CompareExchange
  BY <1>1, <1>8 DEF Receive, Notified, Answer, ClearFlag, Look, CompareExchange, Rest,
                    motionVars, Underway
<1>9. CASE UNCHANGED vars
  BY <1>1, <1>9 DEF vars, Underway
<1> QED BY <1>2, <1>3, <1>4, <1>5, <1>6, <1>7, <1>8, <1>9
        DEF Next, Caller, Worker, Flushing, InsideMotion, Input, ReleaseHeld

(* When clients send motions of one kind and the portal accepts them, the  *)
(* pointer is where they meant it to be as soon as nothing is pending,     *)
(* however many motions were merged and whichever calls timed out.         *)
THEOREM PointerArrivesCorrect == Spec => []PointerArrives
<1> DEFINE Inv == Typed /\ (timely /\ OneKind => Arriving)
<1>1. Init => Inv
  BY TypeInit DEF Init, Arriving, Underway
<1>2. Inv /\ [Next]_vars => Inv'
  BY TypeStep, ArrivingStep, GivenStep DEF OneKind
<1>3. Inv => PointerArrives
  BY DEF Arriving, Underway, PointerArrives
<1> QED BY <1>1, <1>2, <1>3, PTL DEF Spec
-----------------------------------------------------------------------------
(* A disconnect leaves no key down, when the portal accepts and answers in *)
(* time: the only event on its way is the one its caller waits for, so the *)
(* desktop has what the client holds, and release_all names all of that.   *)

OnlyFlushes(q) == \A i \in DOMAIN q : q[i] = Flush
OneCall(q) ==
    \E i \in DOMAIN q : q[i] = call /\ \A j \in DOMAIN q \ {i} : q[j] = Flush
Handling == worker \in {"notify", "accepted"}

Answered ==
    /\ OnlyFlushes(queue)
    /\ IF reply = "ok" THEN ~Handling /\ desktop = Recorded
       ELSE /\ Handling /\ current = call
            /\ desktop = IF worker = "accepted" THEN Recorded ELSE held
Waiting == reply = "none" /\ OneCall(queue) /\ ~Handling /\ desktop = held

Accepting ==
    /\ worker \notin {"rejected", "dead"} /\ reply # "failed"
    /\ IF caller = "wait" THEN call.live /\ (Waiting \/ Answered)
                          ELSE OnlyFlushes(queue) /\ ~Handling /\ desktop = held

Leaving ==
    /\ client = "leaving" =>
         IF caller = "wait" THEN ~call.down /\ held \subseteq todo \cup {call.line}
                            ELSE held \subseteq todo
    /\ client = "gone" => held = {} /\ caller # "wait"

LEMMA QueueEnds ==
  ASSUME NEW q \in Seq(Queueable), OnlyFlushes(q), NEW e \in Queueable
  PROVE  /\ OnlyFlushes(Append(q, Flush))
         /\ \E i \in DOMAIN Append(q, e) : Append(q, e)[i] = e
               /\ \A j \in DOMAIN Append(q, e) \ {i} : Append(q, e)[j] = Flush
<1>1. Flush \in Queueable /\ Len(q) \in Nat /\ DOMAIN q = 1..Len(q)
  BY LenProperties DEF Queueable
<1>2. ASSUME NEW x \in Queueable
      PROVE  /\ DOMAIN Append(q, x) = 1..(Len(q) + 1)
             /\ \A i \in 1..Len(q) : Append(q, x)[i] = q[i]
             /\ Append(q, x)[Len(q) + 1] = x
  BY <1>1, AppendProperties
<1>3. \A i \in 1..Len(q) : q[i] = Flush
  BY <1>1 DEF OnlyFlushes
<1>4. OnlyFlushes(Append(q, Flush))
  BY <1>1, <1>2, <1>3 DEF OnlyFlushes
<1>5. /\ Len(q) + 1 \in DOMAIN Append(q, e) /\ Append(q, e)[Len(q) + 1] = e
      /\ \A j \in DOMAIN Append(q, e) \ {Len(q) + 1} : Append(q, e)[j] = Flush
  BY <1>1, <1>2, <1>3
<1> QED BY <1>4, <1>5

LEMMA AcceptingCaller ==
  ASSUME timely, Typed, Accepting, Leaving, Caller
  PROVE  Accepting' /\ Leaving'
<1> USE DEF Accepting, Leaving, Handling
<1>1. ASSUME NEW line \in Lines \cup {Wheel}, NEW down \in BOOLEAN,
             Submit(Event(line, down)), held' = held
      PROVE  /\ Accepting' /\ caller' = "wait" /\ caller = "idle"
             /\ call'.down = down /\ call'.line = line
  <2>1. queue \in Seq(Queueable) /\ Event(line, down) \in Queueable
    BY EventType DEF Typed, TypeOK, Queueable
  <2>2. OnlyFlushes(queue) /\ desktop = held /\ ~Handling
    BY <1>1 DEF Submit
  <2>3. /\ queue' = Append(queue, Event(line, down)) /\ call' = Event(line, down)
        /\ caller = "idle" /\ caller' = "wait" /\ reply' = "none"
        /\ worker' = worker /\ desktop' = desktop
    BY <1>1 DEF Submit
  <2>4. OneCall(queue)'
    BY <2>1, <2>2, <2>3, QueueEnds DEF OneCall
  <2>5. call'.live /\ call'.down = down /\ call'.line = line
    BY <2>3 DEF Event
  <2> QED BY <1>1, <2>2, <2>3, <2>4, <2>5 DEF Waiting
<1>2. ASSUME NEW line \in Lines \cup {Wheel}, NEW down \in BOOLEAN, Input(line, down)
      PROVE  Accepting' /\ Leaving'
  BY <1>1, <1>2 DEF Input, clientVars
<1>3. ASSUME NEW line \in Lines, ReleaseHeld(line) PROVE Accepting' /\ Leaving'
  <2>1. /\ Accepting' /\ caller' = "wait" /\ caller = "idle"
        /\ ~call'.down /\ call'.line = line
    BY <1>1, <1>3 DEF ReleaseHeld
  <2> QED BY <1>3, <2>1 DEF ReleaseHeld
<1>4. ASSUME NEW kind \in Kinds, Motion(kind) PROVE Accepting' /\ Leaving'
  BY <1>4 DEF Motion, clientVars
<1>5. CASE Succeeds
  <2>1. Answered /\ desktop = Recorded
    BY <1>5 DEF Succeeds, Waiting, Answered
  <2>2. client = "leaving" => held' \subseteq todo
    BY <1>5, PortalAssumption DEF Succeeds, Recorded, Typed, TypeOK
  <2> QED BY <1>5, <2>1, <2>2 DEF Succeeds, Answered
<1>6. ~Fails /\ ~TimesOut /\ ~Refused
  BY DEF Fails, TimesOut, Refused
<1>7. CASE Swap
  BY <1>7 DEF Swap, clientVars
<1>8. CASE SendFlush
  <2>1. OnlyFlushes(queue')
    BY <1>8, QueueEnds DEF SendFlush, Typed, TypeOK, Queueable
  <2> QED BY <1>8, <2>1 DEF SendFlush
<1>9. CASE Leave \/ Gone \/ Connect
  BY <1>9 DEF Leave, Gone, Connect, callVars
<1> QED BY <1>2, <1>3, <1>4, <1>5, <1>6, <1>7, <1>8, <1>9 DEF Caller, InsideMotion

LEMMA AcceptingWorker ==
  ASSUME timely, Typed, Accepting, Leaving, Worker
  PROVE  Accepting' /\ Leaving'
<1> USE DEF Accepting, Handling
<1>0. Rest
  BY DEF Worker, Flushing, Receive, Notified, Answer, Take, Move, ClearFlag, Look,
         CompareExchange
<1>1. Leaving'
  BY <1>0 DEF Leaving, Rest, clientVars
<1>2. CASE Receive
  <2>1. /\ queue \in Seq(Queueable) /\ queue # << >>
        /\ queue' = Tail(queue) /\ current' = Head(queue)
        /\ worker' = IF Head(queue).kind = "flush" THEN "take" ELSE "notify"
        /\ UNCHANGED <<held, caller, call, reply, desktop>> /\ ~Handling
    BY <1>0, <1>2 DEF Receive, Rest, clientVars, Typed, TypeOK, Queueable
  <2>2. /\ Len(queue) \in Nat \ {0} /\ DOMAIN queue = 1..Len(queue)
        /\ DOMAIN queue' = 1..(Len(queue) - 1) /\ Head(queue) = queue[1]
        /\ \A i \in 1..(Len(queue) - 1) : queue'[i] = queue[i + 1]
    BY <2>1, LenProperties, HeadTailProperties, EmptySeq
  <2>3. CASE OnlyFlushes(queue)
    <3>1. OnlyFlushes(queue')
      BY <2>2, <2>3 DEF OnlyFlushes
    <3>2. worker' = "take"
      BY <2>1, <2>2, <2>3 DEF OnlyFlushes, Flush
    <3>3. caller = "wait" => Answered /\ reply = "ok"
      <4>1. caller = "wait" => call \in Events
        BY DEF Typed, Busy
      <4> QED BY <2>1, <2>3, <4>1, FlushIsNoEvent
              DEF Waiting, OneCall, OnlyFlushes, Answered
    <3> QED BY <1>1, <2>1, <3>1, <3>2, <3>3 DEF Answered, Recorded
  <2>4. CASE ~OnlyFlushes(queue)
    <3>1. caller = "wait" /\ Waiting /\ call.live
      BY <2>4 DEF Answered
    <3>2. PICK i \in DOMAIN queue :
               queue[i] = call /\ \A j \in DOMAIN queue \ {i} : queue[j] = Flush
      BY <3>1 DEF Waiting, OneCall
    <3>3. CASE i = 1
      <4>1. current' = call /\ worker' = "notify"
        <5>1. call \in Events
          BY <3>1 DEF Typed, Busy
        <5> QED BY <2>1, <2>2, <3>2, <3>3, <5>1 DEF Events
      <4>2. OnlyFlushes(queue')
        BY <2>2, <3>2, <3>3 DEF OnlyFlushes
      <4> QED BY <1>1, <2>1, <3>1, <4>1, <4>2 DEF Waiting, Answered
    <3>4. CASE i # 1
      <4>1. worker' = "take"
        BY <2>1, <2>2, <3>2, <3>4 DEF Flush
      <4>2. i - 1 \in DOMAIN queue' /\ queue'[i - 1] = call'
        BY <2>1, <2>2, <3>2, <3>4
      <4>3. \A j \in DOMAIN queue' \ {i - 1} : queue'[j] = Flush
        BY <2>2, <3>2
      <4>4. OneCall(queue)'
        BY <4>2, <4>3 DEF OneCall
      <4> QED BY <1>1, <2>1, <3>1, <4>1, <4>4 DEF Waiting
    <3> QED BY <3>3, <3>4
  <2> QED BY <2>3, <2>4
<1>3. CASE Notified
  <2>1. caller = "wait" /\ Answered /\ reply = "none" /\ current = call /\ desktop = held
    BY <1>3 DEF Notified, Waiting, Answered, Typed, TypeOK
  <2>2. Effect = Recorded
    BY <2>1, PortalAssumption DEF Effect, Recorded, Typed, TypeOK
  <2>3. /\ worker' = "accepted" /\ desktop' = Effect
        /\ UNCHANGED <<held, caller, call, reply, queue, current>>
    BY <1>0, <1>3 DEF Notified, Rest, clientVars
  <2> QED BY <1>1, <2>1, <2>2, <2>3 DEF Answered, Recorded
<1>4. CASE Answer
  <2>1. worker = "accepted"
    BY <1>4 DEF Answer
  <2>2. caller = "wait" /\ Answered /\ current = call /\ desktop = Recorded
    BY <2>1 DEF Waiting, Answered
  <2>3. reply' = "ok" /\ worker' = "recv" /\ UNCHANGED <<held, caller, call, queue, desktop>>
    BY <1>0, <1>4, <2>1, <2>2 DEF Answer, Rest, clientVars
  <2> QED BY <1>1, <2>2, <2>3 DEF Answered, Recorded
<1>5. CASE Flushing
  <2>1. /\ ~Handling /\ ~Handling' /\ worker' \notin {"rejected", "dead"}
        /\ UNCHANGED <<held, caller, call, reply, queue, desktop>>
    BY <1>0, <1>5 DEF Flushing, Take, Move, ClearFlag, Look, CompareExchange, Rest, clientVars
  <2> QED BY <1>1, <2>1 DEF Waiting, Answered, Recorded, OneCall
<1> QED BY <1>2, <1>3, <1>4, <1>5 DEF Worker

(* When the portal accepts and answers in time, a client that is gone has  *)
(* left no key down on the desktop (release_all of the bridge and of the   *)
(* backend), whatever it held when its stream ended.                       *)
THEOREM DisconnectLiftsKeysCorrect == Spec => []DisconnectLiftsKeys
<1> DEFINE Inv == Typed /\ (timely => Accepting /\ Leaving)
<1>1. Init => Inv
  <2>1. DOMAIN << >> = {}
    BY EmptySeq
  <2> QED BY <2>1, TypeInit DEF Init, Accepting, Leaving, Handling, OnlyFlushes
<1>2. ASSUME timely, Typed, Accepting, Leaving, [Next]_vars PROVE Accepting' /\ Leaving'
  <2>1. CASE UNCHANGED vars
    BY <1>2, <2>1 DEF vars, Accepting, Leaving, Handling, Waiting, Answered, Recorded,
                      OneCall
  <2> QED BY <1>2, <2>1, AcceptingCaller, AcceptingWorker DEF Next
<1>3. Inv /\ [Next]_vars => Inv'
  BY <1>2, TypeStep, GivenStep
<1>4. Inv => DisconnectLiftsKeys
  BY DEF Accepting, Leaving, DisconnectLiftsKeys
<1> QED BY <1>1, <1>3, <1>4, PTL DEF Spec
=============================================================================
