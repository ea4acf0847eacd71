--------------------------- MODULE TerminalService ---------------------------
(* The terminal service (src/terminal.rs): it admits up to MaxSessions     *)
(* connections of the ConPTY adapter, starts a login shell on a pseudo-    *)
(* terminal for each, carries frames to it, and ends the shell when the    *)
(* connection ends.  Around it are the adapters, which send a frame as a   *)
(* header and a payload, and the shells with what they leave running.      *)
EXTENDS Naturals, Sequences, FiniteSets

CONSTANTS
    Peers,          \* connections of the adapter, one per terminal opened
    MaxSessions,    \* MAX_SESSIONS
    MaxFrames       \* bound: frames the adapters send

ASSUME TerminalAssumption ==
    IsFiniteSet(Peers) /\ MaxSessions \in Nat /\ MaxFrames \in Nat

VARIABLES
    active,     \* the session counter
    phase,      \* where handle_connection is
    reading,    \* the kind of the frame whose payload it reads
    shell,      \* the shell: "none", "live", "exited" or "reaped"
    background, \* whether processes the shell left hold the terminal
    output,     \* the thread copying the terminal's output: "none", "on", "off"
    entered,    \* the payloads written to the terminal
    wire,       \* chunks on their way to the service
    unsent,     \* what the adapter still has to send of its frame
    sent,       \* frames begun, on all connections
    typed,      \* how many it has begun that carry keystrokes
    closed,     \* it has shut its socket down
    cut         \* a pause cut one of its headers in two

serverVars == <<active, phase, reading>>
shellVars == <<shell, background, output, entered>>
peerVars == <<unsent, sent, typed, closed>>
vars == <<active, phase, reading, shell, background, output, entered, wire,
          unsent, sent, typed, closed, cut>>

Kinds == {"data", "resize", "eof"}
Head1(kind) == [part |-> "head", of |-> kind, number |-> 0]
Head2 == [part |-> "tail", of |-> "none", number |-> 0]
Payload(kind, number) == [part |-> "body", of |-> kind, number |-> number]

Frame(kind, number) ==
    <<Head1(kind), Head2>>
        \o (IF kind = "eof" THEN <<>> ELSE <<Payload(kind, number)>>)

Init ==
    /\ active = 0
    /\ phase = [p \in Peers |-> "out"] /\ reading = [p \in Peers |-> "none"]
    /\ shell = [p \in Peers |-> "none"] /\ output = [p \in Peers |-> "none"]
    /\ background = [p \in Peers |-> FALSE]
    /\ entered = [p \in Peers |-> <<>>] /\ wire = [p \in Peers |-> <<>>]
    /\ unsent = [p \in Peers |-> <<>>]
    /\ sent = 0 /\ typed = [p \in Peers |-> 0]
    /\ closed = [p \in Peers |-> FALSE] /\ cut = [p \in Peers |-> FALSE]

Serving == {"hello", "header", "payload", "write", "hangup", "wait", "join"}
Reading == {"header", "payload", "write"}
Enter(p, next) == phase' = [phase EXCEPT ![p] = next]

(* SessionCount gives the slot back whichever way handle_connection ends.  *)
LeaveMutant(p, how) == Enter(p, how) /\ UNCHANGED active
Leave(p, how) == Enter(p, how) /\ active' = active - 1

-----------------------------------------------------------------------------
(* The accept loop and the handshake.                                      *)

Full == active >= MaxSessions

Accept(p) ==
    /\ phase[p] = "out"
    /\ IF Full THEN Enter(p, "refused") /\ UNCHANGED active
               ELSE Enter(p, "hello") /\ active' = active + 1
    /\ UNCHANGED <<reading, shellVars, wire, peerVars, cut>>

(* The greeting and the token are right, and the shell starts.             *)
Greeted(p) ==
    /\ phase[p] = "hello"
    /\ Enter(p, "header")
    /\ shell' = [shell EXCEPT ![p] = "live"]
    /\ output' = [output EXCEPT ![p] = "on"]
    /\ UNCHANGED <<active, reading, background, entered, wire, peerVars, cut>>

(* They are wrong, late or incomplete, or no shell can be started.         *)
Rejected(p) ==
    /\ phase[p] = "hello"
    /\ Leave(p, "rejected")
    /\ UNCHANGED <<reading, shellVars, wire, peerVars, cut>>

-----------------------------------------------------------------------------
(* The frame loop.  An error leaves it without the steps that follow it.   *)

Abandon(p) == Leave(p, "failed") /\ UNCHANGED reading

(* Eight bytes have come.  When the first of them are not the start of a   *)
(* header they can mean anything.                                          *)
ReadHeader(p) ==
    /\ phase[p] = "header"
    /\ Len(wire[p]) >= 2
    /\ wire' = [wire EXCEPT ![p] = SubSeq(@, 3, Len(@))]
    /\ \E kind \in IF wire[p][1].part = "head" THEN {wire[p][1].of}
                                               ELSE Kinds \cup {"invalid"} :
         IF kind = "invalid" THEN Abandon(p)
         ELSE /\ Enter(p, IF kind = "eof" THEN "hangup" ELSE "payload")
              /\ reading' = [reading EXCEPT ![p] = kind]
              /\ UNCHANGED active
    /\ UNCHANGED <<shellVars, peerVars, cut>>

(* A new size takes effect at once; keystrokes have to be written to the   *)
(* terminal first.                                                         *)
Open(p) == shell[p] = "live" \/ background[p]

NextFrame(p) == Enter(p, "header") /\ wire' = [wire EXCEPT ![p] = Tail(@)]

ReadPayload(p) ==
    /\ phase[p] = "payload"
    /\ wire[p] # <<>>
    /\ IF reading[p] = "data" THEN Enter(p, "write") /\ UNCHANGED wire
                              ELSE NextFrame(p)
    /\ UNCHANGED <<active, reading, shellVars, peerVars, cut>>

(* master.write_all ends when the terminal has taken the payload.  It has  *)
(* no timeout: as long as the programs that have the terminal open do not  *)
(* read and its buffer is full, it blocks.                                 *)
Written(p) ==
    /\ phase[p] = "write" /\ wire[p] # <<>> /\ Open(p)
    /\ entered' = [entered EXCEPT ![p] = Append(@, Head(wire[p]))]
    /\ NextFrame(p)
    /\ UNCHANGED <<active, reading, shell, background, output, peerVars, cut>>

(* When nobody has the terminal open, it fails.                            *)
WriteFails(p) ==
    /\ phase[p] = "write" /\ ~Open(p)
    /\ Abandon(p)
    /\ wire' = [wire EXCEPT ![p] = <<>>]
    /\ UNCHANGED <<shellVars, peerVars, cut>>

(* Half a second without the missing bytes.  In a header what has come of  *)
(* it is forgotten and the shell is looked at; in a payload it is an error.*)
PauseInPayloadMutant(p) ==
    phase[p] = "payload" /\ wire[p] = <<>> /\ Enter(p, "header")
        /\ UNCHANGED <<active, reading, wire, cut, shell>>
PauseInPayload(p) ==
    phase[p] = "payload" /\ wire[p] = <<>> /\ Abandon(p)
        /\ UNCHANGED <<wire, cut, shell>>

PauseInHeader(p) ==
    /\ phase[p] = "header"
    /\ Len(wire[p]) < 2
    /\ wire' = [wire EXCEPT ![p] = <<>>]
    /\ cut' = [cut EXCEPT ![p] = @ \/ wire[p] # <<>>]
    /\ IF shell[p] = "exited"
         THEN Enter(p, "hangup") /\ shell' = [shell EXCEPT ![p] = "reaped"]
         ELSE UNCHANGED <<phase, shell>>
    /\ UNCHANGED <<active, reading>>

Pause(p) ==
    /\ ~closed[p]
    /\ PauseInHeader(p) \/ PauseInPayload(p)
    /\ UNCHANGED <<background, output, entered, peerVars>>

EndOfStreamMutant(p) ==
    /\ closed[p] /\ phase[p] = "header" /\ Len(wire[p]) < 2
    /\ Enter(p, "hangup")
    /\ wire' = [wire EXCEPT ![p] = <<>>]
    /\ UNCHANGED <<active, reading, shellVars, peerVars, cut>>
EndOfStream(p) ==
    /\ closed[p]
    /\ \/ phase[p] = "header" /\ Len(wire[p]) < 2 /\ Enter(p, "hangup")
          /\ UNCHANGED <<active, reading>>
       \/ phase[p] = "payload" /\ wire[p] = <<>> /\ Abandon(p)
    /\ wire' = [wire EXCEPT ![p] = <<>>]
    /\ UNCHANGED <<shellVars, peerVars, cut>>

(* After the loop: SIGHUP, wait for the shell, join the output thread.     *)
HangUp(p) ==
    /\ phase[p] = "hangup"
    /\ Enter(p, "wait")
    /\ UNCHANGED <<active, reading, shellVars, wire, peerVars, cut>>

ReapMutant(p) ==
    /\ phase[p] = "wait"
    /\ Enter(p, "join")
    /\ UNCHANGED <<active, reading, shellVars, wire, peerVars, cut>>
Reap(p) ==
    /\ phase[p] = "wait"
    /\ shell[p] \in {"exited", "reaped"}
    /\ shell' = [shell EXCEPT ![p] = "reaped"]
    /\ Enter(p, "join")
    /\ UNCHANGED <<active, reading, background, output, entered, wire, peerVars, cut>>

Join(p) ==
    /\ phase[p] = "join"
    /\ output[p] = "off"
    /\ Leave(p, "done")
    /\ UNCHANGED <<reading, shellVars, wire, peerVars, cut>>

(* The output thread ends when nobody has the terminal open, or when its   *)
(* socket is gone.                                                         *)
OutputEnds(p) ==
    /\ output[p] = "on"
    /\ ~Open(p) \/ closed[p]
    /\ output' = [output EXCEPT ![p] = "off"]
    /\ UNCHANGED <<serverVars, shell, background, entered, wire, peerVars, cut>>

-----------------------------------------------------------------------------
(* Shells and adapters.                                                    *)

(* A shell ends by itself or hung up, by SIGHUP or because the last file   *)
(* of the terminal's other side is closed; it may leave processes behind.  *)
HungUp(p) ==
    phase[p] = "wait" \/ (phase[p] = "failed" /\ output[p] = "off")

ShellExits(p) ==
    /\ shell[p] = "live"
    /\ shell' = [shell EXCEPT ![p] = "exited"]
    /\ background' \in {background, [background EXCEPT ![p] = TRUE]}
    /\ UNCHANGED <<serverVars, output, entered, wire, peerVars, cut>>

BackgroundEnds(p) ==
    /\ background[p]
    /\ background' = [background EXCEPT ![p] = FALSE]
    /\ UNCHANGED <<serverVars, shell, output, entered, wire, peerVars, cut>>

(* send_frame of the adapter: the header, then the payload.  What it sends *)
(* when the service reads no more is left out.                             *)
NewFrame(p, kind) ==
    /\ phase[p] \in Reading /\ ~closed[p]
    /\ unsent[p] = <<>> /\ sent < MaxFrames
    /\ sent' = sent + 1
    /\ typed' = [typed EXCEPT ![p] = IF kind = "data" THEN @ + 1 ELSE @]
    /\ unsent' = [unsent EXCEPT ![p] = Frame(kind, typed'[p])]
    /\ UNCHANGED <<serverVars, shellVars, wire, closed, cut>>

SendChunk(p) ==
    /\ unsent[p] # <<>> /\ phase[p] \in Reading /\ ~closed[p]
    /\ wire' = [wire EXCEPT ![p] = Append(@, Head(unsent[p]))]
    /\ unsent' = [unsent EXCEPT ![p] = Tail(@)]
    /\ UNCHANGED <<serverVars, shellVars, sent, typed, closed, cut>>

(* The terminal is closed: at any point of a frame.                        *)
Close(p) ==
    /\ phase[p] # "out" /\ ~closed[p]
    /\ closed' = [closed EXCEPT ![p] = TRUE]
    /\ UNCHANGED <<serverVars, shellVars, wire, unsent, sent, typed, cut>>

-----------------------------------------------------------------------------
Handle(p) ==
    \/ Greeted(p) \/ Rejected(p)
    \/ ReadHeader(p) \/ ReadPayload(p) \/ WriteFails(p) \/ EndOfStream(p)
    \/ HangUp(p) \/ Reap(p) \/ Join(p)

Next == \E p \in Peers :
    \/ Accept(p) \/ Handle(p) \/ Written(p) \/ Pause(p) \/ OutputEnds(p)
    \/ ShellExits(p) \/ BackgroundEnds(p)
    \/ (\E kind \in Kinds : NewFrame(p, kind)) \/ SendChunk(p) \/ Close(p)

(* Threads run, and a shell that is hung up ends.  Nothing says that the   *)
(* programs of a terminal ever read what is written to it.                 *)
Fairness == \A p \in Peers :
    /\ WF_vars(Handle(p)) /\ WF_vars(~Open(p) /\ OutputEnds(p))
    /\ WF_vars(HungUp(p) /\ ShellExits(p))

Spec == Init /\ [][Next]_vars
FairSpec == Spec /\ Fairness

-----------------------------------------------------------------------------
(* Properties                                                              *)

Sessions == {p \in Peers : phase[p] \in Serving}

Chunks ==
    {Head1(kind) : kind \in Kinds} \cup {Head2}
        \cup [part : {"body"}, of : Kinds, number : Nat]

TypeOK ==
    /\ active \in Nat
    /\ phase \in [Peers -> Serving \cup {"out", "refused", "rejected", "failed", "done"}]
    /\ reading \in [Peers -> Kinds \cup {"none"}]
    /\ shell \in [Peers -> {"none", "live", "exited", "reaped"}]
    /\ output \in [Peers -> {"none", "on", "off"}]
    /\ background \in [Peers -> BOOLEAN]
    /\ entered \in [Peers -> Seq(Chunks)]
    /\ wire \in [Peers -> Seq(Chunks)] /\ unsent \in [Peers -> Seq(Chunks)]
    /\ sent \in Nat /\ typed \in [Peers -> Nat]
    /\ closed \in [Peers -> BOOLEAN] /\ cut \in [Peers -> BOOLEAN]

(* The service "accepts at most four concurrent terminal sessions", and    *)
(* every way out of a session gives its slot back exactly once: the        *)
(* counter is the number of sessions under way.                            *)
SlotsAreSessions ==
    active = Cardinality(Sessions) /\ active <= MaxSessions

(* A session that ended in the regular way has reaped its shell and its    *)
(* output thread, and nothing holds its terminal open unless the adapter   *)
(* had gone; a slot is not free while such a shell lives.                  *)
DoneLeavesNoShell == \A p \in Peers :
    phase[p] = "done" =>
        shell[p] = "reaped" /\ output[p] = "off" /\ (background[p] => closed[p])

(* Keystrokes reach the shell complete, once and in order, unless a pause  *)
(* of half a second fell inside a frame's header.                          *)
KeystrokesIntact == \A p \in Peers :
    ~cut[p] => entered[p] = [i \in DOMAIN entered[p] |-> Payload("data", i)]

(* When the terminal closes, its session ends and its slot is free again,  *)
(* unless it is held up for good in one of two places: in writing to the   *)
(* terminal, by programs that have it open and do not read, or in waiting  *)
(* for the output, by processes the shell left behind.                     *)
CloseFreesSlot == \A p \in Peers :
    closed[p] /\ phase[p] \in Serving
      ~> \/ phase[p] \notin Serving
         \/ [](phase[p] = "write" /\ Open(p))
         \/ [](phase[p] = "join" /\ background[p])
=============================================================================
