# uur in TLA+

uur runs the Windows client of a remote-desktop product under Wine on a Linux
desktop.  A small DLL inside the client (the *hook*) redirects its calls: input
it wants to inject goes over a loopback connection to uur's *input bridge*,
and the screen it wants to capture comes out of a memory-mapped *frame
transport* that a *capture helper* fills from the desktop portal.  A *session
supervisor* starts and stops all of it, among it a *terminal service* that gives
the client's terminal a Linux shell and a *quick launch* for Linux applications.
*Setup* and *uninstall* make and remove the Wine prefix.  Apart from the session
lock, no lock is shared between two parts; what they share is a file, a
socket, a ring of slots or a signal.

This directory models those parts, checks them with TLC on small instances,
and proves the main results with TLAPS for every value of the constants.

## Inventory

| component | code | state | operations | what makes it correct |
|---|---|---|---|---|
| input bridge | `src/src/bridge.rs` | per connection: the keys and buttons it holds; shared, under one mutex: the backend and how many connections hold each code | press, release, `release_all` on disconnect | a key stays down as long as somebody holds it and comes up when nobody does, also when backend calls fail and clients disconnect |
| key tables | `src/src/input/uinput.rs`, `src/src/protocol.rs` | none | `vk_to_linux_key` | codes that are one key are treated as one key |
| portal backend | `src/src/input/portal.rs` | event queue, one pending motion, a flag that says a flush is queued, held keys | `submit`, `motion`, the worker's loop | no lost wake-up, no growing queue, input after the motions before it, no key left down |
| uinput, XTest backends | `src/src/input/uinput.rs`, `xtest.rs` | a device or an X connection | one call at a time behind the bridge's mutex | see the bridge |
| hook, input side | `src/hook/uur-hook.c` | the socket, `hook_busy` | `hook_send_input`, connect, retry thread | every key-up the client sends is forwarded; the connection comes back |
| hook, capture side | `src/hook/uur-hook.c` | the mapped file, a snapshot | `feed_capture_frame_locked` | a picture is one whole recent frame |
| capture helpers | `src/capture/*.c` | the file, a frame counter | publish a frame, change the geometry, end | the header never announces an incomplete frame |
| capture supervisor | `src/src/capture.rs` | retry counter, restore token, helper process, portal session | open a session, watch it, decide what follows its end | one helper at a time; the user's "stop sharing" is final; recovery is bounded |
| session supervisor | `src/src/session.rs` | session lock and identity, helper processes, Wine, stop flag | start, watch, shut down, `uur stop` | one session at a time; whatever ends it leaves nothing behind |
| client adapters | `src/src/session.rs` | for each executable: the file in place, its backup, its marker | restore an earlier replacement, back up, replace, mark | the client always finds whole executables, and an original is never lost |
| terminal service | `src/src/terminal.rs`, `src/hook/terminal-proxy.c`, `mux-proxy.c` | per connection: a place in the frame loop, a shell, an output thread; shared: a slot count | accept, frames, hang up, reap | at most four sessions, no slot lost, no shell left behind, keystrokes whole and in order |
| quick launch | `src/src/launcher.rs`, `src/hook/launch-proxy.c` | launchers in the prefix, Wine's registry, the keys file, a catalogue | rewrite the entries at every start, answer requests | entries of earlier sessions go, and they cannot pile up |
| configuration | `src/src/config.rs`, `src/src/main.rs` | one TOML file | load, change, store, by several processes | what was stored stays; all agree on the token |
| setup, uninstall | `src/src/wine.rs`, `src/src/uninstall.rs` | the Wine prefix, the installed files, the receipt | provision, repair, remove | success means usable; what is interrupted can be repeated; nothing is removed in use |
| wallpaper, tray, inhibit, autostart, WoL, audio, proxy, video, doctor, upstream | `src/src/*.rs` | little | | |

How they interact:

* The hook sends records over TCP to the bridge; each connection has a thread
  in the bridge, and all threads drive one backend behind a mutex.  The portal
  backend hands events to a worker thread of its own.
* The capture helper creates `frames.v1` under the runtime directory and
  renames it into place; the hook maps it.  They meet only in the sequence
  numbers of its slots and in `total_frames`.
* The capture supervisor removes the file before it starts a helper, and
  waits for the old helper before it starts another: the helper's
  unconditional unlink (`uur-pw-capture.c:558`) relies on that.
* The session supervisor starts the helpers as process groups, watches the
  required ones, and ends them in reverse order.  `uur stop` is another
  process: it reads the identity in the lock file and sends a signal.
* A session start changes the client's directory (the adapters) and the prefix
  (the quick-launch entries) before it starts a helper; the client's own updater
  changes the same directory at other times.
* Setup, uninstall and a session exclude each other by a lock on one file.  A
  purge removes that file with the directory it is in.
* Setup, the display commands, a session, its bridge and its capture each load
  the whole configuration and write back all of it, without a lock.

What is hard in it: steps of two processes in orders nobody tested (a frame
overwritten while it is copied, a motion stored while the worker looks away,
a stop between two steps of a start), answers that come after their timeout,
backend calls that fail in the middle of the bookkeeping, processes that die
anywhere, and signals that arrive in another order than they were caused.
`PROJECT.json` lists these hazards with their lines and the properties that
cover them.

## Modules

| module | what it is |
|---|---|
| `SharedKeyboard` | abstract: a keyboard several holders share |
| `InputBridge` | the bridge's threads, one action per critical section; implements `SharedKeyboard` |
| `KeyMap` | the code tables of the backends |
| `FrameFeed` | abstract: pictures taken from the last complete frames of a file |
| `FrameRing` | helper and hook on the memory-mapped ring; implements `FrameFeed` |
| `PortalInput` | the portal backend's caller and worker threads |
| `CaptureSupervisor` | `capture.rs` with the portal, the user, Mutter and the helper |
| `Session` | the session supervisor, `uur stop` and the tray |
| `TerminalService` | the terminal service's threads, the adapters and the shells |
| `AdapterDeploy` | `deploy_terminal_proxy` and the client's updater on the client's directory |
| `QuickLaunch` | `launcher::prepare` and `serve` |
| `Startup` | composes the two in the order of a session start |
| `ConfigStore` | the configuration file and the processes that load and store it |
| `Installation` | setup, a session and uninstall on one prefix, with the lock on a file that can be removed |
| `MC*` | the instances TLC checks |
| `*_proofs` | theorems about the module of that name |

They meet at their assumptions instead of in one big product: `FrameRing`
takes for granted that a helper starts only when its predecessor is gone,
which is `OneHelper` of `CaptureSupervisor`; `PortalInput` takes the bridge's
mutex and `release_all` from `InputBridge`, and what it reports as a failed or
timed-out call is `InputBridge`'s `CallFails`, which leaves open whether the
desktop saw the event.  `Session` has one lock that nobody removes; `Installation`
has the file under it, with much simpler processes.

Some properties need more of the surroundings than others.  What a behaviour is
given of them is a variable that no step changes: `timely` and `kinds` in
`PortalInput` (the portal accepts everything in time; the kinds of motion the
client sends), `orderly` in `CaptureSupervisor` (writes succeed and signals come
in their natural order).  Every run has behaviours of both sorts, the property
that needs the better sort names it, and the theorem about it is of the whole
specification.  `moving` in `MCStartup` is of the same form: it lets one run
check two parts that share no state.

### InputBridge

An action is one critical section of the bridge's mutex.  `held`, `owners` are
`ConnectionInput.keys/buttons` and `SharedInput.keys/buttons`; `todo` is the
clone that `release_all` walks, one critical section per code, before
`Disown` drains what is left; `desktop` is what the desktop believes to be
pressed.  A failing backend call may or may not have reached the desktop;
`suspect` remembers the lines where it did not, or not certainly, do what the
bridge wanted, until a later release of that line succeeds.  A key of an ended
connection whose release was skipped because the count was still above one, or
failed, is such a line as well.

Checked (`bridge`: two connections, two keys, a button, an unmapped code):
the counts are exactly the number of holders (`OwnersMatchHeld`); a held key is
down and an unheld key is up unless it is suspect; `release_all` finishes under weak fairness of the releasing thread;
a disconnecting client never lifts a key another one holds; and the
bridge implements `SharedKeyboard`.  Two connections are enough for every
interleaving of one `release_all` with another client; the proofs do not depend
on the number.

`bridge_aliases` is a disagreement with the code: with the real table of
`vk_to_linux_key` (`KeyMap`) the two codes VK_SHIFT and VK_LSHIFT are one
desktop key but two counts, and the first client that disconnects lifts the
key the other one holds.  The properties about the desktop hold as long as no
two codes of one key are held at the same time (`NoAliasesHeld`), and key by key:
what is done with VK_SHIFT and VK_LSHIFT takes nothing from any other key.

### FrameRing

Every action makes at most one access to shared memory or to the path.  Frame
`n` of a file has slot `n % 3` and sequence number `2n - 1` while it is
written, `2n` when it is complete.  The pixels are `Parts`, stored and copied
one at a time in any order, so that a copy can mix two frames; the second look
at the sequence number must reject it.  A helper may replace its file, end,
or die at any step; the hook maps a file, keeps it, opens the path again,
walks to older frames and gives up after `MaxTries` attempts.

Assumptions: stores of the helper become visible in program order (x86; the
odd sequence number is only a release store, `uur-pw-capture.c:197`, and on a
weaker machine the pixel stores could pass it); an 8-byte load is not split;
one helper runs at a time (`OneHelper`); the 250 ms for which a map is kept may
end at any moment; a direct-Wayland helper's short truncation of an existing
file looks like an absent path.

Checked (`ring`): no picture mixes two frames; a reader looks for older frames only when it was overtaken by
a whole ring; what is drawn is one of the last three complete frames of the
mapped file, never older than the picture before (`FrameFeed`); and a
capture call returns under fairness of the calling thread alone, even if the
helper dies inside a frame.  Four frames in the first file wrap the ring of
three slots once, two files give one replacement in any phase of a read, two
parts can be torn, and two attempts exercise the retry (16 in the code: more
attempts repeat the same step).  `MaxFrame` is given per file to keep the
second one short.

Seen on the way, without a run: after a torn read the hook goes to an older
frame although a newer one may already be stable (`uur-hook.c:546`), so that a
call can give up while the newest frame could be drawn.

### PortalInput

The caller is the bridge's thread inside the backend, the worker is
`portal_worker`; the flag `queued` is `motion_queued`, with its swap, store
and compare-exchange as separate steps, and `pending` is `pending_motion`.
Events carry `live`: whether their caller still waits.  A rejected event ends
the worker and drops its queue.  A motion is named by a place (absolute) or by
steps (relative), so that a lost, repeated or reordered one is visible in
`pointer`.

Checked (`portal`): no pending motion is stranded, an event reaches the portal
only after the motions sent before it, and a pending motion is eventually taken;
fairness is that of the two threads and of a portal that answers.  When the
portal accepts and answers in time (`timely`), merging loses no step and a
disconnect leaves no key down.  A relative motion that comes while an absolute
one is pending replaces it (`merge_motion`), so `PointerArrives` is about clients
that send one kind of motion (`OneKind`); it is not claimed for mixed ones.
Three motions are enough for one in the worker's hand, one pending and one that
is merged into it.  The queue is bounded by two events:
one caller waits for each of its events, so it fills only with late ones.

Seen on the way, without a run: after the three-second timeout (`portal.rs:108`)
the key is not recorded as held, but the queued event is still executed, and
`release_all` does not lift it; without `timely`, `DisconnectLiftsKeys` does not
hold.

### CaptureSupervisor

`phase` walks through `run`: the handshake with its attempts, the start of the
helper, the biased `select!` (stop, Closed, MonitorsChanged, tick), teardown,
the verdict, the pause.  Around it are the user, Mutter, the portal and the
helper.  Time appears as nondeterminism: a tick may come before or after a
signal, thirty healthy seconds may pass or not.  One assumption is made of
Mutter: it announces a change for which it closed the stream within 250 ms of
Closed, or before the pause of a second is over (`owed`).

In an `orderly` behaviour Closed arrives before the helper dies of the same
event, a layout change falls into a watched session, and the configuration can
be written.  `capture` checks the orderly behaviours and the others; two
properties are about the former: after the user stopped sharing no session
follows unless the layout changed (`StopIsFinalInOrder`), and the token on disk
is the latest one (`TokenOnDisk`).  Two tokens are one saved and one reissued.
Three sessions are enough for a first one, a recovery and a second recovery,
and refused handshakes exhaust the retry budget without further sessions.

`capture_race` is a disagreement with the code: when the death of the helper is
noticed by the 50 ms tick before Closed arrives, the user's stop looks like an
interrupted stream, and sharing is restored with the saved token.  A
MonitorsChanged signal that was queued before the handshake ended has the same
effect (`capture.rs:133`), and a token that could not be written once is never
written (`capture.rs:347`).

The direct-Wayland mode (`capture.rs:53-74`: one helper, no restart) and the
capture thread inside the combined portal backend are not modelled.

### Session

A run is a process that executes `uur run`; its `phase` follows
`acquire_session_lock` (take the flock, truncate the file, write the identity),
`start` (prepare the prefix, register the signal handlers, start one helper
after another and wait for some of them, wait for the service, watch the
client) and `SessionResources::shutdown` (helpers in reverse order, Wine,
frames), which every error path reaches because `resources` is dropped before
the lock file.  `signal` is the disposition of SIGTERM: by default it ends the
process on the spot, afterwards it only sets the flag that the waits look at.
Setup and uninstall take the same lock and write the same identity; as far as
the lock goes they are runs that take `Abandon`.

`uur stop` is a command (`host = NoRun`) or a thread of the tray of some run.
Reading the file, looking whether that process exists and the kill are separate
steps, so that the run can move on or end between them; the ten seconds may be
over at any time.  The tray is the first helper started and the last one ended,
so a stop from the tray waits for a supervisor that ends the tray after a
second (`Terminate` kills what does not end).  Helpers may die at any time; a
supervisor may be killed `MaxCrashes` times, and then its helpers live on.
Which Wine processes exist is one bit per run, and `stop_wineserver` ends all
of them, also those of another run.

Assumptions: a pid with its start time names one process; `StartHelper` and its
group are one step; a client's end, a deadline and an error are one action
(`Leaves`), enabled whenever one of them can happen.

Checked (`session`: two runs, one stop, one crash, three helpers): the file
names the running session from the moment it is written; without crashes,
helpers live only under the lock, and a session that ends by itself leaves no
helper, no Wine process and no frames, also when a stop cleans up beside it;
and a stop that was noted ends the run, with fairness for the supervisor's own
steps only (helpers that hang are killed, so nothing is assumed of them).  Two
runs give a refused one, a successor, and a successor after a crash; the three
helpers are one that start can do without, one that it waits for and must keep,
and the one that is a Wine process.

`session_stop` is a disagreement with the documentation: a run that is
signalled before it has registered its handlers (`session.rs:472`) is gone at
once, `stop` sees that and returns (`session.rs:793`), and the Wine processes
of its preparation stay.

Seen on the way, without a run: a stop that finds no process stops Wine without
holding the lock, so that a session which starts meanwhile loses its monitor
and ends (`StopStopsWine` between two steps of another run).

### TerminalService

An action is one step of `handle_connection`: the decision at the accept, the
handshake, one read or write of the frame loop, one of the steps after it.
`phase` is the line a connection is at; `failed` is a way out by `?` or `bail!`,
which skips the hangup and the reaping, `done` the regular one.  The adapter
sends a frame as two halves of a header and a payload, the chunks between which
a pause can fall; what it sends carries a number instead of characters.  A read
that times out in a header forgets what it has of it (`PauseInHeader`), in a
payload it is an error; the bytes after a forgotten half can mean anything.
Shells exit when they like and may leave processes that hold the terminal.

Checked (`terminal`: two connections, one slot, two frames): the counter is the
number of sessions (`SlotsAreSessions`); a regular end leaves neither a shell nor an
output thread (`DoneLeavesNoShell`); keystrokes arrive whole, once and in
order unless a pause cut a header (`KeystrokesIntact`); a closed terminal gives its
slot back unless one of two things holds it up for good (`CloseFreesSlot`): a write to
a terminal whose programs do not read, or processes that keep its output open.  Writing
a payload (`Written`) has no fairness: `master.write_all` (`terminal.rs:138`) has no
timeout, and nobody has to read.  It fails when nobody has the terminal open
(`WriteFails`).  Two connections over one slot give a refusal and a reuse; two frames give a pause in, between and
after frames.

Seen on the way, without a run: `docs/native-services.md:46` says that closing
the terminal hangs up and reaps the shell; a close or a pause inside a payload, or
an invalid frame, ends the thread by `?` before both (`terminal.rs:136`), and the
shell gets its SIGHUP from the kernel when the output thread closes the last
copy of the terminal, but is never reaped.  A shell that `try_wait` has already
reaped is sent a SIGHUP by its old number (`terminal.rs:148-151`).  A process
the shell left running keeps the output thread and thereby the slot
(`terminal.rs:154`).  A program that has stopped reading keeps the service inside
`write_all` once its terminal is full: after the close there is then neither a
hangup nor a reaping, and the slot stays taken.

### AdapterDeploy, QuickLaunch, Startup

`AdapterDeploy` has the file in place, the backup and the marker of every
executable; an action is one system call of `deploy_terminal_proxy` or
`deploy_file`, and `DeployInterrupted` ends a start at any of them, by an error
or a kill.  Between starts `ClientUpdates` puts new executables in place.  A
file is absent, an official release, part of one, or uur's adapter.
`QuickLaunch` has the launchers, the keys file and the registry as sets of
applications, and `PrepareInterrupted` leaves any part of the step it hits.
`Startup` runs the second after the first.

A release ships all or some of the executables uur replaces, and an update may
remove one: `deploy_terminal_proxy` then deploys and marks its adapter without a
backup.

Checked (`startup`): an executable that is there is whole wherever a start ends;
behind an adapter in place there is an official binary unless its copying was cut
short (`cut`) or the adapter once went where the client had no executable
(`bare`); the executable of an earlier uur comes back unless a start ended between
its restoration and the removal of its marker (`torn`); the registry has
exactly the entries of the keys file, at most `MaxApps`, unless a start was cut
short between the two (`untidy`).  One adapter (the two in the code are handled
one after the other in the same way) beside the legacy one, two releases, and two
applications of which one fits; any number of starts.

What the four excuses stand for is reachable, and is what was seen on the way:
where the client had no executable nothing is backed up (`session.rs:191`, `:202`) but
the adapter's marker is written all the same (`:197`, `:208`), so that the executable
of a later release is overwritten by the next start and is lost; a kill inside
`fs::copy` leaves a part of the original that every later start takes for the backup (`session.rs:191`); a kill between `session.rs:182` and
`:186`, or a marker that cannot be removed, lets the next start delete the restored
executable, whose backup is gone; entries of an import that was
interrupted after the keys were rewritten (`launcher.rs:66`) stay for good.
Besides, an update replaces an adapter but not its marker, so the next start
overwrites the new release without a backup: the one that is retained is older
than the one that was replaced.

### ConfigStore

`Load`, `Truncate` and `Write` are `Config::load` and the two steps of
`std::fs::write` in `Config::store`; a process keeps in `snapshot` what it loaded
and writes all of it.  `stale` are the processes that loaded before the last store,
and `disturbed` says that a stale one has stored, that a store was cut short, or
that a file was read or written while another one wrote it.

Checked (`startup`, with `moving = "config"`): undisturbed, a session and its
bridge have the same token although each may have created the file, and the
recorded EULA and a chosen source stay in it.  A behaviour is followed until it is
disturbed: nothing is promised after that.  Five processes, two generated
tokens and one restore token suffice for every pair of a store and an older
load; restore tokens are only compared with none.

`config_choice` is a disagreement with the documentation: `uur display source`
while a session runs is undone by the next restore token that session stores
(`capture.rs:348` writes the configuration loaded at its start), so that the next
run restores the old selection although `locales/en.yml:136` says the portal will
ask for a new one.

Seen on the way, without a run: two stores at once can leave one text over the
end of a longer one (`Garbled`, which no later load accepts), and an empty file,
which a load can meet between the truncation and the write, parses as all
defaults, with a new token that the session's hook does not know.

### Installation

`at` is where setup, a session and uninstall are; each may end, fail or be
killed at any step and start again.  The lock is on a file: `lockFile` is the
one at the path, `opened` the one a process has opened (`OpensLock`,
`session.rs:260-265`), `lock` the one it has locked (`flock`, `session.rs:266`).
Those are two steps, and the second does not look at the path again.  A purge
removes the file with the state directory, after which the next process makes a
new one; files are numbered in the order they are made.  `wine` says under which
lock files the Wine that runs was started.  Of the prefix the model keeps what
`run` and `setup` look at: the registry files, the client's files as
`find_client_dir` ranks them and the service; of the installation the files, the
menu entry (which stands for the installed libraries, too), the trees and the
receipt.  The EULA, `--repair` and the registry settings decide nothing about
these: a choice, or no part of the state.

Checked (`install`): while the file the uninstaller has locked is at the lock's path,
who works beside it has locked an older file (`ExcludedWhileLocked`), and nothing
is removed under a running Wine but one started by such a latecomer
(`NothingRemovedInUse`), whatever a killed setup or run has left; a setup that reports success leaves a prefix that run
accepts, whatever was interrupted before (`SuccessIsUsable`); the receipt goes
last (`ReceiptIsLast`).  Two lock files are what a purge, its successor and a
latecomer between them need; everything else is finite without a bound.

Seen on the way, without a run: `uninstall.rs:64` says setup and run are
excluded until the cleanup has finished, and two orders of steps contradict it.  A
purge removes `session.lock` with the state on its way, and from then on a session
can lock a new file while the rest is removed; hence `LockInPlace`.  And a setup
or run that had opened the file before the purge removed it, and locks it after that
uninstall has ended, excludes nobody who finds the new file: it starts Wine beside
a later uninstall, which removes the prefix under it.  This is the older file in
the two properties; the run reaches it.  The
`stop` of an uninstall ends a setup with SIGTERM, or a run that has not registered
its handlers, which leaves Wine running until `stop_prefix`.  An installation without a receipt cannot be recognised once
its executable or menu entry is gone, so its uninstall cannot be repeated.

## Runs

| run | what it asks | expected |
|---|---|---|
| `bridge` | are the counts, the desktop and the abstract keyboard right under failures and disconnects | holds |
| `bridge_aliases` | does a disconnect leave the keys of others alone with the real key table | violated |
| `ring` | is every picture whole and recent, and does a capture return | holds |
| `portal` | are motions and events neither stranded nor reordered, and keys lifted in time | holds |
| `capture` | one helper, current frames, final stops and bounded recovery | holds |
| `capture_race` | is a stop final when the tick comes first | violated |
| `session` | lock, helpers, Wine and frames through runs, stops and a crash | holds |
| `session_stop` | does a stop leave nothing behind | violated |
| `terminal` | slots, shells and keystrokes on every way out, and what a closed terminal can still wait for | holds |
| `startup` | originals, entries and the configuration through interrupted starts | holds |
| `config_choice` | does the next run ask after a choice | violated |
| `install` | exclusion, success and the receipt through interrupted setups and uninstalls | holds |

The type invariants are proved, not run.

## Fairness

Safety never depends on fairness.  Liveness assumes that a thread that can run
does (weak fairness of its steps): the releasing thread in the bridge, the
calling thread in a capture call, both threads and an answering portal in the
portal backend, the supervisors' own steps in the capture supervisor and in
the session, and the service's threads in the terminal service, except in its
blocking write.  Of the terminal's surroundings two things are assumed: a shell that
was hung up ends, and a copy of the output ends when nobody has the terminal open any
more.
Nothing is assumed of clients, users, helpers or timers.

## Proofs

Each `*_proofs` module proves type correctness and then an inductive
invariant, one step per action.

* `InputBridge`: `OwnersMatchHeld` needs that the thread's clone `todo` is a
  part of what it holds only while it releases, and that a closed connection
  holds nothing; counting holders uses the cardinality theorems for finite
  sets (`Conns` is finite).  The desktop is proved line by line
  (`LineCorrect`): an owner with a count of one is alone on its line while no
  other code of the line is held (`OneCodeHeld`), whatever happens on the other
  lines.  The three desktop properties and the refinement, in which every step is
  a step of `SharedKeyboard` or a stutter, put the lines together.  Their
  hypothesis `[]NoAliasesHeld` is about the clients, not about the table; with a
  table that has no aliases it holds by itself (`NoAliasesCorrect`).
* `FrameRing`: the invariant says of every file which frame each slot holds or
  receives, as a function of its counter and of the helper's state, and of the
  reader that each part it has copied is of the frame it wants, unless the
  sequence number has already moved on.  `NoTornFrame` is then the second look
  at the sequence number.  The refinement adds what is known of the picture
  drawn last.
* `PortalInput`: `OneFlush` is inductive with the place of the flush events in
  the queue; `NoStrandedMotion` follows from it; `InputFollowsMotion` needs in
  addition that a live event in the queue has every earlier motion flushed in
  front of it.  `PointerArrives` (for motions of one kind and a portal that accepts)
  says that what the worker has in hand and what is pending, in this order, take the
  pointer to where it was meant; `DisconnectLiftsKeys` (for a portal that accepts in
  time) that the one event on its way is the one its caller waits for.
* `CaptureSupervisor`: `OneHelper`, `FramesAreCurrent` and `InteractiveOnlyFirst`
  need the phases in which a helper can exist and the frames its predecessors
  can have left; `OnlyUserEndsSharing` needs what Mutter still owes;
  `StopIsFinalInOrder` needs that in order a session the user ended has Closed
  at hand and no signal queued;
  `RetryBudget` bounds the failures that happened by the counter, the phase and
  the layout changes.  `TokenOnDisk` (when writes succeed) holds because file,
  memory and portal have the same token in every phase.
* `Session`: every live run holds the lock, hence there is one; without crashes
  every living helper is still in the list of a run between `Arm` and
  `ShutdownWine`, Wine processes belong to a run that has yet to stop Wine or
  that a stop killed, and frames to a run that has yet to remove them.  A run
  that still has the default SIGTERM has no helper, which is why a stop that
  kills it orphans none.
* `Startup_proofs`: every step of a start is a step of one part
  (`StepOfParts`).  For the adapters the invariant follows a backup from the
  moment it is begun: it is official, cut short, being copied, or missing because the
client had nothing to back up; for the legacy
  executable it says on which side of the restoration the original is.  For the
  entries it says which of the old and the new set the registry has; that at most
  `MaxApps` are taken needs that a finite set of numbers has a largest element, for
  which the well-foundedness of strict inclusion of finite sets serves.  For the
  configuration: a process that is not stale reflects the file but for what it
  changes, and whoever has loaded has the same token, since a process that still
  has to create the file is stale as soon as another one has created it.
* `TerminalService_proofs`: every step leaves the phases alone, admits, refuses,
  moves or leaves (`Shape`), and the counter follows by the cardinality theorems;
  an output thread that has ended means that the terminal is closed or nobody has it
  open.  `KeystrokesIntact` is about a stream, what is on the wire followed by what is
  still to be sent: it consists of whole frames, the service is at the place in it that
  its phase says, and the keystrokes in it are those typed and not yet entered, in
  order.  The numbers make this a statement about positions, without an induction.
* `Installation_proofs`: no file is locked by two processes, and the file at the
  lock's path is the newest, so that whoever works beside an uninstaller that has
  locked that one has an older one; the Wine that can run after `stop_prefix` is
  that of such a process.
  `SuccessIsUsable` needs what setup has established by each step, and the receipt
  that it is planned together with all it lists.

Of liveness the part that needs no fairness is proved: a measure of what is left
to do, which every step of the thread in question lowers and no step of anybody
else raises.  `CaptureIsBounded` counts the steps of the attempts a capture call
has left, `ReleaseIsBounded` the critical sections of `release_all`,
`StopIsBounded` the phases and helpers of a run that was told to stop, and
`CloseIsBounded` the chunks and steps of a terminal session whose adapter has
gone; it also names the only three things such a session can wait for, a write to
a terminal that somebody has open, a shell that was hung up, and its output.  That the thread takes these steps is
fairness, and what TLC checks.

The constants' assumptions are the named `ASSUME`s of the modules; no bound is
needed for any theorem.  Only model-checked: the liveness properties themselves,
since the prover has no fairness or ENABLED.  For `MotionArrives` and `StopEnds`
there is no such measure either: between two steps of the portal's worker the
caller may queue as many late events as the queue takes, and a supervisor that is
told to stop may open another session first.  One hypothesis is not an
assumption on constants: that of the desktop theorems of the bridge.  `NextRunAsks`, `StopLeavesNothing` and the
other two violated properties are false and stay counterexamples.  Only proved, not
run: the type invariants, `ClosedOwnsNothing`, `AnnouncedIsComplete`, `OneFlush` and
`InteractiveOnlyFirst`.

## Not modelled

* The hook's input side: `hook_busy` (`uur-hook.c:854`, a second thread's
  SendInput is not forwarded while one is) and the retry thread, started only when
  the first connect fails (`uur-hook.c:1073`).  What is lost there depends on
  threads of the client that are not in the repository.
* The combined portal backend, in which the bridge also captures and nobody
  restarts its helper (`portal.rs:31`), and the direct-Wayland mode of the
  supervisor.
* The client monitor's counting of absences (`session.rs:667`): `Session` leaves
  open when the client counts as gone.
* Quick launch's requests, which are answered from a catalogue that does not
  change; `deploy_hooks`, which replaces nothing of the client's.
* Wallpaper, tray menus, inhibit, autostart: they drive desktop services whose
  behaviour is not in the repository.
* Hook patching and the Windows shims (decided by the loader and Wine), the
  PipeWire and screencopy negotiations, scaling, cursor drawing, the wire
  encoding, tokens and authentication (a rejected connection leaves no trace),
  and the reports and one-shot commands (doctor, upstream, WoL, audio, proxy,
  video).
