# auroraOS: a TLA+ model of the kernel

This directory models the auroraOS kernel (`src/kernel/`), a single-CPU,
single-address-space 64-bit kernel with a FAT16 file system, a desktop with
cooperatively scheduled programs, a network stack with HTTPS, and the
algorithms these rest on. It holds

| Module | What it models | Checked by |
|---|---|---|
| `Fat16` | the FAT16 driver and the terminal commands that use it, one step per disk write | `MCFat16` with the `Fat16*.cfg` |
| `FileCalls`, `Store`, `Fat16Store` | the calls on files, what the file system promises of them (`FileCalls`, and that it may break), and `Fat16` as an implementation of it | `MCFat16` with `Fat16Files.cfg` |
| `Fat16Proofs`, `Fat16Chains`, `Fat16StoreProofs` | theorems about `Fat16`, for every volume: references; whose clusters are and what they hold; that it implements `Store` | TLAPS |
| `Boot` | start, formatting, password gate and update, over `FileCalls` | `MCBoot` with `BootGate.cfg` |
| `Apps` | fibers, program slots, windows, the frame loop, faults | `MCApps` with the `Apps*.cfg` |
| `Input` | timer, keyboard and wheel interrupts against the code that waits for them | `MCInput` with the `Input*.cfg` |
| `Net` | DHCP, ARP, DNS, TCP and the HTTP GET on an unreliable network | `MCNet` with `NetFetch.cfg` |
| `Tls` | HTTPS: record layer, handshake, response | `MCTls` with `TlsSession.cfg` |
| `Bignum`, `Ecc`, `HttpBody`, `Asm`, `Geometry`, `Mouse` | pure algorithms | `MCAlgorithms` with `Algorithms.cfg` |
| `NoteEdit`, `Html` | the editor's buffer, the browser's renderer | `MCTexts`, part of `MCAlgorithms` |
| `AppsProofs`, `InputProofs`, `NetProofs`, `TlsProofs`, `BootProofs` | theorems about the modules of these names, for every value of their constants | TLAPS |

`PROJECT.json` lists the components, the runs, the map from definitions to
source lines, the findings, the hazards and the theorems.

## 1. Inventory

The kernel is one thread of control. Concurrency comes from three places
only: interrupt handlers, programs that run as fibers until they yield, and
the devices (disk, network card, power).

| Part | State | Operations | Interacts with | What is hard |
|---|---|---|---|---|
| FAT16 (`fat16.c`) | two copies of the allocation table, directories and data on disk; `next_free_cluster_hint`, mount data | format, mount, list, stat, create, delete, read, write | disk driver; called by the terminal, editor, update, login, loader | order of writes against power loss; errors in the middle; full disk and full root |
| Terminal (`terminal.c`) | path stack | cd, ls, mkdir, touch, rm, cat, echo, nano, compile, run, launch, network commands | FAT16, loader, network | a path stack of clusters that may be removed |
| Editor buffer (`noteedit.c`) | lines, cursor | load, save, edit | FAT16 | fixed table of lines, splitting and joining at its limits |
| Fibers (`fiber.c`) | fiber table, current fiber | spawn, resume, yield, end | loader | life cycle of a stack |
| Loader (`apploader.c`), system calls (`syscall.c`) | program slots with event queues, current slot, a flag | load, attach, resume, push and poll events, create window, yield | fibers, windows, FAT16, exceptions | slots reused while old windows are open; a flag shared by all programs |
| Windows (`wm.c`) | window table, order, focus, taskbar buttons, panels | click, wheel, paint, key, launch, search, drag, resize | loader, input, terminal | values computed at one point of a frame and used at another |
| Interrupts, timer, keyboard (`idt.c`, `boot.s`, `pic.c`, `timer.c`, `keyboard.c`) | tick, key ring, modifiers | handlers, wait, read a key | everything that waits | interrupts between two accesses; waiting with interrupts off |
| Mouse (`mouse.c`) | packet, position, wheel | handler, get state, get wheel | windows | read-then-clear; packet alignment |
| Disk driver (`ata.c`) | none kept | probe, read, write a sector | FAT16 | may fail |
| Network card (`e1000.c`) and stack (`net.c`) | descriptor rings; lease, connection | send, receive; DHCP, ARP, DNS, TCP, HTTP | terminal, browser | loss, reordering, late answers, timeouts |
| TLS (`tls.c`, `x509.c`, `rsa.c`, `ecc.c`, `bignum.c`, ...) | handshake and record state, a static reassembly buffer | connect, send, receive | network | message order, cut and missing messages, what an earlier connection left; carries and special points |
| Browser engine (`html.c`, `css.c`, `inflate.c`), assembler (`asm.c`) | per call | parse, lay out, inflate, assemble | windows, terminal, network | malformed input, limits of every table, overlapping copies, forward references |
| Start, login, update (`kernel.c`, `auth.c`, `login.c`, `updatecmd.c`) | files in the root | mount or format, set and check a password, install a kernel | FAT16, disk | a crash or an error between writes |
| Graphics, console, settings, runtime | frame buffer | drawing, formatting | all | nothing of a protocol |

What would make each part correct:

* **FAT16**: no cluster belongs to two files; nothing refers to a free
  cluster; nothing is lost except by a stated event; what was written is read
  back; a call on one file leaves the others alone; every call returns.
* **Fibers and loader**: no two programs share a stack; a system call acts on
  its caller; a program gets its own events only; exits and faults release
  what was held.
* **Windows**: every window in use can be reached; a closed one is gone; every
  visible program gets its turn.
* **Interrupts**: no key lost, repeated or reordered; no lost wake-up; waits
  are as long as asked.
* **Network**: what is handed to the caller is a prefix of what was sent;
  late answers are not taken for current ones; every exchange ends.
* **HTTPS**: a handshake completes only with the server of this connection; a
  response is that server's, in order; a server that keeps to the protocol is
  served.
* **Start, login, update**: starting destroys nothing that can be read; only
  who knows the password gets in, and someone always knows it; what is booted
  is a whole kernel.
* **Algorithms**: what they compute is what a reference definition says, at the
  limits too.

## 2. Plan

Done, in this order: `Fat16` with `Fat16Proofs`, `Apps`, `Input`, `Net`; then
`Tls`, the algorithms, `Store` with the refinement, and `Boot`; the proofs. Every
safety property of these modules is a theorem; liveness and the algorithms stay
with TLC. What is left to model: the descriptor rings of the network card;
dragging, resizing and the panels in `Apps`; modifier keys in `Input`.

## 3. The file system (`Fat16`)

**State.** `fat` (both copies of the table) and `sec` (root directory and data
area, by sector) are on disk. `hint` and `path` are the driver's and the
terminal's memory. `pc` and `job` are the call in progress: its parameters and
locals. `res`, `faults`, `harm` and `was` are history.

**Steps.** `TerminalCall` and `DesktopCall` start a call; then

| Code | Actions |
|---|---|
| `find_or_alloc_slot`, `walk_directory` | `ScanHit`, `ScanEndMarker`, `ScanNextSector`, `ScanLosesTrack`, `ScanExhausted`, `ScanReadError` |
| `extend_cluster_chain` | `DiskFull`, `MarkEoc`, `MarkEocUnread`, `LinkCluster`, `ZeroCluster` |
| `free_cluster_chain` | `FreeCluster`, `FreeLosesTrack`, `FreeBeyond`, `FreeDone` |
| ends of `fat16_write_file`, `fat16_create`, `fat16_delete` | `WriteData`, `WriteDirent`, `MarkDeleted` |
| `cmd_cd` | `CdUp`, `CdRoot`, and `Found` for a name |
| power loss and the mount that follows | `PowerLoss` |

Each action that writes has an alternative in which the write fails. A failed
or interrupted write of the table may have changed the first copy.

**Failed reads of the table.** `fat_read_entry` answers 0xFFF7 (`BAD`) when it
cannot read (`fat16.c:121`), and as 0xFFF7 is less than `FAT16_EOC_MIN`, every
walk takes it for a cluster. What follows depends on the walk:

* a directory scan (`ScanLosesTrack`) asks for the sectors of a cluster that is
  beyond the disk, cannot read them and takes the directory for ended;
* the search for a free cluster (`MarkEocUnread`) passes over what it cannot
  read;
* `free_cluster_chain` (`FreeLosesTrack`) leaves the rest of the chain behind and
  goes on to "entry" 0xFFF7, in sector 255 of a table that is shorter
  (`FreeBeyond`). What lies there depends on the size of the disk: the second
  copy of the table, the root directory, file data, or nothing. `BadLbas` is the
  set of places it can be, 0 standing for the second copy and a number above the
  last sector for nothing. The walk takes the word there for the next cluster
  and clears it, in the place that follows the second copy too. In an unused
  field of a directory entry the word is 0, and nothing happens; anywhere else
  the step is `wild`: it may clear a word of another file, free another file's
  clusters, or, off the disk, read 0xFFF7 for ever.

**Abstractions.** A cluster is one sector (the code formats with four: the
loops over a cluster's sectors are one step). A sector has `PerSector` cells, a
cell standing for a directory entry or as many bytes of data; a data cell says
which write made it and where in the file it belongs. Names already have the
8.3 form. Not modelled here: formatting (see `Boot` and `Geometry`), long-name
and volume-label entries; `ReadFile` is a read in which nothing fails. A failed
read inside a read-modify-write of a sector (`fat_write_entry`,
`write_dirent_slot`) has the effect of the failed write. A number above the
volume that a `wild` walk finds in file data goes the way of 0xFFF7. `MarkDeleted` forgets the other bytes of the
entry, which no code reads again.

**`harm`.** Some promises end with certain events, and the properties say
which: `torn` (a rewrite or removal ended after it had freed the old chain and
before it had rewritten the entry), `fault` (any error or power loss),
`orphan` (a directory with entries was removed), `overdir` (a directory was
written over as a file), `wild` (a walk that lost its chain to a failed read of
the table wrote outside the table or went on from what it found there). The runs stop exploring where nothing more is claimed
(`Whole` in `MCFat16`).

**What callers may rely on.** `FileCalls` has one variable for the files and one
for the call that runs: a call begins, and then succeeds at one moment or fails,
after which its own name may hold what was never written and every other name
is as it was. `Store` adds that the store may break, after which it promises
nothing. `Fat16Store` maps the volume to it: a name holds what reading it
gives, or, while a rewrite or removal has freed its old chain, what it gave
before; it is broken when `wild` is in `harm`. `ImplementsStore` is `Store`'s specification under this mapping. It is
checked with faults. `Boot` builds upon `FileCalls`, the store that does not
break.

| Run | Bounds | Shows |
|---|---|---|
| `fat16_files` | 2 names, 2 contents, 3 clusters of 2 cells, files of 1 and 3 cells, touch, rm and rewrites, 1 fault of any kind, entry 0xFFF7 in the data area | `ImplementsStore` |
| `fat16_dirs` | 2 names, 3 clusters and 1 root sector of 1 cell, files of 1 and 2 cells, directories to depth 2, mkdir, rm, echo, cd and cd .. (touch is in `fat16_files`), 1 fault, entry 0xFFF7 in the second copy, the root, the data area or off the disk, fair driver | `TypeOK`, `NoCrossLink`, `NoLeak`, `NoStaleContents`, `OthersIntact`, `CallsReturn` |
| `fat16_failed_write` | two files on 2 clusters | violates `FailedWriteKeepsFile`: a failed rewrite destroys the old contents |

The volumes are small, but each is large enough for what can go wrong: a chain
of two clusters, a directory that grows, a root and a disk that fill up, a
table search that wraps around, and a fault at any step of any call. File names
and contents are interchangeable, so `fat16_files` uses symmetry; `fat16_dirs`
checks a liveness property and does not.

**Fairness.** `WF_vars(Driver)`: a call in progress keeps running, since the
driver polls the disk and waits for nobody. Nothing is assumed of the callers.

**Proved**, for every number of clusters, root sectors, cells, names, lengths,
callers and faults, from `Fat16Assumption` and, for the last two, `FilesOnly`:

* `TypeCorrect`: `Spec => []TypeOK` (`Fat16Proofs`).
* `ClustersLinkedOnce`: `Spec => []NoCrossLink` (`Fat16Proofs`).
* `OtherFilesIntact`: `Spec => OthersIntact` (`Fat16Chains`).
* `NothingLost`: `Spec => []NoLeak` (`Fat16Chains`).
* `DirectoriesClean`: `Spec => []NoStaleContents` (`Fat16Chains`).
* `DriverIsStore`: `Spec /\ [](harm \cap {"torn", "overdir"} = {}) =>
  ImplementsStore` (`Fat16StoreProofs`).
* `TornCallFails`: `Spec => CutShortIsFailure` (`Fat16StoreProofs`): every step
  from a `Calm` state that is not `wild` is one of a store that works, the step
  that tears a file included.

`FilesOnly` says that the terminal issues touch, rm and echo, as in
`fat16_files`: `Store` is about the files of the root directory. `Calm` says
that none of `torn`, `overdir` and `wild` has happened, the constraint `Whole` of
the run. Behind a torn file nothing is promised (its chain is free and its entry
still refers to it), and `TornCallFails` says that the harm does not begin
before that.

The modules build one invariant in four layers, each with one lemma per action.

*References.* `NoCrossLink` is not inductive, because in the middle of a call
the cluster the call has allocated is referred to by the call's locals only.
`Inv` adds `InFlight`, which says for each `pc` what the locals hold: the new
cluster is used, ends its chain and nothing refers to it yet; the chain being
freed is referred to by nothing but the cursor; the first and last cluster of a
file under construction. It also strengthens the types (a cursor inside a chain
is a cluster of the volume or 0xFFF7). It is claimed while neither `torn` nor
`wild` has happened.

*Ownership.* That nobody is referred to twice does not say whose a cluster is.
`OwnedInv` says that there are a function `own`, from each cluster to the first
one of its chain, and a set `dirs` of first clusters of directories, such that
links stay within an owner, entries refer to owners of their own kind, and each
directory on the terminal's path lies in the one before it. `CallOwns` adds, for
each `pc`, to whom the call's locals belong: the slot lies in the call's
directory, the last cluster in the file being written, the cursor in the chain
being freed. Allocating and linking a cluster change `own`; the lemmas name the
new one. `WritesOwn` then says that a step writes only to clusters of a
directory or of a chain no entry refers to, and a file's clusters are neither.
This is claimed after faults and power losses too, while none of `torn`,
`overdir` and `wild` has happened. Nothing on disk marks a cluster with its owner, so `own`
is quantified in the invariant instead of being a variable of the model.

*Contents.* `FilledInv` adds, while `harm` is empty: free clusters and files
hold no entries, directories no data, except in the one cluster a call has
allocated and not zeroed yet (`Contents`); chains are extended at their ends
(`Ends`); and every set that contains what the root and the call's locals refer
to, and is closed, contains every used cluster (`Accounted`). The last is the
part that is hard to see: when the call lets go of a cluster it has just linked,
that cluster is still reached because its predecessor is, and when the entry is
written, because the directory's own cluster cannot be part of what the call was
building.

*The store.* Ownership shows that a call leaves the other files alone.
`FilesInv` says what it makes of its own, faults included: the root directory
has no name twice and nothing behind its end marker (`RootOK`); the scan has
passed neither the name nor the end (`PassedOK`); the slot the call chose has
the name, or is vacant and the name is nowhere (`PlaceOK`); and the locals
describe a sequence of clusters without repetition, each linked to the next,
that holds the first `done` cells of what is to be written (`DataOK`). A failed
step ends the call, so nothing of this need hold behind it. Since the clusters
differ, there are no more of them than the volume has, and the chain read from
the first one is that sequence (`SpineChain`); so a written file reads back as
what was written (`CompleteReads`). Then every step is of one of six kinds
(`StepKind`): the call begins, runs, returns without a change of the root
directory, writes its entry, erases it, or there is none. The first three and
the last are a beginning, a stutter, a failure and a stutter of `Store`; the
other two are the moments at which a call has its effect.

`Chain` is a recursive function. What the theorems need of it, that a chain
stays in a set closed under links and depends only on the table within that set
(`ChainWithin`, `ChainSame`), follows for every volume from the well-foundedness
of the numbers, by the least step at which it would fail. Liveness
(`CallsReturn`) stays with TLC.

## 4. Programs and windows (`Apps`)

**State.** `fiber`, `slot`, `win`, `owner` (`apploader_window_slot`), `order`
(`window_order` up to `window_count`), `buttons` (the cached taskbar), `topmost`
(the focus of the frame), `running` (`apploader_program_running`), `current`
(fiber and slot), and `phase`, `pos`, `loading` for where the kernel stands.

**A frame** goes through the phases `click` (`NoClick`, `ClickSearch`,
`ClickTaskbar`, `ClickWindow`), `wheel` (`Wheel`, which then chooses the
focus), `paint` (`PaintPlain`, `PaintGone`, `PaintAlive`, one per entry of the
order, then `PaintDone` with the taskbar) and `key` (`NoKey`, `KeyQuit`,
`KeySearch`, `KeyToProgram`, `TerminalExit`, `LoadRefused`, `LoadStart`).
`PaintAlive` and `LoadStart` resume a fiber: phase `slice`, in which the
program polls, yields, asks for a window, exits or faults. After the first
slice the load is completed in phase `load` (`LoadFailed`, `LoadDone`).
`KeyQuit` leaves for the shell, `StartGui` comes back and clears the windows
but not the slots, as `wm_init` does.

**Abstractions.** Any visible window can be hit by a click. The search panel is
reduced to opening or raising a built-in application, in either phase in which
the code does it. An event in a queue is the number of the program it was
queued for. A loaded program's file name is never the title of a built-in
application. Dragging, resizing, the network panel and the contents of the
built-in applications do not change this state. When `window_order` overflows
or the kernel halts, the model stops (phases `overrun`, `halted`), which is why
these runs do not check for deadlock.

| Run | Bounds | Shows |
|---|---|---|
| `apps_desktop` | 3 windows, 2 slots, 3 fibers, queue of 3 (two events), all gestures, fair | `ProgramsApart`, `SyscallsLandInCaller`, `OwnEventsOnly`, `UsedIsOrdered` (with the types), `ShownProgramsRun` |
| `apps_fault` | 4 windows | violates `FaultsRecovered`: a fault halts the kernel after another program has exited |
| `apps_adopted_window` | 4 windows | violates `WindowShowsItsProgram`: an old window runs the new program of its slot |

Since a fiber is never free a second time, the number of fibers bounds the
number of loads; three fibers for two slots make one slot be used twice while
the other is in use, which is where the interesting cases are.

**Proved** (`AppsProofs`, for any number of windows, slots, fibers and queued
events, from `AppsAssumption` only): `ProgramsHaveTheirOwnStack`
(`ProgramsApart`), `CallsReachTheCaller` (`SyscallsLandInCaller`),
`ProgramsPollTheirEvents` (`OwnEventsOnly`) and `WindowsStayInOrder`
(`UsedIsOrdered`: every window in use is in `window_order` at least once; it can
be there twice, when a window that closed by itself is opened again, and the
model contains that). The inductive invariant adds to these three facts. `PhaseOK`:
what `pos` and `loading` hold in each phase, so that `PaintAlive` and `LoadDone`
use a real place and slot. `CallerOK`: the running fiber, the current slot and
the caller belong together, and between slices no fiber runs. `FreeSlots`: a
slot without a program names no fiber, so that its next program does not
inherit one. Raising and closing windows is a matter of removing one place
of a sequence and adding one; the lemmas on `window_order` say what that does
to its members. `ShownProgramsRun` is a liveness property and stays with TLC.

**Fairness.** `WF_vars(Desktop)`: the frame loop waits for nothing but the next
timer tick, and a program gives the processor back in the end (fibers are
cooperative by design: a program that never yields hangs the machine, and
`fiber.c` says so). Nothing is assumed of the user: every phase can pass
without input.

## 5. Interrupts (`Input`)

**State.** `tick`, the key ring (`buf`, `head`, `tail`) and `wheel` are shared
with the handlers. `pc`, `call`, `c`, `delta`, `end` are the interrupted code.
`typed` and `seen` count keys pressed and keys delivered.

**Steps.** `TimerIrq`, `KeyIrq`, `MouseIrq` are whole handlers: their gates
clear the interrupt flag. The code takes one step per access to a shared
variable: `ReadWheel`, `ClearWheel`; `SetEnd`, `TestTick`, `Halt` for
`timer_wait`; `TestRing`, `Halt`, `TakeKey`, `Advance` for
`keyboard_getchar_blocking`; `PollKey` for `keyboard_has_key`. `Begin` chooses
the caller: a line read by the shell, a pause, the end of a desktop frame, or
one of three system calls, which run with interrupts off. Modifier keys and
scan codes are left out: they decide which character is put into the ring, not
whether. Of the mouse packet only its turn of the wheel is kept.

| Run | Bounds | Shows |
|---|---|---|
| `input_waits` | ring of 3, 4 keys, 2 turns of the wheel, 3-bit tick, waits of 0 to 2, all callers | `KeysOnceInOrder` (with the types), `FrameNeverBlocks`, `WheelAtMostOnce`, `WaitsKept` (`WaitsEnd` and `WaitsLongEnough`) |
| `input_syscalls` | 1 key | violates `SyscallsReturn`: a blocking system call never returns |

The ring holds two keys and wraps in a run with four. The tick is
3 bits wide instead of 32, so that its wrap is reached. `input_waits` does not
check for deadlock, because a system call can stop the machine.

**Fairness.** Weak fairness of the code, of the timer and of a pending key
interrupt: the processor executes, the timer is programmed once and runs, and
an interrupt is taken when the flag allows it. A processor that does not sleep
takes at least one step per tick. Typing is not fair.

**Proved** (`InputProofs`, for every ring size, tick width and any number of
keys and turns, from `InputAssumption` only): `KeysNeitherLostNorRepeated`
(`KeysOnceInOrder`), `DesktopNeverBlocks` (`FrameNeverBlocks`),
`WheelNotRepeated` (`WheelAtMostOnce`) and `WaitsAreLongEnough` (the safety half
of `WaitsKept`). The inductive invariant says of every key pressed that it was
read, was dropped because the ring was full, or is in the ring, where keys
follow each other in the order they were pressed (`RingOK`; the arithmetic is
that of places modulo the size of the ring), and what the interrupted code
knows between two of its accesses: `TakeOK` of the ring, since only this code
moves the tail; `WheelOK` of the copy `delta`, since the wheel only grows until
it is reset; `WaitOK` of the ticks that have passed, unless the deadline
wrapped around. `WaitsEnd` stays with TLC.

## 6. The network (`Net`)

**State.** `lease` (`have_lease`, `my_ip`, `gateway_ip`), `arp` (the cache of
one entry), `conn` (`struct tcp_conn`), `resp` (the static `response` of
`net_http_get`), `pc` and `call` (where the client stands, its parameters and
locals), `res` (what the last call returned), `now` (the tick, as fine as ports
and query numbers are). `frames` holds what is on the way to this machine.
`acked`, `asked`, `opened` and `flaws` are history.

**Steps.** `NetConnect` and `Get` are the commands. Then

| Code | Actions |
|---|---|
| `net_init_and_request_lease`, `wait_for_dhcp_reply` | `SendDiscover`, `GotOffer`, `SendRequest`, `GotAck` |
| `resolve_next_hop`, `arp_resolve` | `Hop`, `SendArp`, `GotArp` |
| `net_resolve_hostname` | `SendQuery`, `GotDns` |
| `tcp_connect` | `SendSyn`, `GotSynAck` |
| `net_http_get`, `tcp_wait_segment` | `SendRequestLine`, `RequestFails`, `Receive`, `ReceiveTimeout`, `ExtractBody` |
| `tcp_close` | `CloseReceive`, `CloseTimeout` |
| deadlines, and a card that does not send | `Timeout`, `SendFails` |

**The network** loses a frame by leaving it in `frames` for ever, delays it by
leaving it there into a later command, reorders by delivering any of them, and
repeats it by leaving a copy (`Take`). A loop of the client that reads a frame
it does not wait for discards it: that too is a frame never taken. The other
end is external: it answers a request or does not.

**Abstractions.** A host is its address; a network stands for the address it
leases and for its gateway. A byte is its connection and its place in the
server's stream, so that what arrives can be compared with what was sent.
A server that goes on sending after or instead of its reply is `Chatter`: empty
segments in order, each of which the loop acknowledges (`Again`) and puts its
deadline off for; they stand for endless data too, which after the buffer is
full leave it as it is. `ExtractBody` needs
the headers and otherwise answers as the status line may have it; what it does
with chunked and compressed bodies is in `HttpBody`, HTTPS in `Tls`. Not
modelled: checksums, resets, the rings of the card, and the wrap of the port
and query numbers (`% 16384` and `& 0xFFFF`, `net.c:489`, `504`, `723`: `Stamp`
grows without bound, so that answers from a whole turn of the numbers ago are
outside the model).

| Run | Bounds | Shows |
|---|---|---|
| `net_fetch` | one network, a server on the subnet and one beyond the gateway, 3 commands, 1 repeated frame, replies of 2 segments, a buffer of 2 bytes | `LeaseIsOurs` (with the types), `SentToHost` (`RightHost` and `ToNextHop`), `OwnReply`, `HonestGet`, `CommandsReturn` |

Three commands are the least in which a lease is followed by two exchanges, so
that an answer of the first can come in the second, in the same tick or later.
One reply fits the buffer and ends with its FIN, the other does not and has a
FIN of its own. The run does not check for deadlock, because the number of
commands is bounded.

**Fairness.** `WF_vars(Client)`: every loop polls the card and the tick, waits
for nobody else, and the timer runs. Nothing is assumed of the network or of
the user. In particular the server need not stop: `CommandsReturn` says that a
command returns *if* the server stops some day (`ServerStops`,
`<>[][~Chatter]_vars`). Without that premise TLC finds the loop of
`net_http_get` running for ever (`net.c:1002-1017`): `idle_deadline` is put off
by every segment accepted, a full `response[]` does not end the loop, and there
is no bound on the whole.

**Proved** (`NetProofs`, for any networks, hosts, replies cut anywhere, buffer
sizes, and any number of commands and repeated frames, from `NetAssumption`):
`LeaseAcknowledged` (`LeaseIsOurs`), `SentWhereMeant` (`SentToHost`),
`ResponseFromPeer` (`OwnReply`) and `ResponseInOrder` (`HonestGet`). Since a
frame can come at any later time, the inductive invariant speaks of all frames
on the way (`FramesOK`): each says something that was true when it was sent and
stays true, because history only grows. To this it adds what the client has
learnt in each of its stages (`LeaseOK`, `GetOK`, `HostOK`, `MacOK`) and that
the response so far is a prefix of one connection's stream whose next byte is
the one the connection waits for (`PeerOK`, `ReplyOK`, `EndOK`).
`CommandsReturn` stays with TLC.

## 7. HTTPS (`Tls`)

**State.** `stream` is the static reassembly buffer of `tls_recv_record`, which
outlives a connection; `flight`, `got`, `transcript`, `readSeq` are the locals
and fields of `tls_connect`; `resp` is `response[]` of `net_https_get`; `wire`
and `server` are the other end. `conn`, `clean`, `flaws` and `beat` are history;
`beat` changes with each `Chatter`.

| Code | Actions |
|---|---|
| `tls_stream_fill`, its deadline | `Fill`, `RecvTimeout` |
| `tls_connect`: the server's flight | `Connect`, `ConnectFails`, `RecvFlight`, `WalkMessage`, `WalkEnds`, `WalkGarbage` |
| `tls_connect`: checks and Finished | `SendFinished`, `CheckFails`, `SendFails`, `RecvCcs`, `RecvFinished` |
| `net_https_get`, `tls_recv`, `tls_close` | `SendRequest`, `RecvBody`, `Extract` |
| a record that says nothing, in the flight or in the response | `Chatter` |

**Abstractions.** TCP below delivers a prefix of what the server sent, in
segments of any size, and may stop anywhere; `Net` is about that. A record is
two tokens, header and payload, so that it can be cut in two. Cryptography is
perfect: keys and random numbers are the number of their connection, and a
record opens only with its keys and its sequence number. Sizes count in units:
a chain of certificates that overflows `transcript[]`, a record that overflows
`chunk[]` and a response that overflows `response[]` all occur. The servers of
`MCTls` keep to the protocol or break it in each way the code checks for.

`tls_session` makes three requests in a row, the least in which a connection
that failed is followed by one that starts with what it left, and that one by
another. It shows `Agreement` (with the types), `OwnResponse`, `HonestServed`
(with `CleanAfterClose`) and, with `WF_vars(Client)` (the client polls, and its
deadlines pass), `RequestsReturn`. That one has the premise that the server
stops sending some day (`ServerStops`, that there is an end to `Chatter`): the
loop `for (;;)` of `net_https_get` (`net.c:1069-1076`) ends only when `tls_recv`
fails, each record has a new deadline (`tls.c:284`), and without the premise TLC
finds it running for ever. `beat` is there so that such a record is a step.
`Extract` may refuse any response, as `http_extract_body` does for a bad status
or a body it cannot decode; what that does is in `HttpBody`. The run does not
check for deadlock, because the number of requests is bounded.

**Proved** (`TlsProofs`, for any servers that send records of the right shape,
any sizes and any number of requests, from `TlsAssumption`):
`ResponseFromThisConnection` (`OwnResponse`), `HandshakeCompletedByBoth`
(`Completed`, the first conjunct of `Agreement`) and `HandshakeAgreed` (the
whole of `Agreement`) and `HonestAreServed` (`HonestServed`).

The argument for the first two: a record that is sealed with the keys of a
connection was made by that connection's server, in the order of its sequence
numbers, wherever in the reassembly buffer or on the wire it now is
(`TokensOK`); a Finished of this connection exists only if its server has seen
the same transcript. `NumbersOK` ties the client's sequence number to what it
has read.

`HandshakeAgreed` is about the messages. The client parses whatever is in the
buffer, and records that an earlier connection left there come first
(`BufferOK`: nothing old follows anything new; `FlightOK` says the same of
`flight[]`). So a stale message can set what the client has got, a stale
certificate say. What keeps that from mattering is the transcript: a stale
message that is parsed is also appended to it, and then no server of this
connection has the same one; and a transcript without a stale message holds
only what this server said, which is then what the client has got
(`GotIsSaid`). This needs that the stale message is really appended.
`transcript_append` leaves out silently what does not fit, and `flight[]` is
twice as large as `transcript[]`, so a message as large as `transcript[]` would
be parsed and leave no mark: the theorem has the hypothesis `MessagesFit`, that
no server sends a message of that size (8 KB). That the invariant is about all servers at once makes lemmas about sums and
flattened sequences necessary (`SumConcat`, `Flattened`), which are proved
from the least counterexample, not by the induction rule.

`HonestAreServed` is about a server that keeps to the protocol: a connection
that begins with an empty buffer, and in which nothing times out, cannot be
sent or is too large for a buffer, ends with the whole response. Its hypothesis
`HonestKeepProtocol` says what keeping to it means: the records of the flight
are handshake records, the messages they make up are ServerHello, Certificate
(with the name asked for), ServerKeyExchange (if the suite is ECDHE) and
ServerHelloDone, in this order and with nothing behind the last, and there is a
response. How the messages are cut into parts and records, and the records into
segments, is left open. The invariant `Track` says, for each place of the
client, what is still on the way (`OnWay`, the buffer followed by the wire):
while the flight is read, the records in it, the parts in `flight[]` and the
transcript together make up the server's transcript (`FlightComes`), and what
the client has got is what that many messages say (`GotInOrder`); afterwards it
is exactly the ChangeCipherSpec and the Finished, nothing, or the rest of the
response from the record the client's number stands at (`RepliesFrom`). It is
needed because none of the failures of `tls_connect` may occur on this path.
`CloseOK`, about any server, is the other half of `HonestServed`: the
close_notify of a connection is the last thing on the way, so with it the
buffer is empty.

The servers of `MCTls` satisfy both hypotheses (`ServersAreAsSupposed`, which
TLC evaluates). Only `RequestsReturn`, a liveness property, stays with TLC.

## 8. Start, gate and update (`Boot`)

**State.** `files` and `busy` are those of `FileCalls`; `disk` is sector 0 and what
the tables and the root directory hold; `at` is where the machine stands;
`mounted`, `typed`, `attempts` are the kernel's memory, which a loss of power
clears. `owner`, `entered`, `staged`, `unread` and `harm` are history.

| Code | Actions |
|---|---|
| `kernel_main`, `ata_init`, `fat16_mount` | `PowerOn`, `Probe`, `Mount` |
| `fat16_format` | `FormatBoot`, `FormatAreas`, `FormatEnd`, `FormatFails` |
| `login_run`, `first_boot_setup`, `auth.c` | `NoGate`, `LoginRun`, `NewPassword`, `ConfirmPassword`, `PasswordSaved`, `PasswordNotSaved`, `EnterPassword`, `Pause`, `NetworkSetup` |
| the shell's file commands, `updatecmd_run` | `ShellCall`, `Update`, `Called` |
| power, and the host that stages an update | `PowerOff`, `HostCopies` |

Every read may fail (`unread`), every call on a file may, and power may go at
any step, in the middle of a format too. Failed reads of the table under a call,
after which a volume may be `broken`, are left to `Fat16`. The password hash is perfect. The
files the model distinguishes are records of either of two passwords, a forged
record, a kernel, the first sectors of one, one too large for
`update_buffer`, and others.

`boot_gate` starts from a missing, blank, foreign or valid disk and shows that
only who typed the owner's password is at the shell (`UnlockedByOwner`), that
the gate never asks for a password nobody knows (`PromptCanBeMet`), that a
start changes no file unless a read failed (`StartKeepsFiles`), that a
volume in use holds nothing of what was there before unless a format was cut
short (`FormattedClean`), that what GRUB would boot is nothing or a kernel
exactly as it was staged (`BootsWhole`), and that every start comes to a prompt
(`ReachesPrompt`). Exploring stops after a rewrite that was cut short
(constraint `Whole`), after which nothing is promised of that name. The host
stages a kernel or a file too large for `update_buffer`, the user writes a forged
record; two passwords are enough for the owner's and another's.

The owner is who set the password while no record was there. Whoever sets one
because a record could not be found or the disk could not be read is not the
owner: the record was set aside (`"reset"` in `harm`). This happens when the
lookup of `AURAUSER.DAT` fails (`auth.c:75`), so that `login_run` takes the start
for the first and runs `first_boot_setup`, and when the read of the boot sector
fails, so that `kernel_main` formats the disk. From then on `UnlockedByOwner`
claims nothing, although `auth.c:19-21` has the machine locked until the right
password is entered; without this exception TLC finds it violated by one failed
read.

**Fairness.** `WF_bootVars(Kernel)`: the disk driver's waits end after a number
of polls and a request for a lease returns: its waits have fixed deadlines,
which nothing puts off (`CommandsReturn` of `Net`). Nothing
is assumed of the user.

**Proved** (`BootProofs`, for every set of passwords, files and disks, from
`BootAssumption`: the three names differ, and no content is the absence of a
file): `GateOpensForOwner` (`UnlockedByOwner` while `Whole`, and unless the shell
itself has put a record under the gate's name; with its exception for a record
that was set aside), `GateCanBeMet`
(`PromptCanBeMet`), `VolumesAreClean` (`FormattedClean`), `InstalledAsStaged`
(`BootsWhole`) and, for behaviours that stay `Whole`, `StartingDestroysNothing`
(`StartKeepsFiles`). Without the constraint of the run, what ends with a torn
rewrite has to be said: the inductive invariant is one part that always holds
(`Types`, `BusyOK`: which call on a file is open in which place, `DiskOK` and
`CleanOK`: how far a format has come) and one that holds while `Whole`
(`AuthOK`: the record is the owner's, or somebody's once one was set aside,
`GateOK`: who has typed what, `ImageOK`:
what is staged and installed). `ReachesPrompt` stays with TLC.

## 9. Algorithms (`MCAlgorithms`, `MCTexts`)

Each is a set of operators named as in the code and called once (`Calls`), with
every input of a small set; an invariant compares the answer with a reference
that is written independently: integers, the group law by repeated addition, an
encoder for the decoder, a disassembler for the assembler, a text with a cursor
for the editor's table of lines.

| Property: its parts | Module | Inputs |
|---|---|---|
| `NumbersExact`: `ArithmeticExact` | `Bignum` | words of 2 bits, 3 of them; all operands for moduli up to 15, some of three words, with two kinds of junk on the stack |
| `NumbersExact`: `OneEncoding`, `PaddedReadsBack` | `Bignum` (RSA padding) | all encodings of 7 bytes over small byte sets; all messages of up to 3 bytes; a signature or a buffer of the right size, a byte short, and a key larger than the scratch buffer |
| `CurveExact`: `ScalarMultIsSum`, `SecretsAgree` | `Ecc` | every point of every curve over the field of 5 and one of 7 and of 11 elements, all scalars of 4 bits |
| `BodyRestored`: `SymbolsDecode`, `InflateInverts` | `HttpBody` | all codes of 4 symbols; two blocks of every type with up to 3 tokens, matches that overlap; tables of more lengths than `all_lengths` holds |
| `BodyRestored`: `BodyUnframed`, `BodyUnpacked` | `HttpBody` | chunked bodies cut anywhere, full buffers, chunk sizes at and beyond the width of the size; gzip headers with their optional fields |
| `AssembledOrRefused`: `AssembledIsSource`, `FirstErrorReported` | `Asm` | programs of a few lines with all instructions, high registers, forward and far jumps, 2 labels, 3 jumps and one too many, misspelt words, and errors of every kind |
| `EditorKeepsText`: `KeyEditsText`, `FileRoundTrip` | `NoteEdit` | every buffer of up to 3 lines of up to 2 characters and every key; every file of up to 6 characters |
| `BadRuleIsolated` | `Html` (css.c) | every sequence of up to 4 tokens before a good rule, names with a brace in them included |
| `PageAsWritten`: `TextFlows`, `StyledByCascade` | `Html` | every page of up to 5 tokens under three style sheets, with every table at its limit, and on lines of five characters with runs of two |
| `VolumeLaidOut` | `Geometry` | every size from 100 to 3200 sectors and from 65400 to 65800, with the real numbers |
| `MouseRealigns` | `Mouse` | three packets of 3 or 4 bytes, with one byte lost or one too many |

The widths are parameters (`WordBits`, `ScalarBits`, `ByteBits`, `MaxLabels`,
`MaxFixups`, `CodeSize`, `MaxLines`, `MaxLineLen`, and, fixed in `MCAlgorithms`,
`TableSize` for `all_lengths` and `SizeMod` for the width of a chunk size): with
the small ones every
carry, wrap and limit is met, which the real ones would put out of reach.
Deadlock is not checked, because after its one call a behaviour ends.

A reference says what the documents of the repository say. Where the code does
something else, the inputs for which it does are an operator of their own, and
the property says what holds for them instead: `SizeWraps` (chunk sizes),
`TooManyLengths` (`inflate.c`), `UnknownSource` and `Unpatched` (the assembler),
`BraceInSelector` (`css.c`), `TagInWord` and `LongWord` (`html.c`),
`NeverConverges` (the format). Each is needed: without it TLC finds the property
violated. Section 10 quotes the lines.

All of this stays with TLC: most of these modules are recursive, and what a
recursive definition computes cannot be proved with the provers at hand.

## 10. Findings

Each is a run that TLC shows violated; `PROJECT.json` quotes the line it
contradicts.

1. `fat16_failed_write`: a rewrite that fails on a full disk has destroyed the
   file.
2. `apps_fault`: after one program has exited, a fault in another halts the
   kernel.
3. `apps_adopted_window`: a window can run the program that was loaded into its
   slot later.
4. `input_syscalls`: `SYS_READ_CHAR` and `SYS_SLEEP_TICKS` never return.

The models also contain these behaviours, which the properties allow for and do
not exclude.

File system and start:

* a deleted entry is not reused in a root directory that has no end marker
  left (`ScanExhausted`);
* rm of a directory frees its own chain only, so that the files in it keep
  clusters no one can reach (`orphan`);
* any failure of `fat16_mount`, a read error too, makes `kernel_main` format the
  disk (the exception `unread` in `StartKeepsFiles`);
* a format that is cut short on a disk with old data leaves a volume that mounts
  with the old tables (`cut` in `FormattedClean`); one whose second mount fails
  leaves `mounted` set although "Disk format failed" is printed (`FormatEnd`);
* a failed lookup of the password file makes `login_run` take the start for the
  first, and a failed read of the boot sector makes `kernel_main` format the disk;
  either way anybody sets the next password, against `auth.c:19-21` (`"reset"` in
  `UnlockedByOwner` and `PromptCanBeMet`);
* a failed read of the allocation table answers 0xFFF7 (`fat16.c:121`), which
  every walk takes for a cluster: `free_cluster_chain` leaves the rest of its
  chain, clears a word outside the table and may run for ever (`wild`);
* the three passes of `fat16_format` "converge this exactly for any reasonable
  disk size" (`fat16.c:247`) except for two of every 1026 sizes (1055, 1056,
  2081, 2082, ...), where the last cluster has no entry in the table
  (`NeverConverges` in `VolumeLaidOut`); on disks above 128 MB the number of clusters wraps at 16
  bits, which the sizes checked do not reach;
* a file with `NOTE_MAX_LINES` line ends or more leaves `line_count` one past
  the table (the premise of `FileRoundTrip`).

Programs and input:

* a window that closed by itself stays in `window_order`, so that it is listed
  twice when it is opened again, and the table can overflow (phase `overrun`);
* a program is told that it has a window when the table is full (`LoadDone`),
  and closing a window does not stop its program, whose slot stays taken;
* the fiber of a program that exited is never free again (its state becomes
  the one of a finished fiber, which no code resets);
* a wait whose end wraps around ends at once (`EndWrapped`);
* a turn of the wheel between the read and the reset of the counter is lost
  (the inequality in `WheelAtMostOnce`);
* a movement or a turn of the wheel with bit 3 set can keep a shifted stream of
  mouse bytes shifted, which `mouse.c:65` says "can't" happen (the premise of
  `MouseRealigns`).

Network:

* a GET that a timeout cuts short is returned as a success (`"cut"` in
  `HonestGet`);
* the loops that receive a response have no bound on the whole
  (`net.c:1002-1017`, `1069-1076`): a server that goes on sending keeps a command
  running for ever (the premise `ServerStops` of `CommandsReturn` and
  `RequestsReturn`);
* a chunk size is read and added to the place in the body in 32 bits
  (`net.c:852`, `861-864`), so that the test for a body cut short is passed by a
  size that wraps (`SizeWraps`);
* a segment that does not fit the response buffer is acknowledged and skipped,
  and a later, shorter one is still appended (`"skipped"`);
* two connections or two queries of the same tick share a port and a number,
  so that an answer to the first is taken for one to the second (the
  exceptions in `RightHost` and `OwnReply`);
* `tls.c:278` speaks of "One persistent stream buffer per connection", but it is
  one for all: after a connection that broke off, a later one can fail because
  of what is left in it (`clean` in `HonestServed`);
* a record larger than `chunk[4096]` ends an HTTPS response, and a handshake
  longer than `transcript[]` fails at Finished;
* `all_lengths` (`inflate.c:190`) has 288 + 30 places, and a stream can announce
  up to 320 lengths, against "returns 0 on any malformed input"
  (`TooManyLengths`);
* an empty gzip body is reported as a failure; a comment at `inflate.c:41`
  mentions a check of the CRC that the code does not make.

Arithmetic, assembler, browser:

* `bn_mulmod_w` leaves the words above those of the modulus uninitialized;
  operands longer than the modulus lose their upper words; a sum modulo a
  number of full width loses its carry (no caller does either);
* a private key of 0 leaves the public point unassigned;
* jumps beyond `MAX_LINES` of them silently keep displacement 0, although
  `asm.c:308-310` and `docs/ASSEMBLY.md:86-88` say that a wrong offset is never
  silent (`Unpatched`); an unknown register or malformed memory operand as a
  source assembles as the number 0, although `docs/ASSEMBLY.md:171` says it
  fails (`UnknownSource`);
* a brace in a selector is part of the name (`css.c:229`), so that the rest of
  the rule and the rule after it are skipped together, against `css.c:248-249`
  (`BraceInSelector`);
* a closing tag inside a word puts a space there that stands for no whitespace
  of the page (`html.c:66-71`; `TagInWord`), and a word longer than
  `HTML_RUN_TEXT_MAX` is cut (`html.c:544`), where the head of the file speaks of
  splitting it (`html.c:25-27`; `LongWord`);
* a word that is directly followed by an opening tag takes the new element's
  style; a tag that does not fit the style
  stack is not pushed, but its closing tag pops; selectors are lower-cased,
  while ids and classes are not.

## 11. What is not modelled

* The descriptor rings of the network card (`e1000.c`): a failed send is only a
  failed send. A send that gives up while the card still owns the descriptor is
  listed as a hazard without a property.
* AES, SHA-256, HMAC and the key derivation: deliberately opaque, as perfect
  cryptography; certificates only as far as the outcome of parsing them.
* Graphics, console, settings and the painting of windows: no state that a
  property could be about. Full screen is larger than the pixel cache of a
  loaded program's window; sizes are not in the model.
* Reads that fail inside `fat16_read_file`; long file names.
* Splitting text into words and tags (command lines, assembler lines,
  attributes), the translation of scan codes, and the runtime support.
* Dragging, resizing, the panels, and the built-in applications' contents.

## 12. Running it

    tlc -workers 2 -config Fat16Dirs.cfg MCFat16
    tlapm Fat16Proofs.tla

and likewise for the other runs of `PROJECT.json`, the other modules whose
names end in `Proofs`, and `Fat16Chains`.

Every property has a mutant in `PROJECT.json`: a variant of one definition,
such as a dropped check, under which the same run finds the property violated.
The variants stand next to the definitions they vary, and nothing else uses
them.
