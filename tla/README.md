# Mednafen: a TLA+ verification project

Mednafen is a multi-system emulator: some twenty emulation cores behind one
driver-independent layer (`src/src/*.cpp`) and one front end
(`src/src/drivers/`). This project models the parts where the program's own
correctness is decided by *order*: which thread touches what when, which piece of
history survives, what a step may never do to state another step still needs.
The cores' arithmetic (CPU, sound and video emulation) is not modelled.

Paths below are relative to the repository; its source tree is `src/`, so the
code is under `src/src/`.

## 1. Inventory

| Part | State it keeps | Operations | What is hard |
|---|---|---|---|
| Disc reader, `src/src/cdrom/CDInterface*.{h,cpp}` | two message queues, a ring of 256 sector buffers, the read-ahead position | construct, `ReadRawSector`, `ReadRawSectorPWOnly`, `HintReadSector`, destroy; the read thread's loop | two threads, condition variables, eviction from the ring, read errors |
| Streaming file reader, `src/src/MTStreamReader.{h,cpp}` | two semaphores, a chunked ring buffer, the active stream and its loop point | `set_active_stream`, `get_buffer`, `advance`, `zero_advance`; the read thread | command/acknowledge ping-pong, writer and reader in one buffer, loops, failing reads |
| State rewinding, `src/src/state_rewind.cpp` | the last state, a ring of compressed differences | enable, record, rewind, end | ring wrap, differences that only make sense in order, failure half-way |
| Save states, `src/src/state.cpp` | the slot table, section name map, the canary | save, load, select; data-only states | partial loads, deferred errors |
| Input movies, `src/src/movie.cpp` | one active recording or playback, its stream and position | save, load, stop, per-frame input, commands, state sections | rewinding while recording, states taken across start and stop |
| Emulation loop, `src/src/mednafen.cpp` | game, pause and rewind flags, media drives, pending commands | open, close, `MDFNI_Emulate`, media changes | order of netplay, movie, rewind and core inside one frame |
| Network play, `src/src/netplay.cpp` | connection state, player lists, controller masks | connect, login, per-frame exchange, remote commands, state transfer, disconnect | errors inside nested calls, re-entrance, remote messages against local state |
| Cheats, `src/src/mempatcher.cpp` | cheat list and its file, RAM pages, the cheat search | add, delete, toggle, flush, load, save, apply | the list against what is patched in, what survives netplay |
| Settings, `src/src/settings.cpp` | setting table, overrides | define, set, load, save | precedence of override layers |
| Front end, `src/src/drivers/main.cpp` | two software frame buffers, `VTReady`, event FIFOs, `NeedVideoSync`, `NeedExitNow` | game thread: `GameLoop`, `PassBlit`, `MDFND_Update`; main thread: `MainVideoLoop`, `PumpWrap` | who owns which buffer, hand-offs in both directions, exit at any time |
| Lock-free FIFO, `src/src/AtomicFIFO.h` | a ring, two positions, a count | read, write, peek | memory order, full and empty |
| Threads, `src/src/mthreading/` | mutex, condition, semaphore | lock, wait, timed wait, post | timeouts, EINTR |
| Saturn VDP2 renderer, `src/src/ss/vdp2_render.cpp` | a command ring, two counters, the busy-wait flag | `WWQ`, per-line and per-frame hand-off, state action; the render thread | a full ring, sleeping against busy waiting, frame surface hand-over |
| SNES PPU renderer, `src/src/snes_faust/ppu_mtrender.*` | a command ring with batched publication | `WWQ`, line, vblank, sync; the render thread | publication in batches, a full ring, two frames without a wait between them |
| SNES MSU1, `src/src/snes_faust/msu1.cpp` | audio and data streams over `MTStreamReader` | seek, play, stop | a stream changed while it plays |
| Saturn CD block, `src/src/ss/cdb.cpp` | 200 sector buffers in partitions, filters and their connections, drive phase, the file system's place | commands, sector delivery, transfers, authentication, reading directories | buffers leaked or doubly linked, all buffers full, a command between any two steps of the drive |
| PlayStation hardware, `src/src/psx/` | DMA, CD controller, timers, IRQ, SIO | register accesses, event updates | event times, order of interrupts |
| SCSI CD drive, `src/src/cdrom/scsicd.cpp` | bus phase, FIFO, play state | phases, commands | phase protocol |
| Disc images, `src/src/cdrom/CDAccess*.cpp` | track table | read sector, make TOC | data conversion, mostly pure |
| Other cores (`src/src/pce`, `pcfx`, `md`, `nes`, `gb`, `gba`, `lynx`, `ngp`, `sms`, `vb`, `wswan`, `apple2`, `snes`) | emulated hardware | per-cycle emulation | arithmetic rather than protocol |
| `src/src/gngeo` | a ported Neo Geo emulator | emulation | third-party code |
| Libraries (`src/src/{minilzo,zstd,tremor,mpcdec,trio,quicklz,zlib}`) | - | - | vendored |

How they interact: the front end's game thread calls `MDFNI_Emulate` once per
frame; that calls netplay, movie, rewinding and the core in a fixed order, and
the core calls back for video and sound. Discs, streams and video lines are
handed to helper threads. The main thread owns the window and the input events.

## 2. Plan

In the order in which it was carried out; the most important behaviour first.

1. **Disc reader**: `CDDisc`, `CDInterface_ST` (what any disc reader promises),
   `CDInterface_MT` implementing it; proofs for every ring size.
2. **State rewinding** as an implementation of a bounded undo history, checked
   and proved.
3. **Movies**: the session of movie, rewinding, commands and save states.
4. **Thread hand-offs**: `MTStreamReader`, the frame buffers between game and
   main thread (`VideoHandoff`), the Saturn VDP2 renderer (`VDP2Render`), the
   SNES PPU renderer (`PPU_MT`) as an implementation of the single-threaded one
   (`PPU_ST`).
5. **Saturn CD block**: the filters' connections (`CDBFilters`), the sector
   buffers as an implementation of a pool of queues (`CDBBuffers`), the drive
   and the file system (`CDBDrive`).
6. **Network play** (`Netplay`) composed with movies, rewinding, save states,
   commands and the cheat list (`Cheats`).
7. **Proofs** of every safety invariant of these and of every refinement
   (section 5).

What could follow: the event FIFO composed with `VideoHandoff`; MSU1 as a client
of `MTStreamReader`; the drive of `CDBDrive` composed with the lists of
`CDBBuffers`, of which it counts the free buffers only.

## 3. Modules

Names of variables, actions and operators are those of the code where TLA+ allows
it; a thread's place in its code is a `pc`-like variable (`emu`, `rt`, `gt`,
`mt`, `pc`). One step is what the code does between two points where another
thread can see or change something: a lock, a queue, a semaphore, an atomic
variable. Operators named `X_Suffix` under a comment "Mutation:" are defective
forms of `X`; no specification uses them. They are there to show that a property
notices the defect.

| Module | What it is |
|---|---|
| `CDDisc` | what a disc is to a reader: the sectors that can be read, never, or sometimes |
| `CDInterface_ST` | the single-threaded reader, also the abstract specification of the other |
| `CDInterface_MT` | emulation thread, read thread, both queues, ring, condition variables |
| `StreamData`, `LoopedStream` | streams with a loop point; what a caller of the streaming reader sees (abstract) |
| `MTStreamReader` | caller and read thread, byte by byte through the ring |
| `VideoHandoff` | game thread and main thread around `VTReady`, `NeedVideoSync`, `NeedExitNow` |
| `VDP2Data`, `VDP2Sync` | lines and commands; the renderer without a thread (abstract) |
| `VDP2Render` | emulation thread, command ring, render thread |
| `PPUData`, `PPU_ST` | what a command draws; the renderer without a thread (abstract) |
| `PPU_MT` | emulation thread, command ring published in batches, render thread, speculative execution |
| `CDBFilters` | which filter the drive is connected to, and where filters send sectors |
| `SectorPool` | a set of buffers in queues, one with the host (abstract) |
| `CDBBuffers` | the doubly linked lists of `cdb.cpp`, and every command that uses them |
| `CDBDrive` | the drive's phases, the commands that move it, authentication, directories |
| `RewindData`, `RewindHistory` | settings; a bounded list of machine states (abstract) |
| `StateRewind` | the ring of XOR differences |
| `MovieSession` | movie, rewinder, save states and the frame loop |
| `Cheats` | the cheat list and its file |
| `Netplay` | one client of network play, within the frame loop, with movies and `Cheats` |
| `*_proofs` | the theorems about the module of that name; `CDB_proofs` those of the CD block's three, `Video_proofs` those of `VideoHandoff` and `PPU_MT` |
| `MC*` | constants for TLC |

**CDInterface_MT.** `ReadRawSector` is `BeginRead` (the request goes into the
queue), then `FoundSector` or `WaitSector` under `SBMutex`. A wait on a condition
variable is a state of its own that a signal, or a spurious wakeup, ends; a
signal sent to nobody is lost. (The condition variables of
`MThreading_Win32.cpp`, made of auto-reset events, add no behaviour to that: a
signal they keep for a later wait is a spurious wakeup.) The read thread's loop
takes a message or reads ahead (`HandleReadSector`, `ReadAhead`), reads the
sector without a lock and stores it (`StoreSector`). A sector's content is the
set of LBAs its bytes are of: `{lba}`, or `{}` when zeroed.

**MTStreamReader.** Bytes are pairs of stream and offset, so that a byte in the
wrong place is seen. `CopyPiece` is one turn of `read_into_buffer`'s loop. The
caller may look at any byte within `Overbuffer_Count` of its position at any
time.

**VideoHandoff.** `PassBlit`, `MDFND_Update`, the repaint while held, and the
debugger's loop on one side; `MainVideoLoop` with a window system that may fail
anywhere on the other. `honoured` and `repainted` are history variables.

**VDP2Render.** A surface line holds what it was drawn from: which line, the
registers, the counters carried from line to line and the line input. `Drained`
is `EndFrame`'s wait, `WWQ_Room` a full ring's, `Sleep` and `Spin` the render
thread's two ways of waiting. `VDP2Sync` draws each line at once.

**PPU_MT.** `PPU_Update`'s phases of a line are `LineBegins`, `FirstLine` and
`LinePicture`, `LineEnds`; each puts commands into the ring with `Put`, which may
have to make room (`Room`). `Emulate`, `Ahead`, `PPU_SyncMT` and `Synced` are
`Emulate()` with its frame ahead, its frame shown, the wait and the way back.
The picture is forgotten when it is handed to the front end.
Which of two frame descriptions (`tmp_espec`, `espec`) a line was drawn for is
part of the picture, so that a line drawn for the wrong one is seen. `PPU_MT`
implements `PPU_ST` with the renderer's state after all that is in the ring,
published or not, has been executed (`Eventual`).

**CDBFilters, CDBBuffers.** The emulated program's commands come in any order
and with any arguments; sectors from the drive and the file system's own sectors
come at any time between them. A sector's data are left out, so that a filter
with conditions may pass or refuse any of them. `pool` is `Buffers[]`,
`Partitions[]` and the free list exactly as the code links them, and `pool.ok`
is what its assertions say. `DT.BufList` holds the buffers that belong to the
transfer itself; a transfer that only reads a partition keeps none.
`CDBBuffers` implements `SectorPool` with the contents of each list, followed
from its first buffer, as the queue. A command's loops (`Partition_Clear`, the
copying and moving of a range, a reset by flags) are recursive functions of how
often they have been run, one unlinking or linking after the other as in the code.

**CDBDrive.** `Drive` is `Drive_Run()` in each phase, `Periodic` its periodic
check, `FileSystem` is `FLS_Run()`. `drv` has the fields of the code; `wanted` is
a history mark: the sector that must be delivered next. `due` says that one
periodic check comes between two steps of a drive that plays or pauses: the check
comes every 17712 clocks, the step every 75264 or 187065. Of the buffers only
their number counts here. `CheckBufPauseResume` is called by some of the commands
that free buffers, not by all; the others are `Command_Use`.

**StateRewind.** A machine state is a sequence of bits of any length. QuickLZ
packs and unpacks without loss. The refinement decodes the ring from the newest
state backwards (`Undone`) and finds in it the list of `RewindHistory`.

**MovieSession.** Everything runs on the game thread, so the user's requests
(`SaveMovie`, `LoadMovie`, `LoadState`, `QSimpleCommand`, ...) come between
frames, when `pc` is `"idle"`. A frame is `Emulate` (the new input),
`ProcessInput`, `SRWFrame`, `FrameDone`, with a second poll of the input in
between if the core asks for it (`MidSync`). The machine is a value, the core
any function of machine and input. A snapshot for rewinding has the machine, the
port data and, if a movie is open, the position in its file; `own` is a history
mark: taken since the movie was started. `disturbed` is another, of what happened
to the movie there is. `"machine"`: the machine went somewhere the movie does not
say (a rewind across the movie's start or one that failed, a state loaded during
playback or loaded in part). `"file"`: a rewind failed between seeking in the
recording and cutting it (`RewindErrs`), so that the position is before the end of
the file. The rewinder catches every error and the movie never hears of it. What
is then recorded goes over older entries, and what is left of those is `Rest`:
played, it may say anything (`PlayRest`).

**Netplay.** The same frame, with network play in it: `SendInput`, then commands
and states from the server in any number and order (`ReceiveCommand`,
`RecvState`, `JoinedOrLeft`, ...), then the inputs (`ReceiveInput`). The
connection may fail at every use, in the middle of an exchange as well
(`ConnectFails`, `LoginFails`, `SendFails`, `ReceiveFails`), and ends network
play wherever the frame is. The server relays the same messages to all players,
so one of them stands for all: `peer` is its machine, `heard` the input it was
given, `synced` says that both have begun from one state. `film` is the machine
that replaying the movie recorded so far would lead to, `missed` what the code
did not record. A snapshot for rewinding has both: going back to it takes the film
to where it was written up to then, and it lacks now what it lacked then
(`Rewound`). To go back to a snapshot from before the movie, or to fail on the way
(`RewindErrs`), leaves a film that may lead anywhere, and is marked `"rewind"` for
as long as it is recorded. `Cheats` has the list, its file, and history variables for what
the user left (`mine`), and for failures of the file and a login that failed with
cheats unsaved (`lost`).

## 4. Runs

| Run | States | What it shows |
|---|---|---|
| `cd_mt` | 54 thousand | The read-ahead window stays in the ring, the read-ahead within its limit, a request is never forgotten and no wakeup lost; answers are those of the single-threaded reader; all calls return |
| `stream_reader` | 101 thousand | The caller sees the looped stream, nothing is refilled in its sight, threads take turns, all calls return unless something failed |
| `video` | 170 thousand | Unless a frame is repainted none is drawn into the buffer being shown; no request for a video mode is lost or left standing; the exit ends |
| `vdp2` | 2.0 million | The picture is the one drawn without a thread, with writes, line input, resets, and states saved and loaded; the surface is given back |
| `vdp2_live` | 1.2 million | Frames long enough for every wake-up: every wait ends |
| `snes_ppu` | 386 thousand | With and without speculative execution: the renderer rests whenever its state is written or its picture shown, its registers become the emulation's, the picture is the single-threaded renderer's; every wait for the renderer ends |
| `rewind` | 14 thousand | Recorded states come back exactly |
| `movie` | 10 million | A recording writes at the end of its file, whatever fails but a rewind that is about to cut it; the machine is where the movie, replayed, leads to |
| `cdb_buffers` | 140 thousand | No buffer is lost or in two places, the lists are queues, no assertion fails, no filter has two inputs |
| `cdb_drive` | 172 thousand | Every sector is delivered once and in order; a PLAY ends, an authentication ends |
| `netplay` | 1.1 million | The players stay in step; the cheats survive; a recording follows, with rewinding before and after network play |
| `netplay_movie` | - | the finding of section 6 |

Where TLAPS proves that a module's variables keep their types (section 5) and no
more is said by it, the runs do not check that again: there `TypeOK` is the
theorem `TypeCorrect`.

Deadlock is checked in every run but `stream_reader`, where a read that fails
really leaves the caller waiting for ever: `MTStreamReader`'s destructor sends
its command to a thread that no longer listens. `CallsReturn` says that nothing
else does. In `PPU_MT` an idle renderer looks again for ever (`TimesOut`), so
that nobody waits for nothing is what its `CallsReturn` says.

**Bounds.** They are the least sizes at which the code's boundary cases occur.

- `cd_mt`: a ring of two buffers with one sector of read-ahead is the smallest
  that the assumption `max_ra + 1 <= SBSize` allows (the code has 256 and asserts
  a quarter of it); every sector stored evicts another. Four sectors, one bad,
  one flaky, one with the fast subchannel path; a read and a hint beyond the end.
  `MaxQueue` bounds how far the emulation thread runs ahead of the read thread.
- `stream_reader`: a ring of eight bytes in chunks of two, and streams that loop
  within a chunk, across the ring, not at all, and of length zero.
- `video`: two buffers, as in the code; no bound is needed.
- `vdp2`: a ring of two entries is full after every second command; two lines of
  input for overwriting one that is still to be drawn. `vdp2_live` has three
  lines, one of them active, for every wake-up rule. `BusyMargin` and `WakeDepth`
  stand for the code's line counts, `SemBound` for the number of posts a
  semaphore remembers.
- `snes_ppu`: a ring of three entries is full while a line is put into it, with
  one entry published and one not; two lines, with the blanking after the first
  or the second, for lines left black and for sprites looked up on the line
  before. Skipped frames come from speculative execution. The run leaves out those
  the user skips (`FrameSkip = {FALSE, TRUE}`), whose commands are those of the
  frame run ahead; with them there are 1.1 million states and the same properties
  hold.
- `rewind`: a ring of three slots, states of one and two bits: it wraps, and
  differences are taken between states of different length.
- `movie`: two machine states and two inputs; a movie of four entries, that is
  three polls or commands after its state; two snapshots, so that the older of
  them is left after rewinding. A movie rewound goes on, over more than one older
  entry if it was not cut.
- `cdb_buffers`: two selectors and three buffers: a buffer taken from the middle
  of a list, two filters for one input, a filter connected to itself, lists
  exhausted by every command. Of COMMAND_RESET_SEL three sets of flags, each flag
  in one of them.
- `cdb_drive`: two sectors and two buffers, so that all are full before the end
  is reached; PLAY to the first sector, past the end, repeated or not.
- `netplay`: two machine states and two inputs, as in `movie`; one cheat, there or
  not; one state kept for rewinding, which may be of this movie, of an earlier one
  or of none, and may lack what the movie lacked. `netplay_movie` has no cheats.

**Fairness.** Each liveness property is checked under weak fairness of the
threads: a thread that can run for ever does run, a condition or semaphore that
was signalled wakes its waiter, a timed wait ends. Nothing is asked of the user,
the game or the window system. In `VideoHandoff` the end of event processing is
strongly fair: events keep arriving but one call of `MDFND_Update()` does not
process them for ever. In `CDBDrive` the steps of the drive, its periodic check
and the file system are fair, since `CDB_Update()` runs them when their time has
come; `PlayEnds` has the program leave the drive alone in its premise.

## 5. What is proved

Every theorem holds for all values of the constants within the named assumptions
(`LBAAssumption`, `DiscAssumption`, `HintsAssumption`, `ReadAheadAssumption`,
`StreamAssumption`, `BufferAssumption`, `ScreenAssumption`, `RingAssumption`,
`LinesAssumption`, `QueueAssumption`, `RewindAssumption`, `MovieAssumption`,
`SelectorsAssumption`, `BuffersAssumption`, `DriveAssumption`,
`NetplayAssumption`); TLC evaluates them in the runs. In each module an inductive
invariant (`IInv`, or the name given below) is shown to hold at the start and to
be kept by every step, with a lemma for each action that disturbs it, and the
properties are derived from it. A refinement maps the initial states to initial
states and every step to a step of the abstract specification or to none, under
the same invariant, often strengthened.

Recursive functions over data (what a queue of commands leads to, what a movie
replays to, what a loop over a list leaves) are reasoned about by the least
number at which the claim could fail: every non-empty set of naturals has a least
member, and the function's definition at that number contradicts the choice.

- **`CDInterface_MT_proofs`**: `TypeCorrect`, `WindowNeverEvicted`,
  `ReadAheadStaysBounded`, `NeverStuck`, `RequestNeverForgotten`, and
  `Implementation`: the threaded reader implements the single-threaded one.
  `WindowInRing` alone is not inductive: it says that a sector of the window is
  *somewhere* in the ring. `RingInv` says where: the k-th sector before `ra_lba`
  is in the slot written k sectors ago. That survives a store because `Bound`
  (the window never spans more than `max_ra + 1` sectors) keeps the slot about to
  be overwritten out of it. `ProgressInv` says that the read thread never rests
  behind the last request; with it `RequestPending` gives that a waiting
  emulation thread has its message in the queue, or its sector on the way.
  `PhaseInv` says which places of the two threads go together. For the refinement
  `DataInv` adds that every valid buffer holds what the disc gives for its LBA.
- **`MTStreamReader_proofs`**: `TypeCorrect`, `TurnsAreTaken` (`OneTurn`: one
  token in the two semaphores and two threads), `NothingRefilledInSight`, and
  `ReadsTheStream`: the caller sees the looped stream (`LoopedStream`), for all
  streams, loops and sizes of the ring.
  `ChunkInv` ties the first three together: where the read thread will stop
  writing, counting what it has still to write, is the start of the chunk the
  caller is in (or has just left, while the command to refill that is on its way).
  With chunks of a quarter of the ring and a look-ahead of at most a chunk the
  bytes in sight are then never among those outstanding. `CopyInv` has the file
  standing where the stream does unless its loop is in the buffer in one piece.
  For the refinement `DataInv` adds the bytes. From the caller's position on,
  `RingInv` has the bytes promised in the ring (`Holds`) as far as the thread has
  got, and the stream's position where they end (`Reached`); `TailInv` has the
  bytes behind the ring equal to those at its beginning unless these are being
  written, which is never while the caller can look that far; `BaseInv` has the
  loop that is repeated from the buffer untouched, because what is still to be
  written ends before it. `LoopedOnward` is the arithmetic of loops: to go on
  from where one has come to is to go on from the start.
- **`StateRewind_proofs`**: `TypeCorrect`, `NothingMissing` and `Implementation`:
  the ring implements `RewindHistory`. The invariant says that the ring *stands
  for* a list of states (`StandsFor`): the slot k back holds the difference of the
  k-th and the (k - 1)-st of them, the slots further back are empty. Recording
  shifts the list (`RecordMore`), rewinding takes its head off (`RewindMore`), and
  `RecordedComesBack` says that the difference gives back the older state
  whichever of the two is longer. What the recursive `Undone` decodes is shown by
  the least position where it would be wrong (`LeastNatural`).
- **`MovieSession_proofs`**: `TypeCorrect`, `StreamIsTheMovie` and
  `MovieFollowed` (`MovieReplays`). A movie's file begins with a state and the
  stream stands behind it (`FileOK`), whatever position a snapshot brings back
  (`HistOK`), and the mode agrees with the stream also while an error is being
  handled. A recording stands at the end of its file unless a rewind has failed to
  cut it (`"file"` in `disturbed`); the theorem claims nothing of such a movie but
  that it has a stream. `Follows` adds, for a movie nothing has `disturbed`, that the machine
  is what the file replayed up to the stream's position gives, or will be when
  the input just polled has been emulated (`MachineTracked`), and that the
  snapshots of this movie are places in its file, in order (`HistTracked`): so
  rewinding, which cuts the file at a snapshot's position, leaves a file that
  leads to the snapshot's machine, and none of the older snapshots beyond its end.
- **`VDP2Render_proofs`**: `TypeCorrect`, `SurfaceIsReturned` and `DrawsInOrder`:
  the two threads implement the renderer without a thread (`VDP2Sync`).
  `CountOK` says that `DrawCounter` is the number of lines in the ring, the one
  being drawn and the one about to be queued; so a counter of zero means that
  nobody draws. For the refinement the renderer's state is taken after everything
  in the ring has been executed (`Eventual`, the end of the function `After`):
  queueing a command is the abstract step, and the render thread's steps change
  nothing. What `MeantOK` says of the registers lets a state be saved, and
  `Later` is what a line input written late does to the lines in the ring.
- **`Video_proofs`**, `VideoHandoff`: `HandoffTypeCorrect`, `FramesWhole`
  (`NoTornFrame`) and `RequestsHonoured` (`SyncHonoured`), from `VideoInv`: unless
  a frame was repainted, the buffer drawn into next waits to be shown only while
  the call that passed it on has not returned, and that call ends in the exchange
  of the buffers (`BufferInv`); from the beginning of `Video_Sync()` to the end of
  the main thread's pass `VTMutex` keeps requests out (`SyncInv`).
- **`Video_proofs`**, `PPU_MT`: `PPUTypeCorrect`, `RendererRestsBetween`,
  `RegistersFollow`, and `DrawsAsSingleThreaded`: the two threads implement
  `PPU_ST`. `PPUInv` orders the positions in the ring, published, taken and free,
  and says of every command that it is legal after those before it; `Meant` is the
  renderer's state after the ring and the command being put into it, and no step
  of `WWQ()` or of the renderer changes it. `DrawnInv` adds how far the picture is
  on each scanline.
- **`CDB_proofs`**, the filters: `FiltersOneSource`, for any number of filters up
  to the code's 24: commands keep every filter at one input at most, so following
  the false outputs from the drive never goes round in a loop, and the bound in
  `FilterBuf()` is never hit. `CommandsOneSource` is the same within `CDBSpec`.
- **`CDB_proofs`**, the buffers: `PoolTypeCorrect`, `BuffersAccounted`
  (`BuffersConserved`) and `PartitionsAreQueues` (the lists implement
  `SectorPool`), for any number of buffers and filters the code may have. `PoolInv`
  says that there is a list of buffers for every partition and for what is free
  such that `Next` and `Prev` are its neighbours (`Chained`), the ends and counts
  are its own (`Counted`), no buffer is in it twice or in another (`Apart`), and
  the buffers in none are the host's transfer, with their links reset (`AllLoose`).
  Unlinking and linking a buffer change exactly one such list (`Shape`); a loop
  of them changes it as the queue's operation says; and the abstract queue, which
  follows the links, is that list (`QueueIs`).
- **`CDB_proofs`**, the drive: `TypeCorrect` and `EverySectorDelivered`. `Positioned`
  is the invariant: the pickup is at the sector to be delivered next, or nowhere; a
  sector read ahead is that sector; a drive that plays or pauses, or ends its
  seek, reads it. Only a delivery advances that sector, and only the start of a
  seek to another position changes it otherwise, when nothing is read ahead.
- **`Netplay_proofs`**: `TypeCorrect`, `PlayersInStep`, `CheatsSurvive`,
  `RecordingInStep`. `LockInv` adds to `LockStep` that nothing is received outside
  network play, that no movie plays in it, and that after the exchange the port
  data are those the other players have; `CheatInv` that outside network play the
  file has what the user left unless there is something to save; `FilmInv` that
  the movie is ahead of the machine from the poll of the input until the core has
  run; `HistInv` that the film of every snapshot, unless it lacked something, led
  to where the snapshot's machine goes with its input: so a rewind cuts the film in
  the right place. `RecordingInStep` says nothing of a film while something is
  missing in it (`missed`): a command of the server, a medium or a failed load
  until the next recorded state, and again after going back to a state from that
  time; a failed rewind, or one to a state from before the movie, until its end.

**Only model-checked**: liveness, which needs fairness and `ENABLED` and so is
outside the prover's reach: `CallsReturn` of the disc reader, the streaming
reader, the VDP2 and the PPU renderer, `ReadAheadRests`, `ExitTerminates`,
`RequestsAnswered`, `PlayEnds` and `AuthEnds`. `RecordedInNetplay` does not hold
(section 6). Every other property of the runs is a theorem.

## 6. Findings and limits

The finding is a run that TLC finds violated.

- `netplay_movie`: `netplay.cpp:327` says "Recording's ok during netplay", but a
  command that comes from the server (a reset, a coin) is executed without being
  recorded (`netplay.cpp:629`); a medium is recorded when it is sent, not when it
  is changed. Replayed, the movie lacks them.

Behaviour that differs from a comment or the documentation, seen while modelling,
without a run of its own:

- SNES PPU: on line 0 the emulation tells the renderer to look up the sprites of
  line 1 only `if(!SkipFrame)` (`ppu_common.inc:1116`), but `SkipFrame` is that of
  the frame before until line 1 (line 1078). The single-threaded renderer, which
  `snes.cpp:1315-1316` sets beside it as differing in the thread, always does
  (line 1114). The frame that speculative execution runs ahead is always skipped,
  so with `snes_faust.spex` and the threaded renderer the first line of every
  picture has the sprites that were looked up a frame before, on line 0 of the
  frame run ahead. `PPU_ST` allows that.
- `netplay.cpp:1226` says "Reload our original cheats", but a login that fails has
  set `MDFNnetplay` before the cheats were saved (`netplay.cpp:244` and `325`), so
  the cheats entered since the last save are lost. `CheatsKept` leaves it out by
  name (`lost`).
- `movie.cpp:97` and `173` refuse to interrupt a recording or a playback with
  "Can't interrupt ...", but they throw into a handler, `HandleMovieError` (lines
  50-71), that ends it.
- `ChangeLog:2944-2945` has rewinding across a change of movies noticed. A
  recording stopped and another one started without a frame in between, as is
  possible while paused, is not: `state.cpp:378` only asks whether the section is
  there, and the new file is cut at a position of the old one.
- `ChangeLog:2919-2920` speaks of a temporary state saved before loading one.
  `state.cpp:854-922` has none: a state that fails to load half way leaves the
  machine changed.
- While a frame is repainted (paused, or advanced by frames), `do_flip` is
  assigned anew on every pass of `GameLoop`'s inner loop (`main.cpp:1440`). A
  refused `PassBlit()` clears the result of an accepted one, and the next frame is
  emulated into the buffer being blitted, which the comment at `main.cpp:2029`
  means to exclude (the wait at line 2653 is compiled out). `NoTornFrame` leaves
  out repaints by name.
- A repaint while the game is held shows the buffer that was passed on last, not
  the last one drawn, if `PassBlit()` refused that one (`main.cpp:1437`).

- A rewind that fails between seeking in the file of a recording and cutting it
  (`movie.cpp:311` and `314`) is caught by `MDFNSRW_Frame` (`state_rewind.cpp:212`),
  which only ends rewinding; the movie, whose other errors all end it
  (`HandleMovieError`), goes on. It writes over its own older entries, which need
  not have the length of the new ones; what is left of them stays behind the
  movie's last state if the movie is stopped before it gets that far.
  `StreamMatchesMode` and `MovieReplays` leave this out by name (`disturbed`).

Other behaviour a reader of the code should know:

- CD reader: a sector whose reading failed once stays in the ring with its error
  (`CDInterface_MT.cpp:220-235`), and a request for it is answered with the old
  failure as long as it is there; of several copies the one with the highest index
  answers, not the newest. The single-threaded reader would try again, and may
  fail again, so the refinement allows it.

- SNES PPU: an idle renderer posts `WakeupSem` every millisecond
  (`ppu_mtrender.cpp:495`) and nobody takes it; later waits return at once, until
  the posts are used up, and spin. It costs time only.
- Rewinding across the start of a movie errs out as intended, but the port data,
  loaded before the movie's section is missed, stay: that frame runs with another
  input than the movie has. `MovieReplays` excludes it by `disturbed`.
- `MDFNI_CloseGame` closes the module before the movie (`mednafen.cpp:473`), so a
  movie that is being recorded gets its final state from a closed module.
- A clock change restarts the Saturn's `VCounter` within a frame
  (`smpc.cpp:1192`), so a line's input can be overwritten before the render
  thread draws it. `VDP2Sync` allows exactly that (`late` in its `LineInput`).
- Read patches of cheats are not removed when the list is flushed
  (`mempatcher.cpp:556`), and `snes_faust/snes.cpp:795` keeps copies of them.
- A failing read of the cheat file leaves a part of the list; saving it then loses
  the rest.
- CD block: a pause by command marks the sector read ahead (`SecPreBuf_In = -1`,
  `cdb.cpp:2850`). A PLAY from the current position that comes before the next
  periodic check finds the mark: the sector is neither delivered nor dropped and
  the drive plays for ever. `PlayEnds` leaves it out by name (`HeldBack`).
- CD block: a PLAY from the current position after a stop (position 0xFFFFFF)
  seeks for ever. An authentication that began with the tray open, without a disc
  or with all buffers full refuses every command until a reset, and it may judge
  a sector that was in the partition before it. A sector read ahead at or after
  the end of the play may be delivered when a PLAY from the current position
  comes. A sector that is being transferred by GET can be deleted, and its buffer
  filled again, during the transfer. MOVE, READ_FILE and the file system free
  buffers without resuming the drive at once; the periodic check does it later.
- Event FIFO (`AtomicFIFO.h:26-66`, `main.cpp:1522-1560` and `1642-1746`): focus
  events are written without asking `CanWrite()`. If the FIFO of 2048 events is
  full, `in_count` exceeds its size, `CanWrite()` underflows, and from then on
  ordinary events are accepted as well; the reader meets the newest events in
  place of those overwritten, and recovers. An event is lost only if 2048 later
  ones arrive before the game thread handles any.

Abstractions within the modelled parts:

- Memory ordering is sequential consistency; the code uses acquire and release
  where it relies on order.
- `CDInterface`: `UnrecoverableError` is never set by any reader and left out.
- The debugger: while it holds the machine between two instructions (the loop at
  `debugger.cpp:1339`) it calls `MDFND_Update()` (`main.cpp:1264`), which can save
  or load a state, or start a movie, within a frame. `VDP2Render`, `MovieSession`
  and `Netplay` have all of that between frames only, where the emulation loop has
  it.
- `VDP2Render`: how a line is drawn, and a second game in one process (the front
  end loads one).
- `PPU_MT`: registers and memories are one value, a line is what it was drawn
  from. Interlacing, the lines above the picture, the line filters, and what a
  renderer keeps from one line to the next for mosaics are left out. An entry of
  the ring is forgotten once it is executed.
- `CDBDrive`: an authentication's start, COMMAND_READ_DIR's and ABORT_FILE's first
  turn of `FLS_Run()` are one step with the command. The EJECTED phase's second
  half only raises an interrupt. `CurSector` and `PauseCounter` are reset when a
  seek starts, where their values are dead. Whether the root directory is known is
  left open. Scanning, CD audio, positions by track and index, and switching the
  block off and on are left out.
- `CDBBuffers`: conditions of filters by value, MPEG, and the content of results.
- `Netplay`: the players' masks and with them the sizes of messages, texts, the
  list of players, integrity checks, and waiting. A movie is what machine it
  leads to, a rewound frame any machine; `MovieSession` has both in full.
- `Cheats`: formats, conditions, the cheats' effect on the machine, searching.

## 7. Not modelled

Emulation cores, sound and image processing, conversions, settings and disc image
parsing: arithmetic and parsing, which a state machine of this size says nothing
about. They are by far the largest part of the repository (CPU interpreters and
recompilers, fonts, codecs, vendored libraries); their correctness is that of
tables and arithmetic against hardware, not of order.

- Event FIFO: a ring with one writer and one reader; its full case is above.
- SNES MSU1: registers over `MTStreamReader`, whose caller here may do all that
  MSU1 does.
- SCSI CD drive and PlayStation hardware: single-threaded state machines driven
  byte by byte, or by event times, from the emulated program.
- Threads and semaphores: wrappers; the models state what they rely on (mutual
  exclusion, spurious wakeups, counting).
