# A verification of embassy-boot-ch32

TLA+ modules, TLC configurations and TLAPS proofs about the bootloader, the
update protocols and the boot path of `embassy-boot-ch32`. Paths below are
relative to the repository; module names are files of this directory.

    tlc -workers 2 -config MCCanNode.cfg MCCanNode      # check a run
    tlapm CanNodeProofs.tla                             # check proofs; so for every *Proofs.tla

`PROJECT.json` lists the runs, the source lines each definition stands for, the
hazards and the properties that cover them, and one plausible bug per property
that TLC finds the property to catch.

## 1. Inventory

The repository is a port of embassy-boot to the CH32 family: a library crate
(`src/`), an example bootloader and an example application (`examples/`), host
tools (`tools/`) and linker maps (`partition-map/`).

### Components

| Component | Source | State it keeps | Operations | What makes it correct |
|---|---|---|---|---|
| CAN update session | `examples/bootloader/src/can_update.rs` | `Session` (phase, announced length and CRC, `next_offset`, page in RAM, `page_base`, running CRC, watchdog), the firmware updater with the sector it erased last | `session()` loop, `handle()` with nine requests, `handle_data()`, `push()`, `flush()`, `finish()`, `verify()` | counters agree; acknowledged pages stay; only a verified image is marked; silence ends a transfer |
| CAN host tool | `tools/can_update.py` | what the survey saw, the UID, `offset`, `attempts`, position in the page, what it waits for | `discover()`, `enter_bootloader()`, `main()`, `transfer()`, `resync()` | finds the board it was asked for; ends; says "verified" only when it is; recovers from a single fault |
| The bus | between the two | request FIFO of three frames, response mailboxes | carry, lose, repeat | a host slow enough for the poll loop loses nothing |
| Firmware updater | `src/lib.rs` partitions, used through embassy-boot | DFU partition, state partition, last erased sector | `write_firmware()`, `mark_updated()`, `mark_booted()`, `mark_dfu()` | no write while an image waits to be swapped |
| Swap and revert | `src/lib.rs` `prepare()`, `CoarseFlash` | active, DFU and state partitions | one flash operation at a time, resumable | whole image or error; never loses the confirmed image |
| Main loop | `examples/bootloader/src/main.rs` | program counter; where a session returns to | `try_prepare()`, grace window, console, `load()` | boots only whole images, gets out of every state |
| Application boot path | `examples/application/src/main.rs` | - | `mark_booted()` at start-up, `request_dfu()` | confirms exactly the image on trial |
| CAN codec, filters | `src/can.rs` | - | `node_filters`, `parse_id`, `parse_control`, `Response`, `Info`, CRC32 | nothing the node must hear is filtered; one board acts; every command fits a frame |
| CAN listener | `examples/application/src/can_runtime.rs` | the answer it is sending, UID spread | `poll()`, `handle()`, `transmit()` | only its own ENTER_UPDATE resets the board |
| Serial protocol | `update_session()` in `main.rs`, `tools/serial_update.py` | line and chunk position on both sides | header, chunk, acknowledgment | a marked image is whole, and no side waits in vain |
| Partition maps | `partition-map/*.x`, `tools/check_partitions.py` | - | `check()` | what it accepts satisfies every assert on a board |
| USB DFU | `usb_dfu.rs`, `usb_runtime.rs` | in embassy-usb-dfu | `session()`, `enter_dfu()` | as the main loop and the boot path |
| Chips and build scripts | `chips.rs`, `examples/*/build.rs` | - | `selected()`, `selected_transport()`, `main()` | matching binaries fit each other and their part |
| Size checks, CI | `tools/*.sh`, `.github` | - | - | - |

### How they interact

* The host tool and a node exchange classic CAN frames. Requests queue in the
  node's three-deep receive FIFO; a response is heard by every host on the bus.
  Data frames carry no offset: the position is implicit, and the ACK of every
  full page carries `next_offset`.
* The node writes through `BlockingFirmwareUpdater`, which erases a sector when
  a write enters one it did not erase last, and refuses every write while the
  state partition says `Swap`.
* The application's listener shares a loop with its console. It answers the survey
  after a delay taken from its UID, and ENTER_UPDATE before it marks and resets.
* `finish()` reads the image back, marks it, and the board resets. The main loop
  then swaps page by page, noting each step in a progress word of the state
  partition. A reset of a swapped, unconfirmed board reverts.
* The application confirms itself with `mark_booted()`, or asks for an update
  with `mark_dfu()` and a reset.

### Hard behaviours

Sessions that are aborted and begun again over one long-lived updater; lost,
repeated or late frames against an implicit offset; nested retries in the host;
two hosts on one bus; answers of several boards interleaved, and a board that resets
while it is asked; a poll loop that falls behind its three-deep FIFO; flash errors in the middle of a session; power cuts
between any two flash operations of a swap, of its recovery, or of a state
change; a session that returns to a console which can boot without preparing.
`PROJECT.json` lists each with its line.

## 2. The modules

| Module | Models | Built on |
|---|---|---|
| `FirmwareUpdater` | DFU partition, erase and program of flash, the magic | - |
| `CanNode` | the CAN session: one action per request, the poll, resets | `FirmwareUpdater` |
| `UpdateService` | abstract: what an update over the bus promises | - |
| `CanUpdate` | host tools, bus and node together; implements `UpdateService` | `CanNode`, `UpdateService` |
| `CanStream` | the pace of a transfer: poll loop, FIFO and host in frame times | - |
| `CanEntry` | survey, ENTER_UPDATE and reset: tool and listeners of several boards | - |
| `SwapBoot` | swap, revert and state partition, one flash operation a step | - |
| `TrialBoot` | abstract: mark, swap once, run on trial, confirm or revert | - |
| `Device` | main loop, sessions, application, power cuts; implements `TrialBoot` | `SwapBoot`, `TrialBoot` |
| `CanFrames` | identifiers, acceptance filters, decoding, dispatch | - |
| `SerialUpdate` | the serial tool, the line and `update_session()` | - |
| `PartitionMap` | the maps, `check_partitions.py`, what a board asserts of its map | - |
| `Builds` | chip table and build scripts, both binaries put on a board | `PartitionMap` |
| `MC*` | values for TLC | the module in its name |
| `*Proofs` | theorems about `CanNode`, `CanUpdate`, `CanStream`, `CanEntry`, `Device`, `SerialUpdate`, `CanFrames` and `Builds` (section 4) | the module in its name, TLAPS |

### CanNode

`session` is the `Session` of `can_update.rs`; the running CRC is left out
because `verify()` reads flash back and nothing decides on the running one. A session
is entered in any state of the board: `Boot`, `DfuDetach`, and `Swap` too, by a key in the
grace window while an image is on trial (`main.rs:371-376`) or by an error of `try_prepare()`
(`:298-313`); `AfterReset` says where a board comes back to. A session in `Swap` answers
everything and refuses every write.
`mode` says whether the loop runs, has returned to reset, or the board is
swapping. `tx` is the answer of the last step. `marked` is a history variable:
the length and CRC last marked. Every request is one operator (`SessionOpen`,
`Begin`, `Query`, `Abort`, `Data`, `Finish`, ...) with the early returns of its
arm in `handle()` as guards, and `Receive(f)` dispatches as `handle()` does.
A poll that finds the FIFO empty is `Poll`; the watchdog counts such polls in
`quiet` up to `Timeout`. Every flash write has its outcomes: done, refused while
`Swap`, erased and not programmed, or a sector erased in part; `finish()` can
also fail to read. `Program` is the AND of real flash reduced to what matters:
an erased cell takes the byte, any other the same byte or `Junk`. The CRC32 is a
constant function `Crc`, arbitrary in the proofs and with collisions in the
runs, so nothing rests on it being injective.

### CanUpdate

Each host is a program counter through `main()`, `transfer()` and `resync()`
with its `offset`, `attempts` and `queries`. A frame is a step. What goes wrong
is recorded in `faults`, at most `MaxFaults` of them: a lost or repeated
request, a lost response, a failed write or mark, a failed read-back, a long
silence, a reset. A host's timeout fires only when nothing is under way: its 1
to 15 s are far above the milliseconds an answer takes, and a request that takes
longer is one of the faults. An answer that comes late is one to a request received twice. Nonce and info are data
frames on the bus, and `data_payload()` takes any; `HostReceive` tells them apart by `cmd`, since the queue of
one node keeps their order and the tool asks for one when nothing of the other is due. The model starts where `CanEntry` ends, with the board in its
bootloader and in any state. On one that came in `Swap` no update can succeed before it has been
reset: `OpenedOnTrial` is the proviso of `FailsOnlyWithCause` and `OneLostFrameRecovered`. The losses the latter speaks of are
those of data frames, of answers to BEGIN and to a full page, and of the FINISH request; a lost answer to SESSION_OPEN or
FINISH may end the tool (section 3).

### CanStream

Time is counted in frame times. `busy` is how long the node is away from its FIFO: a
pause after an empty poll, a console line, a page to program, or the spread before a
survey is answered. `gap` is the pace of the host's interface; inside a page its frames
follow each other at that pace, everything else waits for an answer. A frame that finds
`FifoDepth` frames in the FIFO is lost. Frames carry nothing, the session counts them;
a lost frame shows as an answer that never comes, and the host goes through `NodeError`
and `Resync` as in `main()`. What costs less than a frame time costs nothing: reading a
page back for the CRC happens while the host waits. `Watchdog` is the 5 s after which a session that receives is
dropped (`can_update.rs:328-335`). All waits of the tool but one are 2 s at most and start over at a QUERY; the 15 s
for FINISH (`can_update.py:304`) outlast it, when the end of the tail and FINISH are lost together. The history
variable `silenced` says that it came to that. `Survey` is another tool's broadcast.

### CanEntry

`mode` is what each board runs, `out` the rest of the answer it is sending, one frame per
`transmit()`, so that anything may come between two frames. `setup` fixes the node IDs,
the UID spreads, the boards whose `mark_dfu()` fails and the options of the tool. The tool
is a program counter through `discover()`, `get_info()` and `enter_bootloader()`;
`payload` holds the data frames of the record it is collecting, each with the part of the
UID it carries, since frames carry no UID of their own (a UID here stands for
the 7-byte prefix the code compares, `can_runtime.rs:225-227`, `can_update.py:254`, which `can.rs:58-61` takes
as unique); `GraceOver` is the 0.2 s after which `discover()`
drops a record that does not get whole. Only the survey listens to more
than one node: `BoardSends` is what the tool's node filter lets through. `to` on a frame says which
request it answers and is read by properties only, as is `faults`. `Turn` orders the
answers to a broadcast by their spread, `Jitter` milliseconds apart at least. Timeouts of the tool are
longer than any answer takes; a reset may take longer than a timeout.

### PartitionMap and Builds

A map gives a region to each of the four names and to RAM. `check` is the script,
`Operates` what `CoarseFlash::erase()`, embassy-boot's `assert_partitions()` and the
jump of `load()` demand, offset by offset. In `Builds` a developer builds a bootloader and
an application for any chip and any set of features, or drafts a map for a new part; a
build that panics is a disabled action. `Update` puts both on a board and says what
becomes of it. `CHIPS` is a function of the part with one row a part, as in `chips.rs`.

### SwapBoot and Device

`active` and `dfu` hold pages. A written one is a pair, the set of the images programmed over each other
since its erase, as a rule one image, and the page number; an erased or half written one is `Torn`.
`slots` is the state partition: the magic, the validity word and one progress word per copy. Erasing a page and
writing one are two steps (three in a download, the first bytes being one of their own), and each erased word of
`set_magic()` is one, so a reset can fall between any two. `Device` adds the loop of `main()`: prepare, prepared, grace, console,
session, application; its first state chooses the serial, the USB or the CAN build: a
serial session returns to its caller, the others never do (`Diverges`), and the USB
runtime resets whether the mark was written or not (`EnterDfu`). An
update session is seen from flash only: pages of one image arrive in order. `incoming` holds the image
and its next page, and the memory of the updater: the page it erased last, and what has been programmed there since. The
updater of a serial session goes with it; over USB and CAN it outlives a download that is given up (`Remembering`,
`Over`), and a download that begins in the page it erased last programs over it without an erase (`Fresh`). Over CAN,
`ImageComplete` reads the image back; over USB nothing does, so such a first page is marked, swapped and booted (`Mixed`).
embassy-boot's own algorithm is not part of the repository; these definitions
follow how `src/lib.rs` drives it and are marked external.

### CanFrames

Every 11-bit identifier against the filter banks `node_filters()` programs, with
the dispatch of the bootloader and of the application's listener. It keeps the
last frame and what both boards did with it.

### SerialUpdate

`line`, `len`, `chunk` and `stored` are the buffers of `update_session()`,
`session` its place in it; `tool` and `offset` are those of `serial_update.py`.
The USART receives into one register (`rdr`) that is read only when the loop polls:
while the bootloader prints, waits the millisecond of `read_line()` and
`read_exact()`, or programs flash, an arriving byte may be lost and take the waiting
one along (`Overrun`), and the history variable `lost` says of what kind. On the way
back nothing is lost; `expect()` reads whatever has arrived, in pieces of any size, and
`port.read(1)` any one byte. A byte of the image is its position. The header is the
letter, a blank, the digits and the end of the line; the board compares bytes, so a digit `f` in front reads as the
letter (`ReadsAsF`, with `LetterF` the value of that digit). Of what the bootloader
prints only the two words the tool looks for are kept, the dot of a chunk, and
`LineRest` bytes that stand for the rest of a line. Left out: the padding of the last
chunk to a word, backspaces in the header line, and letters other than `f`, which end
the session as a bad length does. Of the timeouts only the order is kept: the tool's
are longer than a chunk takes to program, a sector erase included (an assumption: an
acknowledgment is waited for 0.2 s), and the board's 10 s and 60 s fire
when the tool has stopped sending, possibly while it still waits its last 15 s.

### What the node model assumes of CanFrames

`CanNode` and `CanUpdate` take BEGIN and FINISH as frames the node has decoded.
The run `frames_fit` shows that no classic CAN frame carries them (nine bytes in
the encoding of tool and node, eight in a frame), so everything they say is about
the session logic with that encoding repaired, as the unit tests exercise it.

## 3. The runs

Passing:

| Run | Question | Bounds |
|---|---|---|
| `node` | Any frame, in any order, against one session in any state of the board, with flash errors and resets: do the counters agree (`CountersAgree`), is a page-aligned offset a stored one (`ResumePointStored`), do acknowledged pages stay (`AckedPagesKept`), is what is marked still what was verified (`MarkedIsVerified`), does silence end a transfer (`SilenceEndsTransfer`)? | 2 sectors of 2 pages of 2 bytes; lengths 0, 3, 5, 8 and 9 (empty, tail, tail in the second sector, full, too large); 3 payloads |
| `update` | One host, two faults: only its image is programmed (`ProgrammedIsImage`), on a board that did not come in `Swap` it fails only with cause (`FailsOnlyWithCause`) and recovers from one lost data frame, ACK of BEGIN or a page, or FINISH request (`OneLostFrameRecovered`); it always ends (`HostEnds`), and the whole implements `UpdateService` | the board in all three states; an image of two pages and a tail in the next sector; 3 attempts as in the tool |
| `update_two_hosts` | Two hosts at once, clean bus: what is installed is one of the two images, whole | images of 4 and 2 bytes; 2 attempts, 1 query |
| `stream` | Poll loop against FIFO: a host slow enough for the pauses loses no frame (`PacedLosesNothing`), whatever a survey disturbs is recovered unless the watchdog drops the session under the wait for FINISH (`DisturbedRecovers`), back-to-back frames never get through (`HopelessFails`), and the retries end (`StreamEnds`) | the times at 1 Mbit/s: pause 8, console line 15, page 12, spread 25 frame times; a page of 32 frames and a tail of 3; gaps 1, 3 and 6; every phase of the poll; 2 surveys |
| `entry` | Two boards and the tool up to the session: only the board named by its UID leaves its application (`OnlyNamedBoardLeaves`), the session finds the right board ready (`ReadyBoard`), failures have a cause, two boards of one node ID are refused (`SharedIdRefused`), the tool ends (`EntryEnds`) | 2 boards in 3 modes, alone or sharing the node ID, spreads equal or apart; every `--uid`, survey on and off; 2 faults for a board alone, 3 for an application without a survey, 1 for two that share |
| `device` | Updates, trials, confirmations, detach requests, cuts and flash errors: only whole images boot, but for the first page of a USB download after one that was given up (`BootsWholeImage`); no page of the confirmed image (`ConfirmedNeverLost`) nor of one waiting to be swapped (`CandidateNeverLost`) is ever lost, as it was stored; a detached board waits for its update (`DetachedWaits`), the board implements `TrialBoot`, and `try_prepare()` ends | 2 pages, 2 images, 2 power cuts, 1 flash error; all three builds |
| `serial` | One serial update over a line that loses bytes: an image that gets marked is whole (`MarkedIsWhole`), and the tool's success is true (`DoneMeansStored`), unless the header lost what tells its length apart (`LengthUnmistaken`); the tool fails only with cause, and both ends get out (`BothEnd`) | 7 bytes in chunks of 2, so that the last chunk is short; a length of three binary digits, the first of which reads as the letter `f` (`LetterF`); a progress line every 4 bytes; lines of 3 bytes |
| `frames` | Every identifier: filters lose nothing the board acts on, and only one board acts on a command to one | node IDs 1 and 127 |
| `builds` | Every pair of builds: matching ones fit the part and each other (`BuildsServeTheirPart`); every drafted map: what `check_partitions.py` accepts runs into no assert (`AcceptedOperates`) | all 20 chips, 3 transports, every set of features; 1920 drafts around the real sizes, with gaps, overlaps and half pages |

Expected violations, each one sentence of the repository the code contradicts:

| Run | Property | What happens |
|---|---|---|
| `frames_fit` | `CommandsFit` | BEGIN and FINISH need nine bytes. |
| `device_fresh` | `ConfirmsFreshImage` | After a serial update from the console, `b` boots without swapping; the old application confirms itself and the update is dropped. |
| `entry_pinned` | `PinnedBoardFlashed` | `--uid` is compared once; the session opens on every board of that node ID that is in its bootloader, asked for or not. |

Seen while modelling, without a run of its own.

In the CAN session:

* The updater is created once and remembers the sector it erased last, so after ABORT and
  BEGIN the first sector is programmed over without an erase, and its pages are
  acknowledged (`can_update.rs:303`; `docs/can-update-protocol.md:149` and `:180` say
  otherwise). The read-back at FINISH refuses the image (`MarkedIsVerified`).
* The watchdog looks at `Receiving` only (`can_update.rs:328`): a host that vanishes after
  its last byte leaves the node busy until somebody sends ABORT (`:196` and `:203` of the
  document). `SilenceEndsTransfer` therefore speaks of unfinished transfers.
* A session entered in state `Swap`, by a key in the grace window of an image on trial or an error of
  `try_prepare()` (`bootloader/src/main.rs:371-376`, `:298-313`), says that it is idle, accepts BEGIN (`can_update.rs:480`)
  and refuses the first page with FLASH. The tool gives up on a clean bus with a sound flash (`OpenedOnTrial`).
* A session dropped for silence is to be opened again (`README.md:546`, `docs/can-update-protocol.md:219`). When the end of
  the tail and FINISH are lost together, the watchdog (`can_update.rs:328`) fires in the 15 s the tool waits, QUERY says 0, and
  the tool sends its data where no session is open and gives up with attempts left: the second proviso of `DisturbedRecovers`.
  TLC shows it when that proviso is left out: two surveys around the tail are enough.
* When the answer to SESSION_OPEN is lost, QUERY says 0 and the tool resumes data in a
  session that never began, and gives up (`tools/can_update.py:442`; `can_update.rs:134`
  leaves lost responses to the host's retries).
* QUERY reports offsets inside a page (`docs/can-update-protocol.md:157` says it never
  does; the tool copes, at `tools/can_update.py:429`); a tool told "no session" gives up
  where `:213` of the document says to open one.
* Of two hosts on one bus, one may take the answer to the other's FINISH for its own, since
  no request but SESSION_OPEN carries the nonce (`:202`: only its holder may drive the
  session).
* `can_update.rs:52-54` says the FIFO cannot overflow between two ticks. The flow is
  stop-and-wait by page and not by frame, so up to eight frames arrive in a tick: back to
  back they overflow it (`HopelessFails`), at a sixth of that pace they do not
  (`PacedLosesNothing`; a quarter is enough for the tick, the console line wants more).

In the rest:

* Over USB the updater lives as long as the session (`usb_dfu.rs:120-129`). A download that is given up in its first sector
  and followed by another image programs this sector over without an erase, and nothing reads it back: the mixture is marked,
  swapped and booted (`Mixed` in `BootsWholeImage`). Over CAN the read-back refuses it.
* The serial tool takes any byte for the acknowledgment of a chunk, the rest of the line
  "receiving" and the progress lines included, and runs ahead of the flash
  (`tools/serial_update.py:73-76`; `bootloader/src/main.rs:54`).
* The millisecond `read_line()` and `read_exact()` wait is eleven bytes long at 115200 baud,
  so bytes can be lost even with a host that waits for every acknowledgment; and a digit lost
  from the length marks a shorter image, for the serial path has no checksum. So does the loss of the letter, or of
  letter and blank, when the length begins with the digit `f`: of `f f800` the board may read `f800`, which is the letter and `800`
  (`bootloader/src/main.rs:488-494`). Hence `LengthUnmistaken`, the proviso in `MarkedIsWhole`.
* Nothing but a complete update leaves the detach state (`bootloader/src/main.rs:320`; `:16`
  of the protocol document says the node must always boot a valid image afterwards). The
  help of the console offers Enter, and the code takes only `b` (`:412`).
* `usb_runtime.rs:96-97` says that without the mark the bootloader boots the same partition
  again. With a fresh image whose confirmation failed, the mark is refused and the reset
  reverts it.
* Half an answer to GET_INFO, cut by a transmit that timed out, is completed by the data
  frames of the next one: the tool then has a UID no board has (the `<<"answer", "stranger">>`
  cause in `EntryFailsOnlyWithCause`).
* `chips.rs:1-3` says that the two binaries can never disagree about the map. They do when
  they are built with different features for one part (a serial bootloader and a
  `can-runtime` application), and an image longer than ACTIVE and no longer than DFU is
  accepted and cut short by the swap (`"astray"` and `"truncates"` in `Builds`).
* `check_partitions.py:145` exempts the state partition from whole pages, while
  `bootloader/src/main.rs:97-98` says the erase size must divide it evenly: such a map is
  accepted, and the first erase of the state panics, hence the proviso in `AcceptedOperates`.
  No map of the repository is one.

### Why the bounds are enough

Two pages to a sector are the least with which a page can start a sector or not,
and two sectors the least with a boundary between them; two bytes to a page
distinguish a partly filled page from a full one, and data frames of one and two
bytes reach the end of a page in one frame or two. Two pages give the swap a
first, a last and the spare page, and two cuts reach a cut during the recovery
from a cut. Two faults let a retry fail as well. The times of `stream` are those of the
board, and its three paces lie on both sides of what the pauses allow; one page shows
every phase of the poll against the burst, the tail the only burst that is followed by a command.
Two boards are the least that can share a node ID. The chip table is complete, the drafts are a grid
around the sizes where a check changes its verdict. What the sizes leave open, the proofs of
section 4 close for every property they state; liveness and the properties at the end of that
section rest on the bounds.

### Fairness

* `node`: weak fairness of `Poll`. The session loop never blocks: it takes a
  frame or waits a millisecond and counts. Nothing is assumed of the host.
* `update`: weak fairness of `NodeReceive` and `Unheard` (the loop again, and
  a board that is swapping hears nothing) and of each host's own steps: it
  sends, reads what it got, or its timeout fires. Losses, repeats, resets and
  flash errors owe nothing.
* `device`: weak fairness of the steps the program takes by itself (`Boots`).
  Hosts, keys, flash errors and power cuts owe nothing.
* `serial`: weak fairness of `Works` and `BoardTimeout` (the session loop polls for
  ever and counts milliseconds), `Wire` (what is written arrives or is overrun) and
  `Tool` (a sequential program whose every wait has a deadline). Flash errors owe nothing.
* `stream`: weak fairness of `Tick` and `Watchdog` (time passes), `NodeStep` and `HostStep`; surveys owe
  nothing.
* `entry`: weak fairness of `ToolStep` and of each board's `BoardStep` (loops that never
  block, and a reset that ends in the bootloader), and strong fairness of `Deadline`: the
  15 s pass while the poll comes back to its pause again and again. Losses and other tools
  owe nothing.

`builds` has no liveness. `update`, `node`, `serial`, `stream`, `entry` and `builds` say CHECK_DEADLOCK FALSE: a host that is done stops, a
board that is swapping, or has left the serial session, leaves the model, and a board that
was given its two binaries is a final state.

## 4. The proofs

Every theorem holds for all values of the constants that satisfy the assumptions named below;
TLC evaluates each assumption on the runs.

| Module | Theorem | What it states |
|---|---|---|
| `CanNodeProofs` | `NodeTypeCorrect`, `NodeCountersAgree`, `NodeResumePoint`, `NodeMarkedIsVerified` | `TypeOK`, `CountersAgree`, `ResumePointStored`, `MarkedIsVerified` |
| | `NodeAckedPagesKept` | `AckedPagesKept` |
| `CanUpdateProofs` | `UpdateTypeCorrect` | `UpdateTypeOK` |
| | `UpdateRefinesNode` | the node among hosts and faults is `CanNode`'s, so its theorems hold there |
| | `UpdateInstalledIsOffered` | `InstalledIsOffered`, for any number of hosts |
| | `UpdateImplementsService` | `UpdateServed`, for one host |
| | `UpdateProgrammedIsImage`, `UpdateFailsOnlyWithCause` | `ProgrammedIsImage`, `FailsOnlyWithCause`, for one host |
| | `UpdateOneLostFrameRecovered` | `OneLostFrameRecovered`, for one host that tries at least twice |
| `CanStreamProofs` | `StreamTypeCorrect`, `StreamPacedLosesNothing` | `StreamTypeOK`, `PacedLosesNothing` |
| | `StreamDisturbedRecovers`, `StreamHopelessFails` | `DisturbedRecovers`, `HopelessFails` |
| `CanEntryProofs` | `EntryTypeCorrect`, `EntryOnlyNamedBoardLeaves`, `EntryReadyBoard`, `EntrySharedIdRefused` | `EntryTypeOK`, `OnlyNamedBoardLeaves`, `ReadyBoard`, `SharedIdRefused` |
| | `EntryOnlyWithCause` | `EntryFailsOnlyWithCause`, for any number of boards, losses and other tools |
| `DeviceProofs` | `DeviceTypeCorrect`, `DeviceBootsWholeImage`, `DeviceConfirmedNeverLost`, `DeviceCandidateNeverLost`, `DeviceDetachedWaits` | `TypeOK`, `BootsWholeImage`, `ConfirmedNeverLost`, `CandidateNeverLost`, `DetachedWaits` |
| | `DeviceRollbackServed` | `RollbackServed`: the board implements `TrialBoot` |
| `SerialUpdateProofs` | `SerialTypeCorrect`, `SerialMarkedIsWhole`, `SerialDoneMeansStored`, `SerialOnlyWithCause` | `SerialTypeOK`, `MarkedIsWhole`, `DoneMeansStored`, `SerialFailsOnlyWithCause` |
| `CanFramesProofs` | `FramesFiltersLoseNothing`, `FramesOneBoardActs` | `FiltersLoseNothing`, `OneBoardActs` |
| `BuildsProofs` | `BuildsServe`, `BuildsAcceptedOperates` | `BuildsServeTheirPart`, `AcceptedOperates` |

`NodeInvariant`, `UpdateInvariant`, `EntryInvariant`, `DeviceInvariant`, `SerialInvariant`,
`FramesInvariant` and `BuildsInvariant` state the inductive invariants behind them; those of
`UpdateProgrammedIsImage` (`PagesInv`), `UpdateFailsOnlyWithCause` (`SmoothInv`), `UpdateOneLostFrameRecovered` (`LossInv`),
`EntryOnlyWithCause` (`FailInv`), `StreamDisturbedRecovers` (`Recovering`), `StreamHopelessFails` (`NoPage`), `UpdateImplementsService` and
`StreamPacedLosesNothing` are in their proofs. Each was checked by TLC before it was proved.

### Assumptions

* `GeometryAssumption`: sizes are positive numbers of bytes and pages, `Erased` and `Junk` are
  bytes. `NodeAssumption`: the CRC maps images to digests, a data frame is no longer than a page,
  the timeout is positive. Nothing is assumed of the CRC.
* `HostAssumption`: images that fit the partition and are not empty, at least one attempt and
  one query. `FramesAssumption`: the frames that carry these images are among those the node may hear.
* `NoCollision` is a premise of the two theorems that speak of the image itself, and it is one about
  the behaviour, not about the CRC32: at no moment do other bytes in flash have the length and the checksum
  of an offered image.
* `StreamAssumption`: at least one frame to send, a tail shorter than a page, positive paces, and
  fewer surveys than the FIFO is deep, the bound of the model. How slow a host must be is not assumed, it is `Paced`.
* `EntryAssumption`: what a setup is. Node IDs may be shared, several boards may have any spread.
* `BootAssumption` and `DeviceAssumption`: at least one page, `Torn` is no content of a page, and `None` no image nor the
  pages of one.
* `SerialAssumption`: positive sizes, the digits are digits, `LetterF` among them, and the progress interval and the
  partition are whole numbers of chunks. `LengthAssumption` says that the value of the digits is a
  natural number; it holds for every sequence of digits, but by induction, which the provers cannot do.
* `BusAssumption`: node IDs from 1 to 127, 11-bit identifiers, at most eight bytes of data.
* `BuildsAssumption`: a draft is a map of regions with natural numbers for origin and length.

### The node

`IInv` is `TypeOK /\ CountersAgree /\ MarkedIsVerified /\ ResetOnlyMarked`.
`MarkedIsVerified` is not inductive alone: `finish()` flushes before it reads back
and marks, and a flush that still had bytes would program flash after an earlier
mark. `CountersAgree` excludes this: in a complete session the page in RAM is
empty (`NothingToFlush`), and its image is not. A write in any other phase is refused while the magic
is `Swap` (`WriteOutcomes`). `CountersAgree` in turn needs that a page which starts
on a boundary inside the partition ends inside it (`PagesFit`), and
`ResumePointStored` that two boundaries less than a page apart are one
(`BoundariesApart`). `AckedPagesKept` needs `SectorReady`: behind a page that does not start a
sector, the sector it lies in is the one erased last, so that the next write of the transfer erases nothing
it has acknowledged; and that a page lies in one sector and pages in ascending ones
(`PageInOneSector`, `SectorsInOrder`).
`ResetOnlyMarked` (the board resets only with a mark) is proved and no run states it.

### The protocol

`UpdateInv` adds the range of frames, answers, offsets and counters, and that a host that goes on
has attempts and queries left. It gives a step of the node for every step of the protocol
(`UpdateStep`), hence `UpdateRefinesNode`. `MarksOnce` is why an installed image stays: while the magic is
`Swap`, a complete session is the one that marked (`SwapSession`), so a repeated FINISH writes the same
mark, and no other session gets a byte into flash. On a board that came in `Swap` nothing is marked at all, and no session
completes, since none stores a byte (`Handed` in `CanUpdateProofs` is a swap with a mark behind it). A FINISH in the FIFO announces an
offered image, and no host has an accepted FINISH in its inbox before an image is
marked; so "done" maps to `Succeed`, the marking FINISH to `Install`. With two hosts a host may take the answer to the
other's FINISH for its own, hence the one host of `UpdateImplementsService`.

`UpdateProgrammedIsImage` needs to know what is under way, since a data frame carries no position: the session
takes its bytes for whatever page it is in. `PagesInv` adds to `UpdateInv`, as long as no frame was received twice:

* `Opening`: when a transfer begins, nothing of an earlier one is left. SESSION_OPEN is the last frame on its way,
  its answers the last the host gets, and BEGIN travels alone.
* `Transfer`: while the session receives, in each place of the host what may be on its way to the session and back.
  It is one request or its answer, but for the data frames of a page.
* `Follow`: the data frames of a page have ascending positions in the image, with gaps where frames were lost
  (`at` is where each belongs, `from` the end of the last one taken). A page the session fills up to its end has no
  gap, since the host sends no byte beyond it; so what it flushes is the image. With a gap the page stays
  short, and the host asks with QUERY and starts over from the acknowledged offset.
* `SectorClean`: the sector erased last holds bytes of the image where they belong, or erased ones. A transfer
  given up in that sector, or after a write that failed half way, and begun again programs these pages over
  without an erase.

Two hosts mix their data frames in one session, and a frame received twice shifts the rest of its page by its
length; the premises `OneHost` and `NoneTwice` exclude these two, and no other fault.

`UpdateFailsOnlyWithCause` is about the course of an update in which nothing has gone wrong so far, on a board that did not
come in `Swap`; one that did stays so (`TrialStays`), hence `SmoothInv` and `LossInv` need to speak of no other. `SmoothInv` gives it stage
by stage (`Entering`, `Transferring`, `Marked`): the one request under way or the answers to it, and the session on the
other side. While a page travels, its data frames join the bytes the session holds to those the host has
sent, without a gap (`Joined`), so the session takes every one of them and acknowledges the page. When FINISH comes, `Programmed` of `PagesInv` says that the read-back finds the image, so its CRC
agrees. The host that waits has something on its way to it (`SmoothAwaits`), hence no timeout counts an attempt.
Two hosts can refuse each other on a clean bus, hence `OneHost`.

`UpdateOneLostFrameRecovered` follows the tool away from that course and back to it. `LossInv` says that with one such loss the
host is on the course (`Smooth`) or off it (`Disturbed`) in one of four ways. The session still receives, and a frame or an answer of its transfer was lost
(`Gapped`): by `PagesInv` a page with a gap is never filled, and an answer that was lost is not sent again, so nothing but an error can
answer the host. The image has arrived and an answer, or FINISH, was lost (`Unanswered`). The host asks
(`Asking`): QUERY is the only frame on its way, and whatever the offset in the answer is, `Programmed` makes it safe to go on from if it is a page
boundary; if not, the host aborts. The session is gone and the ABORT acknowledged (`Aborted`), and the tool enters again. A failed
try is counted once on the way, out of the first (`FirstTry`), and everything after it is the course again, where nothing
counts a try. Hence the premise that the tool tries twice (`can_update.py` tries three times): with one try
the loss ends it, and TLC shows it. The lemmas of the smooth course (`UndisturbedStep`, `SmoothNext`) therefore speak of
any past faults and a step that adds none.

### The pace

`InStep` cuts a transfer of a paced host into the stages of BEGIN, sending a page, waiting for its
ACK, the end and after it. In each it says what is in the FIFO, what is announced and how far the node is
behind: by `Room` the frames that come before the node is back fit into the FIFO. It speaks of
the time before the first survey, as the property does.

`StreamDisturbedRecovers` counts what surveys cost. As long as they spoil nothing, the transfer is in a stage of `InStep`; a survey
that comes in it (`Shaken`) may cost frames of the page (`Holed`, of which the first is not one: surveys alone do not fill
the FIFO), and then the attempt. `Recovering` says that the attempts lost are at most the surveys, and one less
while an attempt is shaken. Two steps make this delicate. Between two attempts, in the QUERY and the ABORT, a survey finds nothing to
spoil. And a survey may come when the FINISH of a spoilt attempt is still to be refused: it cannot spoil it again, and falls
into the next attempt (`Spoilt`). When an attempt begins anew, `Calm` finds the stage of `InStep` again. All this holds until
the watchdog drops a session. It finds no stage of `InStep` silent for so long (`StageAwake`), so a survey has come before it
(`DroppedDisturbed`), and that is all the property says from then on.

`StreamHopelessFails` needs the order of requests and answers (`Orderly`) to know that what the session has counted belongs to this
attempt, and then the number of frames in a row it can have (`Gain`). Every pause of the poll overflows the FIFO, and a
frame of the page is lost then, after which the page is never filled (`got + Data < sent`). A survey puts its own, perhaps
shorter wait in the place of a pause; it lets one FIFO more through. Until the loss, the node has not paused yet (`Early`), is about
to pause (`Catching`), or is in a pause too long for what is to come (`Late`).

### The entry

Frames carry no UID, so `ReadyBoard` and `OnlyNamedBoardLeaves` rest on what frames tell of their
sender: every part of an INFO under way is a part of a board of that node ID (`FramesInv`), after the survey the
tool holds only frames of the target (`AimedInv`), and an ENTER_UPDATE under way names the UID the
tool polls for (`NamedInv`). `ReadyBoard` speaks of unique node IDs.

`EntrySharedIdRefused` follows an undisturbed survey (`SurveyInv`). All boards get the request, and answer in the order of
their delays (`InTurn`). So at most one answer at a time is in the middle of its frames (`Underway`), the tool collects it whole, and every
board is still to answer or in the tool's list (`Surveys`). The list never holds two UIDs of one node ID (`OneUidEach`),
because the second one fails the tool; so with two boards of one node ID the survey cannot end.

`EntryOnlyWithCause` assumes that no cause has come up and follows the entry (`FailInv`). What is to be read from a board, on the bus
and not yet sent, is its `Line`: whole answers, each a header and its data frames in order (`Ordered`, `Complete`). In
the survey every board has its line and its request (`SurveyLine`). The tool collects the next part of one answer or has just
dropped all; an answer is cut only while no other tool asks, and then nothing follows it, so what is left of it meets no other one, and no record
mixes two boards. The first GET_INFO finds its way (`InfoLine`): at most one request of each other tool is in the
FIFO, and one whose answer the tool reads as its own has left it; so with two of them there is room for the GET_INFO and then for the
ENTER_UPDATE, and a header or the request itself is always under way. From the ENTER_UPDATE on the board leaves (`Entering`), and
every answer to the poll says so or says nothing, which the poll makes up for.

### The board

What is confirmed and what is marked are images as they were stored, page by page. The heart of the invariant gives, as
a function of the number n of copies done, where every page of both is, through the 2 * `Pages` copies of a swap and the 2 * `Pages` of a revert
(`ActiveLaidOut`, `DfuLaidOut`, `Noted`). Around it: what the stages of `set_magic` have invalidated and erased (`MagicInv`),
what a boot in the middle may find (`LoadInv`), that a session writes the pages of one
image in order, each `Alone` but for the first one over USB or, up to the read-back, over CAN (`SessionInv`), and when the console may pass over a prepare (`ConsoleInv`).
`RollbackServed` follows step by step: each step leaves the abstract status or takes one of `TrialBoot`'s.

### The serial update

A header that loses its newline (`Endless`) leaves the bootloader in its line until
it gives up. One that loses a digit may still end, and so may one that loses what is in front of its digits: it comes through with letter and blank,
with the letter or with nothing (`Digested`), and with nothing it is accepted only when its first digit reads as the letter. Hence the
proviso `LengthUnmistaken` of `MarkedIsWhole`. With the right length, the
bytes stored, in the chunk, in the register and on the wire are ascending bytes of the image (`Ascending`): bytes may be
lost, none is repeated or late; so an image that reaches its length has lost none.

`SerialOnlyWithCause` counts chunks (`OnTime`). The tool takes any byte for an acknowledgment, the rest of the line with
"receiving" too, and runs ahead of the board by as many chunks. On a line that loses nothing that does no harm: of k chunks
sent j are in flash, and each of these has printed a byte at least (`Flow`). So when all sent is in flash there is
something to read, and the last byte the tool takes for an acknowledgment is in front of "image marked updated".

### Filters, builds and maps

`FramesOneBoardActs` and `FramesFiltersLoseNothing` are arithmetic on identifiers, of every pair of node IDs. `BuildsAcceptedOperates` is arithmetic
on regions, offset by offset: whatever the checker accepts satisfies each assert of embassy-boot and `CoarseFlash`.

### What the proofs found

Two operators, the answer the tool reads in `CanEntry` and the awaited answer in `CanUpdate`, had a CASE with
arms that overlap. TLC takes the first, TLA+ leaves the choice open; the proofs did not go through. The
arms are disjoint now.

`SerialFailsOnlyWithCause` did not name one cause: the tool sends an image of any length, and the bootloader refuses an
empty one and one that is longer than the partition. The run has an image that fits; the proof asked for the others.

`EntryFailsOnlyWithCause` held within the run's two faults and not beyond. Three requests of other tools fill the
FIFO of three frames, and the GET_INFO behind them is lost without a trace; a survey answer that is cut is completed with the frames
of an answer to another tool, and mixes two UIDs; and boards that are not asked for, but share a node ID, end
the survey of the tool. `Cause` names them now, and the run has a third fault. The proof also found that the survey of the model never gave up a record
that does not get whole; `discover()` does after 0.2 s (`src/tools/can_update.py:221-225`): `GraceOver`.

`HopelessFails` did not mention surveys. One of them delays the pause of the poll, and the node comes back to its FIFO
before it has overflowed; a page that is short enough gets through then, hopeless as the pace is. The run's page
is too long for that. `Hopeless` now asks for pages of `2 + surveys` times what a FIFO and a poll take.

### Only model-checked

All invariants and action properties of the passing runs that are safety properties, and both refinements, are proved. What is left to TLC:

* Liveness, for which the provers have no rules here: `SilenceEndsTransfer`, `HostEnds`, `StreamEnds`,
  `EntryEnds`, `BothEnd`, `PrepareEnds`.
* What a recursive definition computes for all inputs (induction over data): here only the value of the
  digits of the serial header.

## 5. Abstractions

* Bytes, images and digests are members of small sets; text and logging are left out.
* `SESSION_OPEN`'s answer and its nonce are two frames, as on the bus.
* The write of one flash word and the erase of one page are atomic. The erase of a
  coarse sector is not: it may stop after any page. A write of a page into DFU that fails
  may have programmed any number of its bytes.
* In `Device`, what is in a page programmed over another image is the set of the images that have been there; which bytes are spoilt
  depends on the two images and is left open. The bytes of an image over its own change nothing.
* `Device` moves images of a whole partition; an image shorter than the partition
  differs in nothing the swap looks at.
* The state partition of the model has exactly the words it needs; a real one has
  spare ones, so that a full set of progress words reads the same.
* In `Device`, an update taken from the console counts as marked in `TrialBoot` from
  the next reset on, since the console can boot without it (`Bypassed`).

* Frames of two boards that collide bit by bit are left out of `CanEntry`.
* `Builds` bounds an application by its map and takes only the smallest and the largest image
  that links.

## 6. Not modelled

* The byte layout of `Response` and `Info` and the incremental CRC32: planned below.
* Inside USB DFU: its state machine is embassy-usb-dfu's. What this repository adds, the
  sessions and the detach, is in `Device`.
* The regular expressions of `check_partitions.py`, its check of comments, the text of
  generated linker scripts, `src/build.rs` (linker arguments only).
* CI, size checks, clocks, console output, the panic handler, the blink task: no state any
  property is about.

## 7. Plan

Order of work, the most important behaviour first.

1. Done: `FirmwareUpdater`, `CanNode`, `CanNodeProofs`, `UpdateService`, `CanUpdate`,
   `CanStream`, `CanEntry`, `SwapBoot`, `TrialBoot`, `Device`, `CanFrames`, `SerialUpdate`,
   `PartitionMap`, `Builds`.
2. Done: the proofs of section 4.
3. Not provable here: the six liveness properties (section 4, "Only model-checked").
4. `CanCodec`: `Response` and `Info` both ways, the incremental CRC32 against its definition
   over bounded inputs.
