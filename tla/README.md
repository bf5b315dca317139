# A TLA+ development of the FPGA Arcade Replay firmware

The Replay is an FPGA board; an ARM microcontroller (SAM7S) beside the FPGA runs
the firmware in `src/Replay_Boot`.  It loads cores into the FPGA from an SD card,
sets them up from ini files, shows an on-screen menu, and serves the virtual disk
drives of the running core from image files on the card.  This directory models
the firmware's own logic, checks the models with TLC and proves the most important
invariants with TLAPS.  Paths below are relative to `src/Replay_Boot`.

Contents: 1. the system and its components; 2. modules, state and actions; 3. what
the runs show, and their bounds; 4. fairness; 5. proofs; 6. where code and comments
disagree; 7. what is not modelled; 8. the plan.

## 1. The system

One thread runs everything: `main()` (main.c) ejects all drives, reads the card,
loads a core, reads its ini file, and then calls `main_update()` for ever, which
polls the keyboard and the card, handles the menu and serves the file channels.
Around it run, truly concurrently, the FPGA core with its own CPU, the DMA
controllers of the microcontroller, a receive interrupt, the USB host at the other
end of the cable, and the user, who pulls cards and types.  What is hard here is
not threads but (a) a core that raises requests and moves data at its own speed,
(b) external changes between two steps of a long handler, (c) pointers, flags and
cached places that outlive what they belong to, (d) sequences of calls in an order
nobody wrote, and (e) a few hundred lines of index arithmetic.

| component | source | state | operations | what makes it correct |
|---|---|---|---|---|
| main loop and card life cycle | main.c, config.c, usb.c, fatfs/wrapper.c | card detected, initialised, mounted, lent to USB; which core runs | eject, card start, load, embedded core, init, poll, fallback, USB mount and unmount, reload | card never shared with a USB host; drives served only from a mounted card; loading ends; a card comes back |
| virtual drives | fileio.c (FCh) | `fch_handle` per drive, `fch_driver` per channel, status byte in the FPGA | Insert, Eject, TogProtect, SetDriver, Init, Process | no stale or shared memory, no leak, the FPGA's copy follows |
| generic file driver | fileio_drv00_generic.c | the transfer's address and size, the FatFs object | Process: seek, read, burst, write, time out | data in order, OK only for whole transfers, every channel answered |
| floppy driver | fileio_drv01_floppy.c | sector counter; flux track, revolution and offset; the search for a written sector, shared by all drives | Process: read ADF, read SCP, write | only whole sectors that were written; the right words of a flux track; every request answered |
| tape driver | fileio_drv02_tape.c | the chunk found last, one for all drives; length found by a scan | insert, Process: walk, transfer | the bits of the tape wherever the core asks |
| ATA driver | fileio_drv08_ata.c | registers, sectors per block, seek table, last place | each ATA command | right sectors to right places; registers; no overrun; no deadlock |
| geometry and RDB | fileio_drv08_ata.c, rdb.c | none | calculations at insertion | the geometry addresses nothing that is not there |
| memory channel | fileio.c (MCh) | none between calls; a FIFO in the FPGA | file to memory, verify, memory to file, short buffers | what is reported as done is in memory byte for byte; calls end |
| uploads | config.c | file offset, block, consumed bytes | plain, PRG, CRT, swizzled, data line, download | nothing is written outside the region; errors are noticed |
| on-screen menu | menu.c, messaging.c | screen, popup flags, cursor, timeout, OSD bit | keys, messages, timeout, `_MENU_update` | USB lock, deliberate yes, keyboard returned, timeout hides |
| menu tree | config.c | doubly linked list of menus, items, options | ini handlers, move ROMs, free | list well linked, nothing lost, everything freed |
| file browser | filesel.c, menu.c | two arrays of names around a reference, cursor, filter, delayed scan | scans, update, filter | no name skipped or repeated, cursor on a name |
| keyboard decoding | osd.c, hardware/usart.c | partial PS/2 code, modifiers, escape timeout, receive ring | OSD_GetKeyCode, receive interrupt | what was pressed is returned and nothing else |
| serial port | hardware/usart.c | ring buffer, barrier, two DMA areas | Putc | everything sent once, in order |
| heap | freelist.c, libc/malloc.c, ff_malloc.c | circular free list in address order, rover | Alloc, Free, growth by sbrk | disjoint blocks, joined free memory, termination |
| SD card driver | card.c, hardware/ssc.c | was the last access a write | read, write | the dummy block between reads and writes |
| USB mass storage | usb/msc.c, usb/usb_hardware.c | command in progress, banks, sense | command, data and status phases, reset | host and device agree on every phase; blocks go where they were sent; commands end |
| configuration, ini parser | config.c, iniparser.c | parser position, value list | save, parse, set-up | see section 7 |
| flash, OSD drawing, FatFs, formatting, start-up, PTP, CDC, host and Vidor builds, tools | flash.c, osd.c, fatfs/, usb/ptp*.c, ... | | | not modelled, see section 7 |

How they meet: `main_update` calls `MENU_handle_ui` with the key it decoded, and
`FileIO_FCh_Process` per channel; the latter reads a status word of the FPGA and
dispatches to the driver of the channel; drivers call FatFs, which calls the card
driver.  The menu inserts, ejects and protects drives, starts and stops USB, edits
options, uploads ROMs and asks for a core reload by clearing the FPGA, which
`main_update` sees at the DONE pin.  The browser owns a directory scan that lives and
dies with the menu tree.  All of them allocate from the two instances of the allocator.

PROJECT.json lists the hazards of this code, each at its line, with the property
that would catch it.  Further ones that no property covers: a card exchanged between
two polls of the detect pin (main.c:562); the protect key before the cursor was in the
item list, which reads from address 0 (menu.c:1154); the stack and the C heap sharing
the RAM above the program (common/syscalls.c:58).

## 2. Modules

`MC*` modules only give constants their values for TLC.

**Main loop and drives**

* **VirtualDrives** (fileio.c): `handle` is `fch_handle` (three status bits and the
  pointers `fSource`, `pDesc`), `fch_driver` the driver type per channel, `fpga` the
  byte last sent, `mem` the two heaps as a map from identities to what lives there.
  Freed identities are reused by any allocation, so a stale pointer really can come
  to name another drive's object; `memOK` is FALSE once a dead or foreign object was
  freed or used.  One action per FCh operation, in the contexts that call it
  (`CallInsert`, `CallEject`, `FCh_TogProtect`, `FCh_Process`, `CallSetDrivers`,
  `CallInit`, `EjectAll`, `EjectAllAndInit`); each driver's `InsertInit` is its set of
  possible results with what it allocates.
* **ReplayMain** (main.c, usb.c, CFG_card_start, CFG_update_status): `pc` names the
  part of `main` or `main_update` that runs next.  It contains VirtualDrives as an
  instance, and its property `DrivesSpec` says that this composition implements it:
  the guards VirtualDrives puts on calls are what the main loop really ensures.
  `CardMoves` and `Programmer` change the detect and DONE pins between any two parts.
* **FileChannel**, **Drv00** (fileio_drv00_generic.c): FileChannel is what a core may
  expect of a channel; Drv00 is `FileIO_Drv00_Process` stage by stage with FatFs's seek,
  read and write under card errors and full cards, and implements it
  (`FileChannelSpec`).
* **DriveRequest**: the request line (REQ_ACT, acknowledges) that the tape and the
  floppy driver use alike.
* **Tape** (fileio_drv02_tape.c): a tape is its chunks with the bits each stands for;
  `cursor` is `s_ChunkData`, `walk` one search of it, forwards or from the start.  The
  insertion walks to the end to find the length, a read walks for every bit.
* **FluxTrack**, **Floppy** (fileio_drv01_floppy.c): FluxTrack computes, for SCP images,
  where on a track the next words come from as the head steps and the disk turns;
  Floppy has the reads and the writes of both kinds of image, with `write_state` and
  `write_drive`, the search for sync words, header and body over several calls.
* **Channels**: one channel under the tape or the floppy driver; when another core is
  loaded the drives are ejected and the driver may change, and what the drivers keep in
  static variables stays.
* **HardFile** (Drv08_HardFileSeek, Drv08_BuildHardfileIndex): the FatFs object whose
  position and cluster the driver overwrites, the table of clusters, filled lazily,
  and the place of the last seek.
* **Geometry** (Drv08_GetHardfileGeometry, Drv08_CreateRDB, the card's branch of
  InsertInit): cylinders, heads and sectors as operators on a size in sectors.  The
  loops are choices of the first or largest number that passes their test; the 16 bits
  of the fields are kept.
* **Drv08** (Drv08_ATA_Handle): `Insert` gives a medium the geometry of Geometry; one
  action per stage of a command (accept, abort, burst, block, release, return) beside
  `HostCommand`, `HostReads`, `HostWrites`; for seeks it uses what HardFile shows.

**Menu, uploads, memory**

* **MenuUI** (menu.c): `ui` holds screen, popup flags, cursor and OSD bit; handlers are
  functions from a `ui` to the set of its successors, composed as in
  `MENU_handle_ui`: the timeout branch, the key handler of the screen, `_MENU_update`.
* **ConfigMenu** (config.c): allocations, links and titles of the menu list, `Move` for
  relinking the ROMs menu, the keys that walk the list, `CFG_free_menu`.
* **FileSel** (filesel.c): names are numbers in sort order, a directory is a sequence of
  them; `prev`, `next` are the arrays around the reference, `Place` the insertion of one
  scanned name, then keys, pages, filter letters and the delayed scan.
* **MemoryChannel** (fileio.c, FileIO_MCh): a byte is where it comes from, so that a
  wrong one is seen wherever it lands.  `ReadFile`, `SendChunk`, `CompareChunk`,
  `FetchChunk`, `StoreBuffer` are the rounds of the nested loops, `Drain` the FPGA that
  empties the FIFO meanwhile, and every wait may time out (`TimesOut`).  `Access` is one
  access to the card: it gives all there is, or fails and gives less, after which FatFs
  gives nothing more of that file (`err`) until it is closed.
* **RomLoader** (config.c): one call of CFG_upload_rom in its four formats, of the data
  line or of CFG_download_rom, over MemoryChannel.  `job` is the call, `result` what it
  returns.
* **RomMenu**: the browser and the uploads it starts; a call blocks the main loop, so
  that keys and the delayed scan wait.
* **Heap**, **FreeList** (freelist.c): Heap is what malloc and free promise; FreeList is
  the allocator, header by header, and implements it (`HeapSpec`).

**Devices**

* **UsartTx** (hardware/usart.c): `USART_Putc` with its wait, store and flush stages as
  separate steps beside the DMA controller, which may finish an area between them.  The
  code can overfill its ring in two ways (`Overfills`); `full` remembers that one of them
  happened, and ends the history of what is owed.
* **Keyboard** (osd.c, receive side of hardware/usart.c): `OSD_GetKeyCode` from the poll
  of the PS/2 byte over prefixes, modifiers and releases to the comparison with escape
  sequences, with the receive interrupt as an action of its own between its steps.
  `owed` holds the keys typed and not yet returned, `wrong` says that something else
  was.  `Users` are the sources that are used together in one behaviour.  What the decoder
  is known to mix up sets `slip` in the very step in which it happens (`Slips`): a modifier
  forgotten while codes are on their way, an overrun ring, ESC ESC, a code left behind for
  the button, a code overwritten by a terminal's characters.  A modifier that is held for
  longer than its timeout is no slip as long as nothing is on its way: `active` then no
  longer has it, as the code does.
* **Terminal**: both directions of the port.
* **SdCard** (card.c): reading and writing of blocks with the dummy read, each of which
  may fail.
* **MassStorage** (usb/msc.c, usb/usb_hardware.c): the phases of a command on the device
  (`stage`), the endpoint with one FIFO and the one with two banks, and a host which sends
  commands, takes and gives packets and may reset the bus at any moment.  Host and device
  can get out of step in three ways: a command that the two read differently (`Agrees`), a
  reset in the middle of a command, and a cleared halt.  Each sets `astray`, in the step in
  which it happens; a reset between two commands brings them together again (`Reset`).

**Proofs**: VirtualDrivesProofs, ReplayMainProofs (the main loop and the USB mass storage
it lends the card to), Drv00Proofs, ChannelsProofs, FilesProofs (HardFile, FileSel, RomLoader with
MemoryChannel), Drv08Proofs, MenuUIProofs (with ConfigMenu), ServicesProofs (the serial
port, the key decoder and the allocator); see section 5.

Definitions called "Mutant" in the modules are plausible bugs of the definition next
to them; substituting one must violate the property PROJECT.json pairs it with, which
shows that the property sees that part of the code.

## 3. Runs

| run | shows | bounds, and why they are enough |
|---|---|---|
| VirtualDrives | stale handles never hurt (`DriveInv`), nothing leaks (`NoLeak`), the FPGA knows every drive (`FpgaAgrees`) | one channel, three drives, three objects per heap, all driver types. Aliasing needs a stale drive, the one that got its memory, and one more; channels share only the heap, which ReplayMain covers with two |
| ReplayMain | composition with the drives (`DrivesSpec`), USB exclusion, drives served only with a card (`Inv`), loading ends, a card comes back | two channels of one drive, one driver type; the drives' own detail is in the run above |
| MenuUI | USB lock, OSD and screen agree, no accidental yes, timeout hides for good | timeouts disabled and 2 ticks: the counter compares with its limit and with half of it only |
| FreeList | partition, order, joining (`ListInv`), `HeapSpec`, each call returns | FatFs's case, 6 units and a first growth that is refused; libc's case, 8 units grown by 2: exact fit, split, join below, above, both, rover on a vanished block, growth granted short all occur |
| ConfigMenu | links inverse, no menu lost (`CfgInv`), ROMs right before the Replay Menu | 7 objects; lists up to that length put ROMs first, in the middle and before its place's neighbour. `RomsLast = FALSE`: the ROMs entry is not the last menu of the ini file (section 6 has the other case) |
| Drv00 | implements FileChannel; each channel answered | sectors of 2 units, files of 0 and 5, requests across all boundaries and beyond the end, a second channel competing |
| HardFile | position and cluster agree, table and last place are right (`Inv`) | clusters of 2, table of 4, images that leave the table partly used and fill it; card errors and growth |
| Drv08 | right sectors read and written, registers, FIFO, geometry (`Inv`), task file, commands end | an image without an RDB that gets 4 heads and 3 sectors a track (RDB of 24 sectors), hard disk and CD images, the card and a partition of it; counts to 5, blocks of 1 and 4, bursts of 2: bursts and blocks end at, before and after each other and the RDB. `Slow = FALSE`: the host takes a sector within the 500 ms timeout |
| RomMenu | browser window complete, cursor on a name, neighbours, pages and ends (`SelInv`, `NothingSkipped`); calls do what they report and write nowhere else (`UploadInv`), and end (`UploadEnds`) | window of 3, all orders of 4 names, some of 2, 7 and 9; filters that keep all, some, none. File buffers of 4 bytes and chunks of 2; files that fill a buffer, end inside one, are smaller or larger than the region; all formats, verified and not; a core in time or too slow (`SlowCore`); a card that may fail at any access (`CardFails`) and has room for 6 bytes. Calls from the ini file are made before the browser is used and with an empty directory (`RunJob`), those of the browser from any of its states |
| Terminal | nothing printed is lost, garbled or left behind (`Inv`, `PrintedIsSent`); what is typed is decoded, and arrives (`KeyInv`, `KeysArrive`) | transmit ring of 5, lines to 6: lines are cut by the end of the ring and by the barrier, and both ways to overfill it occur (`full`). Receive ring of 6, one longer than the longest sequence, which can be overrun; one more byte of a keyboard on its way when a key is typed. Keyboard or terminal, each with the menu button; both at once slip at the first sequence (KeyboardShared.cfg in section 6). Nothing is typed after a slip |
| Channels | a tape's bits, a flux track's words (`TapeRight`, `Inv`), only whole written sectors on a disk (`WholeSectors`, `OnlyWritten`), requests answered | bytes of 2 bits, tapes with every kind of chunk; sectors of 2 words, tracks of 2 sectors; flux tracks whose lengths are no multiples of a burst; two tape drives of which one holds a tape at a time, and one floppy drive: two on one channel are in the theorem `SectorsWhole` only. Every damaged sector: one sync word, too short, bad checksum, wrong track, wrong number |
| MassStorage | phases agree, the dummy read happens (`MscInv`), blocks right (`DataRight`), commands end | blocks of 2 packets instead of 8, writes of 1 and 3 blocks (a pair and one more), reads of 3, every class of command, and the commands that the two read differently: data wanted of an unknown one, less wanted than a read has, both waiting for data (`AnyCommands`). One failure of the card per command; resets at any moment, cleared halts. A host that went astray begins nothing more before its next reset (`Persists = FALSE`, a bound). Deadlock is not checked: the device waits in `usb_send` for a host that is lost, which is the deviation MassStorageHalt of section 6 |

`Inv` in a module (`ListInv`, `MscInv`, `CfgInv`, `SelInv` where a proof module takes two) is the conjunction of its type invariant and of the parts of its
data structure's invariant, which are defined by name right before it.

Deadlock is checked in every run but MassStorage.  Counters are bounded by the constants named in the
modules (`bound` in comments marks a guard that exists for TLC only).

Symmetry (over identities of heap objects, drives and channels) is used only in runs
without liveness.

## 4. Fairness

* ReplayMain: `WF(Progress)`, the loop is never preempted and every part of it returns;
  `SF(PollMounts)`, a card that can be mounted at every try is mounted at some try.
  Nothing is assumed of the user, the programmer or the USB host; the two liveness
  properties instead have premises: the programmer stops, or the card stays in.
* MenuUI: timeout ticks and the idle calls of `MENU_handle_ui` go on; a core that was
  cleared is initialised again.  The user owes nothing.
* FreeList: a call in progress runs on.
* Drv00: `Process` runs for ever, since main_update calls it in every turn.
* Drv08: the driver runs on; a host that has sectors to read or room to write does so.
  Without the host's part no transfer can end.
* Channels: the driver runs on (`WF(Driver)`), and main_update comes to the channel again
  and again (`SF(Process)`, strong because cores may be exchanged in between).
* MassStorage: the device runs on, and a host that began a command goes on with it
  (`HostGoes`, `Stays`); it never has to begin one, and never has to reset.  `CommandEnds`
  claims nothing of a host that went astray.
* Terminal: `USART_Putc` runs on and the DMA controller sends; the main loop polls the
  keys, and a keyboard that has a byte for it is found so at some poll (`SF`, because
  the poll alternates with the serial port and the button); the interrupt comes, and
  times pass.  The user owes nothing, and nothing is claimed of what arrives after `slip`
  or `full`.
* RomMenu: the firmware is alone in a call and runs on, and the FPGA empties its FIFO or
  the 100 ms pass.

## 5. Proofs

TLAPS checks the following for every value of the constants, from the assumptions
named in the modules.  All modules follow the pattern `Init => I`,
`I /\ [Next]_vars => I'` with one step per action, `I => property`.

**VirtualDrivesProofs.**  `TypeCorrect`: `Spec => []TypeOK`.  `Ownership`:
`Spec => []DriveInv`, also when units are mounted twice (`ReInsert = TRUE`).
MemorySafe alone is not inductive: an eject frees what its handle points to, and a
handle may dangle.  `DriveInv == TypeOK /\ MemorySafe /\ InsertedOwns` is: what an
*inserted* drive points to is live, of the right kind and nobody else's; about the
pointers of empty drives it says nothing, because no caller follows them.
`InsertKeepsInv` shows that a new object, which was free, is no inserted drive's;
`ReleaseKeepsOwns` that releasing a set of drives leaves the other drives' objects
alone, since none is shared.  `NothingLeaks` (`NoLeak`) and `FpgaIsTold`
(`FpgaAgrees`) assume `ReInsert = FALSE`, without which both fail: `InsertChanges` is
where the assumption enters.

**ReplayMainProofs.**  `DrivesRefined`: every step of `main` and `main_update` is a step
of VirtualDrives or leaves the drives alone.  It needs `MainInv == Inv /\ Exclusive`:
where the program is (`pc`) tells whether the drives are all empty, and `Backed` that
every inserted drive lives on the card that is there.  Because the refinement is a
theorem, what is proved of the drives holds in the whole program: `UsbAlone`
(`UsbExclusive`) takes `NoLeak` from there.  `MainLoop` is `Spec => []Inv`.

The same module holds the proofs of MassStorage, since the main loop lends the card to the
USB host.  `MassStorageCorrect` (`MscInv`) and `HostFindsItsData` (`DataRight`): for any
host, numbers of blocks, block length and failures of the card, and from no assumption but
the constants' own.  The code does not protect itself from a host that reads a command
differently, resets the bus in mid-command or clears a halt (section 6: MassStorageStall,
MassStorageLess, MassStorageReset, MassStorageHalt), so the properties speak of the times
when no such thing has happened since the last reset between commands; `astray` is set by
the event itself and by nothing else.  The inductive invariant is
`Always /\ (astray \/ IInv)`.  `Always` holds whatever the host does: types (`TypeInv`), what
the card is doing (`CardInv`: a read never follows a write without the dummy read) and the
shapes of what is in the endpoints (`Shapes`).  It is what `Recovers` needs, which shows that a
reset between commands leads back to `IInv` from every state that a lost host can leave
behind: no packet, bank, half-sent answer or half-filled buffer survives it.  `IInv` has one
part for each place where the device can be: outside of a command (`FreeInv`), in a stall
(`StalledInv`), in the data of one (`WorkInv`).  Each relates the
packets in the endpoint to what the host waits for (`Wire`, `Talk`) and the block in the
buffer to the number of packets gone (`BlockInv`); neither property is inductive by itself,
because which packet is on the wire follows from both ends' counters together.

**Drv00Proofs.**  `Drv00Correct` (`Spec => []Inv`) and `Drv00Refines`
(`Spec => FileChannelSpec`).  The invariant `DrvInv` says that at most one channel is in
a transfer (`OneServed`) and that what was moved, what is in the buffer and what is left
make up the request (`Counted`); given it, each stage maps to one step of the abstract
channel or to none.

**ChannelsProofs.**  `TapeCorrect` (`TapeRight`): if only one drive of the channel holds a
tape at a time (`~Together`), every bit a core gets is the one the tape has there and the
length is the tape's.  The inductive invariant says of the shared cursor that it stands at a
chunk of the tape that is in, with the number of bits before it (`TapeInv`), and of a walk
and of a transfer in progress where they are (`Walking`, `Serving`).  `~Together` is needed
exactly where a request follows the cursor: section 6 shows what happens otherwise.
`ChannelInv` adds what keeps the drivers apart: the floppy driver never is where a transfer
of the tape driver could be, and the cursor survives its use of the channel.

`ChannelsCorrect` (`Inv`) and `OnlySectorsWritten` (`OnlyWritten`) add the floppy driver
(`FloppyInv`): the place on a flux track lies on the track the head is on, whatever steps
came between, provided that tracks lie at even places of the file (`EvenPlaces`; ChannelsOdd
in section 6), which makes every burst end at the sector's end and not before it.

`SectorsWhole` (`WholeSectors`): every intact sector a core wrote to a disk is there whole,
wherever the calls of the driver cut the stream of words and whatever it remembered.  The
invariant `WholeInv` is `FloppyInv` and `SearchRight`: for every core, the words it still has
are those of its sectors behind some place p (`Remains`), the sectors found before p are on
the disk (`SectorsFound`), and the driver's state is what the search would have after those
p words (`Progress`); `AskedRight` ties the request to it.  p is not a variable of the
program: that such a place exists is what every call keeps.  Assumed are one channel
(`OneChannel`), `Level > BodyWords` and that no broken sector is shorter by more than a word
(`NearlyWhole`); ChannelsTwoWriters, ChannelsUnderrun and ChannelsShort in section 6 show
that each is needed.

**FilesProofs.**  `FilePointerCorrect` (`Spec => []Inv`): if the table has an entry for
every sector that is asked for (`InTable`), position and cluster in the FatFs object
always belong together and neither table nor last place leads elsewhere.  Section 6
shows that InTable is needed, and that the code does not ensure it.  The inductive
invariant `SeekInv` says of every recorded place (the object, the last place, each
filled entry, the entry about to be used) that its cluster is right *for a file that
may still grow or may have stopped FatFs early* (`Good`): that a recorded place stays
right while the file grows is what the plain property does not say.  The arithmetic
(division keeps order, a place inside a step) is in lemmas of its own.

`BrowserCorrect` (`SelInv`) and `BrowserSkipsNothing` (`NothingSkipped`): for any height of
the window, any directories in any order, any filters and keys.  Assumed is only that a
directory has no name twice.  The first half is the scan: `Place` keeps the nearest names
seen so far (`Top`: in order, all of them if they fit, otherwise nothing nearer was dropped),
so `Scan` keeps those of the whole directory, by a smallest number of entries after which it
would not (`ScanTop`, `ScanKeeps`).  The second half is the window.  `Holds` says that it has
what such scans leave on both sides of the reference name.  From it follow, for the index that
CheckIndex and GetEntry use, that names rise with the index (`Sorted`), that none is missing in
between (`Dense`), and that behind an end there is nothing unless the window is full there
(`NothingBehind`).  The inductive invariant `BrowserInv` adds where cursor and first line may
be (`AtCursor`): it excludes the index -Height for the cursor, from which a full window could
not tell whether there is more, and has the one window without a name, the one that is
empty until a scan.  That a page skips no name is `StretchesJoin`: what is visible before
and after are stretches of the names with one in common.  This is the reference name, except
that a page forwards from a full window puts that name on the second line, where the
line before it is the common one (`NeighbourAgain`).

`UploadsCorrect` (`UploadInv`): for any calls, sizes of memory, FIFO, file buffer and room on
the card, waits that time out anywhere and a card that fails at any access.  The one
assumption, `JobsFit`, is what the code takes for granted of a call and never looks at: that
the memory it names is there, that a file repeated over a region fits into it a whole number of
times and is not empty, that a piece of a swizzled file fits into the FIFO and takes something
from the file, that a download names its size.  MCRomMenu checks it of the calls of the run by
an ASSUME; RomMenuOdd, RomMenuEmpty and RomMenuNoSize in section 6 are calls that do not fit.
The property speaks of the end of a call only.  The inductive invariant `CallInv` therefore has
one part for each loop (`Uploading`, `Comparing`, `Swizzling`, `Sending`, `Storing`), nested as
in the code in what the pieces before the current one have left (`Counted`, `Earlier`).  In
each part a byte is followed from the file over the buffer and the FIFO to the address it is for
(`ByteAt`, `Token`), and what is in the three and still to come adds up to where the piece ends
(`Stop`), as long as the card has not failed (`err`).  After a failure a piece ends anywhere;
what is kept is that every byte in memory is the one the file has for it or was not written
(`NoneWrong`, the property's `UploadNoneWrong`).  After a wait that timed out the bytes may be
shifted, so all that is claimed then is where they can go (`KeptOff`) and, in a verification,
that what was compared so far is in memory: it compares with the file again, whatever the upload
did, and that is why a verified upload is right even then (`Compared`).  It is not right if the
card failed: the verification ends where the file cannot be read, and reports no error
(RomMenuCardError in section 6); the property says so, and says that only a swizzled file's
upload tells of it.  The arithmetic of repeated and swizzled files (`OneQuotient`,
`NextMultiple`) is in lemmas of its own.

**Drv08Proofs.**  `CapacityCorrect`: for any media of up to 127 GB (`MediaSized`) the
geometry found at insertion never addresses a sector the medium does not have, and no
command changes that (`CapacityThere`, a part of the run's `Inv`).  `HardfileFits`,
`NakedFits` and `CardFits` do the three calculations; that the loops find something at
all is `FirstFound` and `LargestFound`, from the well-foundedness of the naturals.
`CapacityInv` adds the types of everything that a new size is computed from, because
writes and seeks make images longer.

`TransfersCorrect` (`Inv`) and `RegistersCorrect` (`TaskFileWhileBusy`): for any media,
commands, counts, block and FIFO sizes.  Assumed are media of up to 127 GB, a host that
knows the geometry (`Addressed`), sector numbers for every sector (`RoomAddressed`) and a
host that is in time (`~Slow`; Drv08Fifo in section 6).  The properties say only what was
sent or written; what is inductive is where the command is.  `IInv` says of the running
command that the sectors moved, in the buffer and left make up its count (`CoreInv`,
`LoopInv`), that the CHS and LBA the driver counts side by side are those of the next or
the last sector, depending on the stage (`AdrInv`, `AtInv`), that the file stands there
(`FileInv`), that the registers show the last one (`RegsInv`), that what was moved are the
first sectors of the command in order (`HistInv`) and that the buffer holds those that
follow (`BufInv`).  That counting CHS on agrees with counting LBA on (`Nth`) is a lemma of
its own, by cases on the end of a track and of a cylinder.

**MenuUIProofs.**  `MenuCorrect` (`Inv`), `UsbLocked` (`UsbLocksMenu`), `YesIsDeliberate`
(`NoAccidentalYes`).  Since handlers are operators on records and several run in one
step, the invariant is a predicate on a record (`Good`, with `Ready` before and `Shown`
after drawing), each handler gets a lemma `Good(u) => Good(v)`, and the theorem puts
them together along `MENU_handle_ui`.

`MenusCorrect` (`CfgInv`) and `RomsFoundBeforeReplay` (`RomsBeforeReplay`): for any ini files,
any number of menus, keys and reloads, as long as the ROMs menu is not the last of the ini file
(`~RomsLast`; ConfigMenuRoms in section 6).  The code only ever walks along the list, so
`Listed` is what a walk of at most as many steps as there are objects meets.  The invariant
`MenusInv` says that the list is a sequence s of different objects (`Chain`: both links of
every element and of menu_top), that s has exactly the objects that are menus (`OnList`), and
where the active menu is and what is known of the titles in each part of the program
(`Phase`).  Different objects of a finite heap are no more than there are (`ChainShort`), so
that the walk comes to the end of s and meets all of it (`WalkChain`, `ListedIs`,
`LastTitledIs`).  `AllocMenu` appends to s (`AppendChain`); `Move`, which works through a
pointer to a link, moves an element of s to the last place but one, in the cases first, middle
and neighbour (`MovedChain`).

**ServicesProofs.**  `PrintedCorrect` (`Inv`): for any length of the ring and lines of any
length.  Up to the event that sets `full`, nothing printed is lost, overwritten or sent out of
order.  The event is an overfilling in one of two ways (`Overfills`), each a deviation of the
code (UsartTxLong and UsartTxFull in section 6): behind a barrier that still marks the area
before the one that is sent, or by a line that takes the whole ring from its start.  So the
theorem says that these are the only ways, and that a barrier that is not stale works.  The
invariant `PrintInv` has what holds always (`Shape`: the controller reads inside the ring, and
what is not handed over does not go over its end) and, until then, `Whole`: what is owed is
exactly the contents of the ring behind the write pointer (`Content`), divided into what the
DMA controller sends, what it will send next and what was not handed over (`Parts`), and a
barrier that stands where the current area began has not been passed (`Barred`).  The last is
why the flush at the barrier is needed: `PutcKeeps` has a case for each position of the write
pointer to the barrier, and a character that reaches it leaves the ring to the flush.

`HeapInOrder` (`ListInv`) and `HeapRefines` (`HeapSpec`): for any size of the heap and any
users.  `Listed` is what a walk along the list finds, so nothing can be said about it before
the walk is known to end.  The invariant `HeapInv` therefore says of the *set* L = `Listed`
that its blocks form a ring in address order (`Ring`), that they and the blocks in use tile
the heap (`Tiles`: no overlap and no gap), that no free block touches the next (`Joined`),
and that a call in progress on the C heap can be served (`Served`).  `RingListed` shows once
that a walk along any ring from any of its places sees all of it and comes back: each step
goes farther from where it began (`Dist`), and there are only so many places; the induction
is over a smallest counterexample.  After that a step of the allocator is a change of L,
next and num: `RingUnlink` and `RingInsert`, `TilesJoin`, `SplitSound`, `TilesGrow`.
FreeList_Free inserts a block, joins it upwards and then downwards, and is proved in these
steps (`LinkUp`, `LinkSound`), with `Joined` suspended for the blocks that may touch.
`Served` is there because an amount of memory that sbrk grants on the first try must be
large enough; it is what the bound of `Alloc` leaves to prove.

`KeysCorrect` (`KeyInv`): for any length of the receive ring, any sources that are used
together, and from no assumption.  It says that nothing wrong is returned until the first
`slip`, which is set by the step of the code that mixes something up and not by what the user
does: both at once are fine as long as no sequence of the terminal overwrites a code that is
not whole, the button as long as it is not polled with a code half read, a modifier may be
held as long as the user likes.  Each slip is a deviation in section 6 (KeyboardShared,
KeyboardButton, KeyboardAltEsc, KeyboardHold, KeyboardOverrun).  The invariant is
`slip \/ (KeysTyped /\ PS2Inv /\ SerialInv)`: until then the two halves keep apart
(`KeyboardLeft`).
`KeyInv` says that nothing wrong was returned, which depends on everything that is still on
its way.  `KeysInv` therefore divides the bytes that the decoder has begun and those that the
FPGA holds (`Arriving`) into *pieces*, the presses and releases of keys and the sign that
comes with SysRq, and gives to each piece the place where it begins, the keys that are down
before it, and the number of the event it is owed as (`Laid`).  The flags of the decoder are
the modifiers that counted before the *first* piece, not those that count now, and the last key it
remembers, by which it tells a repetition, is one that is down there (`Recalls`).  The piece
in the buffer is never whole (`Queued`; `BegunDecodes`: a beginning is taken for nothing), or
it is what a cut-off key left (`CutShort`), which goes with the timeout.  `LaidAppend`,
`LaidFirst` and `LaidRest` say how such a division grows and shrinks, and `WholeIs` that a
whole piece is decoded into its event.  For the terminal the division is into keys with one
to five characters (`Strung`), part of them in the ring and part coming.  Which key the first
characters make is certain because no escape sequence begins another (`SequencesDiffer`) and
because the terminal pauses after escape and alt: when the delay is over, the first key is in
the ring and in the copy that is compared (`Waited`), so what matches no sequence is one of
these two (`NoSequence`), and what does match is the first key (`MatchIsFirst`).

Checked by TLC only: liveness and everything that rests on ENABLED, which the prover does
not do (`LoadEnds`, `CardComesBack`, `MenuGoesAway`, `AllocReturns`, `Answered`, `CommandEnds`,
`UploadEnds`, `PrintedIsSent`, `KeysArrive`, and the calls of MassStorage that end).
Every safety invariant that a run checks is a theorem.  General results about folds need
induction over data, which the installed provers cannot instantiate; where a recursive function
is used (the allocator's walk, the walk along the menus, the scan of a directory) the proofs go
by a smallest counterexample instead.

## 6. Where code and comments disagree

Each line below is a change of a configuration under which TLC shows what the code does;
five of them are kept as files (ConfigMenuRoms, Drv08Fifo, ChannelsTwoTapes,
MassStorageFails, KeyboardShared), e.g. `tlc -config Drv08Fifo.cfg MCDrv08`.  They are not
part of the standard runs.  Each checks only the property it names, with the
specification without fairness if that is an invariant.

| name, run it changes | change and property | what the code does |
|---|---|---|
| DrivesReInsert, VirtualDrives | `Drive = {d0, d1}`, `DriverType = {"drv00", "drv01"}`, `ReInsert = TRUE`, no symmetry; `AllFreeAfterEjectAll` | an ini file that mounts a unit twice (config.c:1834, fileio.c:610) loses the first file and descriptor, though main.c:222 says "we must've free _all_ dynamically allocated memory!" |
| MenuUIPopup, MenuUI | `OsdTimeouts = {0}`; `PopupWaits` | with osd_timeout "0 = disabled" (menu.c:1408) the redraw of a popup replaces it by the status screen (menu.c:1430) |
| MenuUIYes, MenuUI | `OsdTimeouts = {2}`; `YesDoesWhatWasAsked` | ESC leaves a popup without clearing the flag of what it asked (menu.c:1325); a later " Reset Target? " only clears `do_reboot`, and its yes runs the first flag `_MENU_update` finds, e.g. hands the card to USB |
| ConfigMenuRoms, ConfigMenu | the file; `RomsBeforeReplay` | "Find 'ROMs' and link it right before the Replay Menu" (config.c:2465) links ROMs to itself if it is there already, and loses the Replay Menu |
| ConfigMenuTargets, ConfigMenu | 5 nodes, `IniLine = {"title", "target"}`; `AllFree` | targets (config.c:1433) are never freed |
| FileSelDelay, RomMenu | `MaxFilter = 2`, `Directory <- FewDirectories`, `Jobs = {}`; `ScanHasDirectory` | the scan 250 ms after a letter (menu.c:1524) also runs when the browser was left or its directory freed by a reload |
| RomMenuEmpty, RomMenu | `Jobs <- EmptyFile`, `CardFails = FALSE`; `UploadEnds` | an empty file with a size given is repeated for ever (config.c:712-731): upload_size is 0 |
| RomMenuOdd, RomMenu | `Jobs <- OddRegion`, `CardFails = FALSE`, INIT RomInit, NEXT RomNext; `UploadInv` | "support splatting a smaller file over a larger memory region" (config.c:711): a region that is no multiple of the file is overrun by the last copy |
| RomMenuNoSize, RomMenu | `Jobs <- NoSize`, `CardFails = FALSE`, INIT and NEXT as above; `UploadInv` | "auto-size does not work here!" (config.c:760) returns without closing the file that was created |
| RomMenuError, RomMenu | `CardFails = FALSE`, INIT and NEXT as above; `ErrorTold` | chunks lost in an upload that is not verified, swizzled pieces, PRG files shorter than their size and a card that is full (fileio.c:345-366) are reported as done |
| RomMenuCardError, RomMenu | `Jobs <- Verified`, `SlowCore = FALSE`, INIT and NEXT as above; `ErrorTold` | the card fails while a file is read or stored: the result of an upload is not looked at, the verification takes a file that cannot be read for one that has ended, and both return 0 (config.c:595 and 720, fileio.c:212-216 and 348-352) |
| RomMenuCrt, RomMenu | `SlowCore = FALSE`, `CardFails = FALSE`, INIT and NEXT as above; `CrtLoads` | a CRT file always ends with "ROM upload to FPGA failed" (menu.c:534), since rc stays 1 (config.c:414) |
| Drv00Burst, Drv00 | `Channels = 1`; `BurstNotTruncated` | the condition "not a truncated read" (fileio_drv00_generic.c:149) looks at the first sector only; a burst can run over the end of the file |
| Drv00Protected, Drv00 | `Channels = 1`; `ProtectedKept` | a read behind the end of an image that is "protected (OSD read only)" (fileio.h:27) makes the file longer (line 106) |
| HardFileIndex, HardFile | `Sizes = {9}`, `Room = 9`, `Lba = {0, ..., 8}`, `Burst = {1}`; `FilePointerRight` | "file size divided by 1024 (index table size)" (fileio_drv08_ata.c:1344) rounds down, so an image a little over a power of two has sectors at index 1024, beyond the table; `Assert(idx < 1024)` (line 288) only prints |
| Drv08Fifo, Drv08 | the file; `FifoFits` | after the 500 ms timeout the burst is sent into a FIFO that is not empty, though "FPGA must be able to sink entire transfer" (fileio_drv08_ata.c:381) |
| Drv08Mbr, Drv08 | `Medium <- CardMedia`, `Address <- CardAddresses`, `Multiple = {3}`; `MbrKept` | "Write to MBR disabled" (fileio_drv08_ata.c:884) compares the first sector only; a write at CHS sector 0 goes on to sector 0 of the card |
| Drv08Large, Drv08 | `Medium <- LargeMedia`, `Room = 524288`, `LbaMod = 1048576`; `PartitionWhole` | the cylinders of an image without an RDB have 16 bits (line 1401): with 256 MB they wrap and the partition loses most of it |
| ChannelsAnswer, Channels | `AlwaysAnswered` | writes to tapes (fileio_drv02_tape.c:418) and to flux images are dropped without an acknowledge |
| ChannelsOdd, Channels | `FluxDisks <- SomeOddDisks`; `Inv` | a flux track at an odd place in the file comes to one byte before the end of a sector and stays there (fileio_drv01_floppy.c:682) |
| ChannelsTwoTapes, Channels | the file; `TapeRight` | the cursor is one static variable (fileio_drv02_tape.c:68): with two tapes the bits of one come from the other |
| ChannelsTwoWriters, Channels | `TapeDrive = {0}`, `FloppyDrive <- TwoChannels`; `WholeSectors` | `write_drive` is compared without the channel (fileio_drv01_floppy.c:735): two channels that write at once mix their sectors |
| ChannelsUnderrun, Channels | `Level = 2`; `WholeSectors` | 540 words are looked for and 541 taken (fileio_drv01_floppy.c:313) |
| ChannelsShort, Channels | `TapeDrive = {0}`, one of `Bad` with `words = BodyWords - 2`; `WholeSectors` | the body is taken without a look for sync words in it (fileio_drv01_floppy.c:338): a broken sector that is short by more than a word takes the beginning of the next one with it |
| KeyboardShared, Terminal | the file; `KeysRight` | keyboard and terminal share one buffer, which a comment there admits |
| KeyboardButton, Terminal | `Users = {{"ps2", "button"}}`, ACTION_CONSTRAINT NoneForgotten; `KeysRight` | the menu button cuts a PS/2 code in two |
| KeyboardAltEsc, Terminal | `Users = {{"serial"}}`, `RxBufLen = 12`, ACTION_CONSTRAINT NoneOverrun; `KeysRight` | ESC ESC leaves a modifier set |
| KeyboardHold, Terminal | `Users = {{"ps2"}}`; `HeldCounts` | a modifier held for longer than 500 ms is forgotten |
| KeyboardOverrun, Terminal | `Users = {{"serial"}}`; `KeysRight` | the receive ring is written without a look whether it is full (hardware/usart.c:42) |
| UsartTxLong, UsartTx (module, Spec) | `BufLen = 6`, `Ids = 8`, `MaxLine = 4`, no deadlock check; `NeverFull` | the barrier is not moved when a next area is queued (hardware/usart.c:157): with lines longer than half of the ring, characters that are being sent are overwritten |
| UsartTxFull, UsartTx (module, Spec) | the same with `MaxLine = 6`; `NeverFull` | a buffer filled exactly has length 0 modulo its size (hardware/usart.c:153) and is not sent |
| MassStorageFails, MassStorage | the file; `FailureTold` | "CSW passed" is sent although the card failed (usb/msc.c:1014) |
| MassStorageStall, MassStorage | `CardFails = FALSE`, `Commands <- UnknownIn`; `InStep` | the stalls for commands that are refused are commented out (usb/msc.c:1131): the host takes the status for data |
| MassStorageLess, MassStorage | `CardFails = FALSE`, `Commands <- LessThanRead`; `InStep` | the device sends what the command says, not what the host has room for |
| MassStorageReset, MassStorage | `CardFails = FALSE`, `ResetAny = TRUE`, `Persists = TRUE`, no deadlock check; `NoCommandStored` | a write that is reset between two blocks stores the next command as data (usb/usb_hardware.c:270) |
| MassStorageHalt, MassStorage | `CardFails = FALSE`, `ClearHalt = TRUE`, no deadlock check; `AlwaysEnds` | a halt that the host clears leaves usb_send waiting |
| MassStorageUnplug, MassStorage | `CardFails = FALSE`, `Stays = FALSE`; `CommandEnds` | an unplugged cable leaves the device, and with it the firmware, in usb_send or usb_recv (usb/usb_hardware.c:205) |

The Keyboard lines change KeyboardShared.cfg, which has the rings and the one more byte of
Terminal.cfg; `NoneForgotten` and `NoneOverrun` leave out the steps of two other lines (the
modifier forgotten, the ring overrun), so that each shows its own.  The MassStorage lines
change MassStorageFails.cfg, which has no resets and no halts.  Two more follow from Geometry
without a run: a partition of 256 sectors has no number of heads that divides it
(`~CardDivides(256)`, fileio_drv08_ata.c:1604) and InsertInit divides by 0; and of the four
entries of the partition table the first is never used (line 1571), because number 0
stands for the whole card.

## 7. Not modelled

Names, texts and drawing; file contents beyond the identity of sectors or bytes; FatFs
itself (third party), whose seek, read and write appear as their effect on a file object;
register set-up of the board, video and clocks; flashing, which runs from RAM and ends in
a reset (its questions are in MenuUI); PTP and CDC; the host and Vidor builds, tests, tools
and separate applications, which share no state with the running firmware.
`prepare_sdcard` and `format_sdcard` are unreachable (their caller is commented out,
main.c:646-655), and the early return of the USB unmount (usb.c:53-57) as well, since
unmounting cannot fail.  The ini parser is a loop over characters without state between
lines but the section; what parsed lines do to memory, menus and drives is in ConfigMenu,
RomLoader and VirtualDrives.  `CFG_save_all` prints lines to a file.

Inside the modelled parts:

* tape: the RAW format (a copy of the file) and inflating; a position is the number of a
  chunk, and lengths whose product with 10 overflows are not considered;
* floppy: the Amiga encoding, of which "the checksums are right" is kept; what a failing
  card does to the data read; images with 0 tracks;
* ATA: the contents of the RDB's blocks beyond where they lie; image sizes that are not
  whole sectors;
* memory channel: FileIO_MCh_Randomize and the launch line; that setting an address drops
  what is left in the FIFO is an assumption about the FPGA, taken from the firmware, which
  waits for nothing before it;
* keyboard: the long press of the flash key, keys forwarded to the core, the release of the
  hot key sent to it; the USB console; terminals slower than 5 ms within a sequence;
* mass storage: endpoint 0 and enumeration, packets of length 0 and packets that do not
  line up with their command, tags, answers longer than what is there;
* SD card: the bytes of commands and their retries, initialisation, and what the card does
  after a stop command failed;
* the early reads from address 0 (menu.c:1154).

Most of the repository's lines are not the firmware's own: the tables of FatFs
(ffunicode.c, ff.c), the FPGA image in hardware_vidor/loader.h, the vendored USB host
stack of the Vidor build, AStyle and miniz among the tools.  They are not modelled, and
they are why the map covers a small share of all lines although it covers most of the
drivers.

## 8. The plan

The order follows what can harm most: data and memory first, then what the user sees.
Done: everything in section 2 and the proofs in section 5.  What is left, in this order:

1. the ini parser as a machine over classes of lines, with the value lists it allocates,
   and `CFG_save_all` with a card that becomes full;
2. initialisation and retries of the SD card, composed with ReplayMain's polls.
