--------------------------- MODULE VirtualDrives ---------------------------
(***************************************************************************)
(* The virtual drives of the firmware (Replay_Boot/fileio.c, the FCh       *)
(* interface): channels of drives, each inserted drive backed by an open   *)
(* file (an FF_FILE on the file system's heap) and a descriptor private to *)
(* the channel's driver (on the C heap).                                   *)
(*                                                                         *)
(* The heaps are a function from object identities to what lives there.    *)
(* An allocation may return any free identity, so a pointer left dangling  *)
(* (Eject and a failed Insert do not clear fSource and pDesc) can come to  *)
(* name the object of another drive.                                       *)
(*                                                                         *)
(* Next is the set of calls the rest of the firmware makes (main.c,        *)
(* menu.c, usb.c, config.c), each under the condition its caller tests.    *)
(***************************************************************************)
EXTENDS Naturals

CONSTANTS
    Channel,        \* the FileIO channels (A and B)
    Drive,          \* the drives of a channel, 0 .. FCH_MAX_NUM-1
    FileObj,        \* identities of the file system's heap
    DescObj,        \* identities of the C heap
    NULL,
    DriverType,     \* the driver types a core may announce
    ReInsert        \* may a drive be inserted that is inserted already?

\* The driver types the switch statements of FCh_Process and FCh_Insert know.
KnownDriver == {"drv00", "drv01", "drv02", "drv08"}

Obj == FileObj \cup DescObj

ASSUME HeapAssumption == FileObj \cap DescObj = {} /\ NULL \notin Obj
ASSUME DriverAssumption ==
    "drv00" \in DriverType /\ "free" \notin DriverType /\ "file" \notin DriverType
ASSUME ReInsertAssumption == ReInsert \in BOOLEAN

VARIABLES
    handle,         \* fch_handle: the status bits and the two pointers
    fch_driver,     \* the driver type of each channel
    mem,            \* what lives at each heap identity
    fpga,           \* the status byte last sent to the FPGA for each channel
    memOK           \* FALSE once a dead or foreign object was freed or used

vars == <<handle, fch_driver, mem, fpga, memOK>>

\* fch_t without the display name; the status byte as its three bits.
Handle == [ins  : BOOLEAN, ro : BOOLEAN, prot : BOOLEAN,
           file : FileObj \cup {NULL}, desc : DescObj \cup {NULL}]

Cell == {"free", "file"} \cup DriverType

TypeOK ==
    /\ handle \in [Channel -> [Drive -> Handle]]
    /\ fch_driver \in [Channel -> DriverType]
    /\ mem \in [Obj -> Cell]
    /\ fpga \in [Channel -> [ins : SUBSET Drive, wr : SUBSET Drive]]
    /\ memOK \in BOOLEAN

-----------------------------------------------------------------------------
Blank == [ins |-> FALSE, ro |-> FALSE, prot |-> FALSE,
          file |-> NULL, desc |-> NULL]

GetInserted(ch, d) == handle[ch][d].ins

NoneInserted == \A ch \in Channel, d \in Drive : ~GetInserted(ch, d)

\* The byte UpdateDriveStatus computes: inserted bits and writable bits.
DriveStatus(h) ==
    [ins |-> {d \in Drive : h[d].ins},
     wr  |-> {d \in Drive : ~(h[d].ro \/ h[d].prot)}]

\* FF_Close tolerates NULL; free is called on a descriptor that is not NULL.
FileLive(p) == p = NULL \/ mem[p] = "file"
DescLive(p, drv) == p # NULL /\ mem[p] = drv
Live(ch, d) == /\ FileLive(handle[ch][d].file)
               /\ DescLive(handle[ch][d].desc, fch_driver[ch])

\* The heap after the objects of the inserted drives in D are released.
Released(D) ==
    [o \in Obj |->
        IF \E p \in D : /\ GetInserted(p[1], p[2])
                        /\ o \in {handle[p[1]][p[2]].file, handle[p[1]][p[2]].desc}
        THEN "free" ELSE mem[o]]

\* No two drives of D would free the same object.
Unshared(D) ==
    \A p, q \in D :
        /\ p # q /\ GetInserted(p[1], p[2]) /\ GetInserted(q[1], q[2])
        => /\ handle[p[1]][p[2]].desc # handle[q[1]][q[2]].desc
           /\ \/ handle[p[1]][p[2]].file # handle[q[1]][q[2]].file
              \/ handle[p[1]][p[2]].file = NULL

\* What Eject leaves of a handle: status cleared, both pointers as they were.
Cleared(x) == [x EXCEPT !.ins = FALSE, !.ro = FALSE, !.prot = FALSE]

\* FILEIO_STAT_PROTECTED is flipped.
Toggled(x) == [x EXCEPT !.prot = ~@]

AllDrives == Channel \X Drive

\* What InsertInit of a driver may answer: did it succeed, did it allocate a
\* descriptor (calloc may fail), did it force the drive read-only (SCP, ISO).
InsertInit(drv, special) ==
    {r \in [ok : BOOLEAN, desc : BOOLEAN, ro : BOOLEAN] :
        /\ r.ok => r.desc
        /\ r.desc => drv \in KnownDriver
        /\ r.desc /\ ~r.ok => drv \in {"drv01", "drv08"}
        /\ r.ro => /\ r.desc /\ ~special
                   /\ drv = "drv08" \/ (drv = "drv01" /\ r.ok)
        /\ special /\ drv = "drv01" => ~r.ok}

-----------------------------------------------------------------------------
Init ==
    /\ handle = [c \in Channel |-> [d \in Drive |-> Blank]]
    /\ fch_driver = [c \in Channel |-> "drv00"]
    /\ mem = [o \in Obj |-> "free"]
    /\ fpga = [c \in Channel |-> [ins |-> {}, wr |-> {}]]
    /\ memOK = TRUE

\* Neither a read-write nor a read-only open succeeds: the drive is left
\* empty but READONLY, and the FPGA is not told.
InsertNoFile(ch, d) ==
    /\ handle' = [handle EXCEPT ![ch][d] = [Blank EXCEPT !.ro = TRUE]]
    /\ UNCHANGED <<fch_driver, mem, fpga, memOK>>

\* The driver's answer r is applied: when it failed, file f and descriptor g
\* are released again and the pointers to them stay in the handle.
InsertResult(ch, d, readonly, f, r, g) ==
    /\ handle' = [handle EXCEPT ![ch][d] =
                     [ins |-> r.ok, ro |-> readonly \/ r.ro, prot |-> FALSE,
                      file |-> f, desc |-> g]]
    /\ mem' = IF r.ok THEN [o \in Obj |-> IF o = f THEN "file"
                                          ELSE IF o = g THEN fch_driver[ch]
                                          ELSE mem[o]]
                      ELSE mem
    /\ fpga' = IF r.ok THEN [fpga EXCEPT ![ch] = DriveStatus(handle'[ch])]
                       ELSE fpga
    /\ UNCHANGED <<fch_driver, memOK>>

\* The file is open (or the path names the card itself, special) and the
\* driver of the channel builds its descriptor.
InsertFile(ch, d, special, readonly) ==
    \E f \in IF special THEN {NULL} ELSE {o \in FileObj : mem[o] = "free"},
       r \in InsertInit(fch_driver[ch], special) :
    \E g \in IF r.desc THEN {o \in DescObj : mem[o] = "free"} ELSE {NULL} :
        InsertResult(ch, d, readonly, f, r, g)

\* The old file and descriptor of the drive, if any, are forgotten.
FCh_Insert(ch, d) ==
    \/ InsertNoFile(ch, d)
    \/ \E readonly \in BOOLEAN : InsertFile(ch, d, FALSE, readonly)
    \/ InsertFile(ch, d, TRUE, FALSE)

FCh_Eject(ch, d) ==
    /\ memOK' = (memOK /\ Live(ch, d))
    /\ mem' = Released({<<ch, d>>})
    /\ handle' = [handle EXCEPT ![ch][d] = Cleared(@)]
    /\ fpga' = [fpga EXCEPT ![ch] = DriveStatus(handle'[ch])]
    /\ UNCHANGED fch_driver

\* Mutant: the FPGA is not told of the new protection.
TogProtectSilent(ch, d) ==
    /\ GetInserted(ch, d)
    /\ handle' = [handle EXCEPT ![ch][d] = Toggled(@)]
    /\ UNCHANGED <<fch_driver, mem, fpga, memOK>>

FCh_TogProtect(ch, d) ==
    /\ GetInserted(ch, d)
    /\ handle' = [handle EXCEPT ![ch][d] = Toggled(@)]
    /\ fpga' = [fpga EXCEPT ![ch] = DriveStatus(handle'[ch])]
    /\ UNCHANGED <<fch_driver, mem, memOK>>

\* A request of the core for drive d: the driver rejects it when the drive is
\* not inserted and works through the file and the descriptor when it is.
FCh_Process(ch, d) ==
    /\ fch_driver[ch] \in KnownDriver
    /\ GetInserted(ch, d)
    /\ memOK' = (memOK /\ Live(ch, d))
    /\ UNCHANGED <<handle, fch_driver, mem, fpga>>

\* The loop over all drives that ejects the inserted ones: what it does to the
\* heap, and what it tells the FPGA.
EjectAllMem ==
    /\ memOK' = (/\ memOK
                 /\ \A p \in AllDrives : GetInserted(p[1], p[2]) => Live(p[1], p[2])
                 /\ Unshared(AllDrives))
    /\ mem' = Released(AllDrives)
    /\ fpga' = [c \in Channel |->
                   IF \E d \in Drive : GetInserted(c, d)
                   THEN DriveStatus([d \in Drive |->
                            IF GetInserted(c, d) THEN Cleared(handle[c][d])
                                                 ELSE handle[c][d]])
                   ELSE fpga[c]]
    /\ UNCHANGED fch_driver

\* main.c before every (re)load of a core.
EjectAll ==
    /\ EjectAllMem
    /\ handle' = [c \in Channel |-> [d \in Drive |->
                     IF GetInserted(c, d) THEN Cleared(handle[c][d])
                                          ELSE handle[c][d]]]

\* The card was removed (main.c) or is handed to the USB host (usb.c): eject
\* everything, then FCh_Init.
EjectAllAndInit ==
    /\ EjectAllMem
    /\ handle' = [c \in Channel |-> [d \in Drive |-> Blank]]

\* FCh_Init on its own (boot, and the end of USB mass storage): it forgets
\* the handles without closing or freeing anything.
FCh_Init ==
    /\ handle' = [c \in Channel |-> [d \in Drive |-> Blank]]
    /\ UNCHANGED <<fch_driver, mem, fpga, memOK>>

\* Mutant: the nibble read from the FPGA is not masked.
SetDriversUnmasked ==
    /\ fpga' = [c \in Channel |-> DriveStatus(handle[c])]
    /\ fch_driver' = [c \in Channel |-> "unmasked"]
    /\ UNCHANGED <<handle, mem, memOK>>

\* CFG_init after a core was loaded: tell the FPGA, then switch drivers.
SetDrivers ==
    /\ fpga' = [c \in Channel |-> DriveStatus(handle[c])]
    /\ fch_driver' \in [Channel -> DriverType]
    /\ UNCHANGED <<handle, mem, memOK>>

-----------------------------------------------------------------------------
(* The calls, each with what its caller makes sure of.  ReplayMain shows    *)
(* that the main loop calls in no other way.                                *)

\* The menu offers a file only for an empty drive; an ini file does not care.
CallInsert(ch, d) == (GetInserted(ch, d) => ReInsert) /\ FCh_Insert(ch, d)

\* Mutant: a caller that does not test GetInserted.
EjectUnchecked(ch, d) == FCh_Eject(ch, d)

CallEject(ch, d) == GetInserted(ch, d) /\ FCh_Eject(ch, d)

\* Mutant: the handles are forgotten while drives are inserted.
InitUnejected == FCh_Init

CallInit == NoneInserted /\ FCh_Init

\* Mutant: the drivers are switched under inserted drives.
SetDriversInserted == SetDrivers

CallSetDrivers == NoneInserted /\ SetDrivers

Next ==
    \/ \E ch \in Channel, d \in Drive :
          \/ CallInsert(ch, d)
          \/ CallEject(ch, d)
          \/ FCh_TogProtect(ch, d)
          \/ FCh_Process(ch, d)
    \/ EjectAll
    \/ EjectAllAndInit
    \/ CallInit
    \/ CallSetDrivers

Spec == Init /\ [][Next]_vars

-----------------------------------------------------------------------------
(* Properties.                                                             *)

\* No file or descriptor is ever freed twice, freed by a drive that does not
\* own it, or used after it was freed: the pointers that Eject and a failed
\* Insert leave dangling are never followed (fileio.c, callers in main.c,
\* menu.c and usb.c test GetInserted first).
MemorySafe == memOK

\* Every inserted drive owns a live file (or none, for the raw card) and a
\* live descriptor of the driver its channel runs, and shares neither.
InsertedOwns ==
    /\ \A ch \in Channel, d \in Drive : GetInserted(ch, d) => Live(ch, d)
    /\ Unshared(AllDrives)

\* Together: what every call of fileio.c keeps, inserting twice included.
DriveInv == TypeOK /\ MemorySafe /\ InsertedOwns

\* Whatever is allocated belongs to an inserted drive, so ejecting all drives
\* frees everything, which main.c relies on before it loads the next core.
NoLeak ==
    \A o \in Obj : mem[o] # "free" =>
        \E ch \in Channel, d \in Drive :
            GetInserted(ch, d) /\ o \in {handle[ch][d].file, handle[ch][d].desc}

\* The FPGA was last told exactly which drives are inserted and, of those,
\* which may be written; handlers that change a drive and return early do not
\* leave it with an outdated byte.
FpgaAgrees ==
    \A ch \in Channel :
        /\ fpga[ch].ins = {d \in Drive : GetInserted(ch, d)}
        /\ \A d \in Drive : GetInserted(ch, d) =>
               (d \in fpga[ch].wr <=> ~(handle[ch][d].ro \/ handle[ch][d].prot))

\* main.c, before loading a core: after the ejection loop all dynamically
\* allocated memory is free.
AllFreeAfterEjectAll == [][EjectAll => \A o \in Obj : mem'[o] = "free"]_vars
=============================================================================
