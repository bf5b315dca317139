----------------------------- MODULE ReplayMain -----------------------------
(***************************************************************************)
(* The firmware's main loop (Replay_Boot/main.c) with the parts it drives: *)
(* the SD card and its file system (CFG_update_status, CFG_card_start),    *)
(* the hand-over of the card to a USB host (usb.c), loading of FPGA cores, *)
(* and the virtual drives (module VirtualDrives, instance D).              *)
(*                                                                         *)
(* The firmware is one thread; pc names the part of main() or of           *)
(* main_update() that runs next.  Between any two parts the user may pull  *)
(* or push the card, and a programmer may clear or configure the FPGA.     *)
(* The OSD menu (module MenuUI) appears here only as the calls it makes.   *)
(***************************************************************************)
EXTENDS Naturals

CONSTANTS Channel, Drive, FileObj, DescObj, NULL, DriverType, ReInsert

\* What VirtualDrives assumes of them.
ASSUME HeapAssumption ==
    FileObj \cap DescObj = {} /\ NULL \notin FileObj \cup DescObj
ASSUME DriverAssumption ==
    "drv00" \in DriverType /\ "free" \notin DriverType /\ "file" \notin DriverType
ASSUME ReInsertAssumption == ReInsert \in BOOLEAN

VARIABLES
    handle, fch_driver, mem, fpga, memOK,       \* the virtual drives
    pc,             \* where main() is
    pin_card,       \* the card detect pin
    pin_done,       \* the FPGA's DONE pin
    card_detected, card_init_ok, fs_mounted_ok, usb_mounted,
    fpga_load_ok,   \* which core the firmware believes is running
    changed         \* what main_update saw: card inserted, removed or neither

drives == <<handle, fch_driver, mem, fpga, memOK>>
pins   == <<pin_card, pin_done>>
card   == <<card_detected, card_init_ok, fs_mounted_ok, usb_mounted>>
vars   == <<drives, pc, pins, card, fpga_load_ok, changed>>

D == INSTANCE VirtualDrives

PC == {"eject", "card", "load", "embed", "init", "ini",
       "keys", "poll", "deconf", "wait", "fallback", "process", "reset"}

TypeOK ==
    /\ D!TypeOK
    /\ pc \in PC
    /\ <<pin_card, pin_done>> \in BOOLEAN \X BOOLEAN
    /\ <<card_detected, card_init_ok>> \in BOOLEAN \X BOOLEAN
    /\ <<fs_mounted_ok, usb_mounted>> \in BOOLEAN \X BOOLEAN
    /\ fpga_load_ok \in {"NO_CORE", "CORE_LOADED", "EMBEDDED_CORE"}
    /\ changed \in {"inserted", "removed", "none"}

Init ==
    /\ D!Init
    /\ pc = "eject"
    /\ pin_card \in BOOLEAN /\ pin_done \in BOOLEAN
    /\ card_detected = FALSE /\ card_init_ok = FALSE
    /\ fs_mounted_ok = FALSE /\ usb_mounted = FALSE
    /\ fpga_load_ok = "NO_CORE"
    /\ changed = "none"

-----------------------------------------------------------------------------
(* CFG_card_start, given the detect bit just read.  It returns at once when *)
(* the card is in use; otherwise Card_Init and up to three attempts to      *)
(* mount decide.                                                            *)
CardInUse(detected) ==
    detected /\ ((card_init_ok /\ fs_mounted_ok) \/ usb_mounted)

CardStartKeep(detected) ==
    /\ CardInUse(detected)
    /\ UNCHANGED <<card_init_ok, fs_mounted_ok>>

CardStartGone(detected) ==
    /\ ~detected
    /\ card_init_ok' = FALSE /\ fs_mounted_ok' = FALSE

CardStartFails(detected) ==
    /\ detected /\ ~CardInUse(detected)
    /\ card_init_ok' \in BOOLEAN        \* Card_Init failed, or the mount did
    /\ fs_mounted_ok' = FALSE

CardStartMounts(detected) ==
    /\ detected /\ ~CardInUse(detected)
    /\ card_init_ok' = TRUE /\ fs_mounted_ok' = TRUE

CardStart(detected) ==
    \/ CardStartKeep(detected)
    \/ CardStartGone(detected)
    \/ CardStartFails(detected)
    \/ CardStartMounts(detected)

-----------------------------------------------------------------------------
(* main(): one round of loading a core.                                     *)

\* Mutant: the drives survive a reload of the core.
MainEjectSkipped ==
    /\ pc = "eject" /\ pc' = "card"
    /\ UNCHANGED <<drives, pins, card, fpga_load_ok, changed>>

MainEject ==
    /\ pc = "eject" /\ pc' = "card"
    /\ D!EjectAll
    /\ UNCHANGED <<pins, card, fpga_load_ok, changed>>

MainCard ==
    /\ pc = "card" /\ pc' = "load"
    /\ card_detected' = pin_card
    /\ CardStart(pin_card)
    /\ UNCHANGED <<drives, pins, usb_mounted, fpga_load_ok, changed>>

\* load_core_from_sdcard: only with a file system, and only into an FPGA that
\* is not configured.  A failed load leaves it unconfigured.
LoadFromCard ==
    /\ pc = "load" /\ pc' = "embed"
    /\ \/ /\ fs_mounted_ok /\ ~pin_done
          /\ fpga_load_ok' = "CORE_LOADED" /\ pin_done' = TRUE
       \/ UNCHANGED <<fpga_load_ok, pin_done>>
    /\ UNCHANGED <<drives, pin_card, card, changed>>

\* Mutant: a fallback that fails is tried again instead of fatal.
LoadEmbeddedRetries ==
    /\ pc = "embed"
    /\ IF fpga_load_ok = "NO_CORE" /\ ~pin_done
       THEN \/ /\ pc' = "init"
               /\ fpga_load_ok' = "EMBEDDED_CORE" /\ pin_done' = TRUE
            \/ pc' = "eject" /\ UNCHANGED <<fpga_load_ok, pin_done>>
       ELSE pc' = "init" /\ UNCHANGED <<fpga_load_ok, pin_done>>
    /\ UNCHANGED <<drives, pin_card, card, changed>>

\* load_embedded_core, the fallback.  Success makes the firmware forget a card
\* it could not mount, so that it is seen again as inserted; failure resets
\* the ARM (MSG_fatal_error).
LoadEmbedded ==
    /\ pc = "embed"
    /\ IF fpga_load_ok = "NO_CORE" /\ ~pin_done
       THEN \/ /\ pc' = "init"
               /\ fpga_load_ok' = "EMBEDDED_CORE" /\ pin_done' = TRUE
               /\ card_detected' = fs_mounted_ok
            \/ /\ pc' = "reset"
               /\ UNCHANGED <<fpga_load_ok, pin_done, card_detected>>
       ELSE /\ pc' = "init"
            /\ UNCHANGED <<fpga_load_ok, pin_done, card_detected>>
    /\ UNCHANGED <<drives, pin_card, card_init_ok, fs_mounted_ok, usb_mounted, changed>>

\* The FPGA lost, just now, the configuration that made the fallback unnecessary:
\* main() starts over.
TryAgain ==
    /\ pc = "init" /\ fpga_load_ok = "NO_CORE" /\ ~pin_done
    /\ pc' = "eject"
    /\ UNCHANGED <<drives, pins, card, fpga_load_ok, changed>>

\* init_core and CFG_init: a core that answers gets its drivers set and, if a
\* file system is there, the ini file's mounts; a core that does not answer
\* and the embedded core get neither.
InitCore ==
    /\ pc = "init" /\ (fpga_load_ok # "NO_CORE" \/ pin_done)
    /\ fpga_load_ok' = IF fpga_load_ok = "NO_CORE" THEN "CORE_LOADED" ELSE fpga_load_ok
    /\ \/ /\ fpga_load_ok # "EMBEDDED_CORE"
          /\ D!SetDrivers
          /\ pc' = "ini"
       \/ UNCHANGED drives /\ pc' = "keys"
    /\ UNCHANGED <<pins, card, changed>>

\* FF_Open needs a mounted file system on a card that is there; without one
\* FCh_Insert finds no file.
MountFile(ch, d) ==
    /\ D!FCh_Insert(ch, d)
    /\ handle'[ch][d].ins => fs_mounted_ok /\ pin_card

\* One CHA_MOUNT or CHB_MOUNT line of the ini file.  ReInsert says whether an
\* ini file may name a unit twice.
IniMount ==
    /\ pc = "ini" /\ fs_mounted_ok
    /\ \E ch \in Channel, d \in Drive :
          (handle[ch][d].ins => ReInsert) /\ MountFile(ch, d)
    /\ UNCHANGED <<pc, pins, card, fpga_load_ok, changed>>

IniDone ==
    /\ pc = "ini" /\ pc' = "keys"
    /\ UNCHANGED <<drives, pins, card, fpga_load_ok, changed>>

-----------------------------------------------------------------------------
(* main_update(): one turn of the loop.                                     *)

\* No key, or a key that changes nothing modelled here.
KeyIdle ==
    /\ pc = "keys" /\ pc' = "poll"
    /\ UNCHANGED <<drives, pins, card, fpga_load_ok, changed>>

\* The menu inserts into an empty drive, ejects or protects a drive.  It is
\* out of reach while a USB host has the card (MenuUI, UsbLocksMenu).
KeyDrive ==
    /\ pc = "keys" /\ pc' = "poll" /\ ~usb_mounted
    /\ \E ch \in Channel, d \in Drive :
          \/ ~handle[ch][d].ins /\ MountFile(ch, d)
          \/ handle[ch][d].ins /\ D!FCh_Eject(ch, d)
          \/ D!FCh_TogProtect(ch, d)
    /\ UNCHANGED <<pins, card, fpga_load_ok, changed>>

\* Mutant: the drives keep their files while the host writes the card.
UsbMountUnejected ==
    /\ pc = "keys" /\ pc' = "poll" /\ ~usb_mounted
    /\ fs_mounted_ok' = FALSE /\ usb_mounted' = TRUE
    /\ UNCHANGED <<drives, pins, card_detected, card_init_ok, fpga_load_ok, changed>>

\* USB_MountMassStorage: drives are ejected and the partition unmounted first,
\* if there is one.
KeyUsbMount ==
    /\ pc = "keys" /\ pc' = "poll" /\ ~usb_mounted
    /\ \/ D!EjectAllAndInit                     \* FF_Mounted
       \/ ~fs_mounted_ok /\ UNCHANGED drives    \* not mounted
    /\ fs_mounted_ok' = FALSE /\ usb_mounted' = TRUE
    /\ UNCHANGED <<pins, card_detected, card_init_ok, fpga_load_ok, changed>>

\* USB_UnmountMassStorage: FCh_Init without an eject.
KeyUsbUnmount ==
    /\ pc = "keys" /\ pc' = "poll" /\ usb_mounted
    /\ D!FCh_Init
    /\ usb_mounted' = FALSE
    /\ UNCHANGED <<pins, card_detected, card_init_ok, fs_mounted_ok, fpga_load_ok, changed>>

\* KEY_FLASH, F12, an ini file chosen in the menu: the FPGA is cleared, and
\* the rest of this turn still runs.
KeyReload ==
    /\ pc = "keys" /\ pc' = "poll"
    /\ fpga_load_ok' = "NO_CORE" /\ pin_done' = FALSE
    /\ UNCHANGED <<drives, pin_card, card, changed>>

\* Mutant: the level of the pin instead of its change.
CardChangeLevel == IF pin_card THEN "present" ELSE "none"

CardChange ==
    IF pin_card = card_detected THEN "none"
    ELSE IF pin_card THEN "inserted" ELSE "removed"

\* Mutant: a card that lost its file system is not started again.
PollChangesOnly ==
    /\ pc = "poll" /\ pc' = "deconf"
    /\ card_detected' = pin_card
    /\ changed' = CardChange
    /\ IF changed' # "none" THEN CardStart(pin_card)
       ELSE UNCHANGED <<card_init_ok, fs_mounted_ok>>
    /\ UNCHANGED <<drives, pins, usb_mounted, fpga_load_ok>>

\* CFG_update_status and, when the card came, went or has no file system,
\* CFG_card_start.
Poll ==
    /\ pc = "poll" /\ pc' = "deconf"
    /\ card_detected' = pin_card
    /\ changed' = CardChange
    /\ IF changed' # "none" \/ (pin_card /\ ~fs_mounted_ok /\ ~usb_mounted)
       THEN CardStart(pin_card)
       ELSE UNCHANGED <<card_init_ok, fs_mounted_ok>>
    /\ UNCHANGED <<drives, pins, usb_mounted, fpga_load_ok>>

\* Has the FPGA been cleared by a programmer?  Then wait for it.
CheckDone ==
    /\ pc = "deconf"
    /\ pc' = IF ~pin_done /\ fpga_load_ok # "NO_CORE" THEN "wait" ELSE "fallback"
    /\ UNCHANGED <<drives, pins, card, fpga_load_ok, changed>>

\* Configured again: leave the loop at once.  A removal of the card seen in
\* this turn is dropped; the ejection loop of main() makes up for it.
Reconfigured ==
    /\ pc = "wait" /\ pin_done /\ pc' = "eject"
    /\ fpga_load_ok' = "NO_CORE"
    /\ UNCHANGED <<drives, pins, card, changed>>

\* Mutant: the drives stay when the card goes.
FallbackUnejected ==
    /\ pc = "fallback" /\ pc' = "process"
    /\ UNCHANGED <<drives, pins, fpga_load_ok, card, changed>>

\* The embedded core makes way for a card with a file system; a removed card
\* takes its drives with it.
Fallback ==
    /\ pc = "fallback" /\ pc' = "process"
    /\ IF /\ fpga_load_ok = "EMBEDDED_CORE"
          /\ changed = "inserted" /\ fs_mounted_ok
       THEN fpga_load_ok' = "NO_CORE" /\ pin_done' = FALSE
       ELSE UNCHANGED <<fpga_load_ok, pin_done>>
    /\ IF changed = "removed" THEN D!EjectAllAndInit ELSE UNCHANGED drives
    /\ UNCHANGED <<pin_card, card, changed>>

\* FileIO_FCh_Process: requests of the core are served.
Serve ==
    /\ pc = "process"
    /\ \E ch \in Channel, d \in Drive : D!FCh_Process(ch, d)
    /\ UNCHANGED <<pc, pins, card, fpga_load_ok, changed>>

Turn ==
    /\ pc = "process"
    /\ pc' = IF fpga_load_ok = "NO_CORE" THEN "eject" ELSE "keys"
    /\ changed' = "none"
    /\ UNCHANGED <<drives, pins, card, fpga_load_ok>>

-----------------------------------------------------------------------------
(* The world outside.                                                       *)

CardMoves ==
    /\ pin_card' = ~pin_card
    /\ UNCHANGED <<drives, pc, pin_done, card, fpga_load_ok, changed>>

Programmer ==
    /\ pin_done' = ~pin_done
    /\ UNCHANGED <<drives, pc, pin_card, card, fpga_load_ok, changed>>

\* Everything the firmware does by itself, and cannot do forever without
\* getting on: it leaves out keys, ini lines and requests, which others send.
Progress ==
    \/ MainEject \/ MainCard \/ LoadFromCard \/ LoadEmbedded \/ TryAgain
    \/ InitCore \/ IniDone \/ KeyIdle \/ Poll \/ CheckDone \/ Reconfigured \/ Fallback
    \/ Turn

Next ==
    \/ Progress
    \/ IniMount \/ Serve
    \/ KeyDrive \/ KeyUsbMount \/ KeyUsbUnmount \/ KeyReload
    \/ CardMoves \/ Programmer

\* A poll at which Card_Init and the mount succeed.
PollMounts == Poll /\ ~fs_mounted_ok /\ fs_mounted_ok'

Spec == Init /\ [][Next]_vars

\* The loop is never preempted, so each of its parts is eventually run; a card
\* that can be mounted whenever it is tried is mounted at some try.
FairSpec == Spec /\ WF_vars(Progress) /\ SF_vars(PollMounts)

-----------------------------------------------------------------------------
(* Properties.                                                              *)

\* The main loop, the menu and the USB code call the virtual drives only the
\* way VirtualDrives assumes: nothing is ejected that is not inserted, drivers
\* are not switched and handles not forgotten while a drive is inserted.
DrivesSpec == D!Init /\ [][D!Next]_drives

\* While a USB host has the card, the firmware has no file system mounted, no
\* file open and no drive inserted, whatever reloads and card changes happen.
UsbExclusive ==
    usb_mounted => /\ ~fs_mounted_ok
                   /\ D!NoneInserted
                   /\ \A o \in FileObj : mem[o] = "free"

\* Requests of the core are served, and keys handled, only while every
\* inserted drive is backed by a card that was there at the last poll and by a
\* mounted file system.
ServedHaveCard ==
    pc \in {"keys", "process"} /\ ~D!NoneInserted
        => card_detected /\ fs_mounted_ok

\* Why it holds.  A drive is inserted only over a mounted file system, or
\* where main() is about to eject it; from the ejection loop to the ini file
\* there is none.
Backed ==
    ~D!NoneInserted =>
        \/ fs_mounted_ok /\ pc \notin {"card", "load", "embed", "init", "reset"}
        \/ pc = "eject"
        \/ pc \in {"deconf", "wait", "fallback"} /\ changed = "removed"

\* What holds in every turn of the main loop; a mounted file system is on a
\* card that the firmware believes to be there.
Inv ==
    /\ TypeOK
    /\ ServedHaveCard
    /\ Backed
    /\ fs_mounted_ok => card_detected

\* Loading a core always ends in the main loop or in a reset of the ARM, once
\* the programmer leaves the FPGA alone.
LoadEnds ==
    <>[][~Programmer]_vars => ((pc = "eject") ~> (pc \in {"keys", "reset"}))

\* A card that stays in, is not lent to a USB host and can be mounted is in
\* the end mounted for good, as long as the loop keeps turning: after USB mass
\* storage, after a bad first mount and after a removal alike.
CardComesBack ==
    (<>[](pin_card /\ ~usb_mounted) /\ []<>(pc = "poll")) => <>[]fs_mounted_ok
=============================================================================
