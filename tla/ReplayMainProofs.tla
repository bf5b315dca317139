-------------------------- MODULE ReplayMainProofs --------------------------
(***************************************************************************)
(* What the main loop promises for any number of channels, drives and heap *)
(* objects: it uses the virtual drives only as VirtualDrives assumes, it   *)
(* serves drives only from a card that is there, and it never shares the   *)
(* card with a USB host.  And what that host is promised, who then has the *)
(* card for himself: the protocol of module MassStorage, and his data.     *)
(***************************************************************************)
EXTENDS ReplayMain, MassStorage, Integers, TLAPS

\* The theorems about the drives, for the drives of this module.  D names
\* VirtualDrives itself; the two speak of the same definitions.
V == INSTANCE VirtualDrivesProofs

LEMMA SameInit == D!Init <=> V!Init
BY DEF D!Init, V!Init, D!Blank, V!Blank, D!Obj, V!Obj

LEMMA SameType == D!TypeOK <=> V!TypeOK
BY DEF D!TypeOK, V!TypeOK, D!Handle, V!Handle, D!Obj, V!Obj, D!Cell, V!Cell

\* The helpers of the calls, then the calls, one by one.
LEMMA SameHelpers ==
    /\ D!Blank = V!Blank /\ D!Obj = V!Obj /\ D!AllDrives = V!AllDrives
    /\ D!NoneInserted <=> V!NoneInserted
    /\ \A ch, d : (D!GetInserted(ch, d) <=> V!GetInserted(ch, d))
    /\ \A ch, d : (D!Live(ch, d) <=> V!Live(ch, d))
    /\ \A S : D!Released(S) = V!Released(S)
    /\ \A S : D!Unshared(S) <=> V!Unshared(S)
    /\ \A h : D!DriveStatus(h) = V!DriveStatus(h)
    /\ \A x : D!Cleared(x) = V!Cleared(x) /\ D!Toggled(x) = V!Toggled(x)
    /\ \A drv, s : D!InsertInit(drv, s) = V!InsertInit(drv, s)
    /\ D!KnownDriver = V!KnownDriver
BY DEF D!Blank, V!Blank, D!Obj, V!Obj, D!AllDrives, V!AllDrives, D!NoneInserted, V!NoneInserted, D!GetInserted, V!GetInserted, D!Live, V!Live, D!FileLive, V!FileLive, D!DescLive, V!DescLive, D!Released, V!Released, D!Unshared, V!Unshared, D!DriveStatus, V!DriveStatus, D!Cleared, V!Cleared, D!Toggled, V!Toggled, D!InsertInit, V!InsertInit, D!KnownDriver, V!KnownDriver

LEMMA SameInsert == \A ch, d : D!CallInsert(ch, d) <=> V!CallInsert(ch, d)
<1>1. \A ch, d : D!InsertNoFile(ch, d) <=> V!InsertNoFile(ch, d)
  BY SameHelpers DEF D!InsertNoFile, V!InsertNoFile
<1>2. \A ch, d, w, f, r, g :
         D!InsertResult(ch, d, w, f, r, g) <=> V!InsertResult(ch, d, w, f, r, g)
  BY SameHelpers DEF D!InsertResult, V!InsertResult
<1>3. \A ch, d, s, w : D!InsertFile(ch, d, s, w) <=> V!InsertFile(ch, d, s, w)
  BY <1>2, SameHelpers DEF D!InsertFile, V!InsertFile
<1> QED BY <1>1, <1>3, SameHelpers DEF D!CallInsert, V!CallInsert, D!FCh_Insert, V!FCh_Insert

LEMMA SameCalls ==
    /\ \A ch, d : D!CallEject(ch, d) <=> V!CallEject(ch, d)
    /\ \A ch, d : D!FCh_TogProtect(ch, d) <=> V!FCh_TogProtect(ch, d)
    /\ \A ch, d : D!FCh_Process(ch, d) <=> V!FCh_Process(ch, d)
    /\ D!CallInit <=> V!CallInit
    /\ D!CallSetDrivers <=> V!CallSetDrivers
<1>1. \A ch, d : D!CallEject(ch, d) <=> V!CallEject(ch, d)
  BY SameHelpers DEF D!CallEject, V!CallEject, D!FCh_Eject, V!FCh_Eject
<1>2. \A ch, d : D!FCh_TogProtect(ch, d) <=> V!FCh_TogProtect(ch, d)
  BY SameHelpers DEF D!FCh_TogProtect, V!FCh_TogProtect
<1>3. \A ch, d : D!FCh_Process(ch, d) <=> V!FCh_Process(ch, d)
  BY SameHelpers DEF D!FCh_Process, V!FCh_Process
<1>4. D!CallInit <=> V!CallInit
  BY SameHelpers DEF D!CallInit, V!CallInit, D!FCh_Init, V!FCh_Init
<1>5. D!CallSetDrivers <=> V!CallSetDrivers
  BY SameHelpers DEF D!CallSetDrivers, V!CallSetDrivers, D!SetDrivers, V!SetDrivers
<1> QED BY <1>1, <1>2, <1>3, <1>4, <1>5

LEMMA SameEject == (D!EjectAll <=> V!EjectAll) /\ (D!EjectAllAndInit <=> V!EjectAllAndInit)
<1>1. D!EjectAllMem <=> V!EjectAllMem
  BY SameHelpers DEF D!EjectAllMem, V!EjectAllMem
<1> QED BY <1>1, SameHelpers DEF D!EjectAll, V!EjectAll, D!EjectAllAndInit, V!EjectAllAndInit

LEMMA SameNext == [D!Next]_drives <=> [V!Next]_(V!vars)
<1>1. D!Next <=> V!Next
  BY SameInsert, SameCalls, SameEject DEF D!Next, V!Next
<1> QED BY <1>1 DEF drives, V!vars

LEMMA SameNoLeak == D!NoLeak <=> V!NoLeak
BY DEF D!NoLeak, V!NoLeak, D!Obj, V!Obj, D!GetInserted, V!GetInserted

-----------------------------------------------------------------------------
(* The drives are used as VirtualDrives assumes.                            *)

\* The facts about the constants that the cited theorems rest on.
LEMMA Assumptions == V!HeapAssumption /\ V!DriverAssumption /\ V!ReInsertAssumption
BY HeapAssumption, DriverAssumption, ReInsertAssumption
   DEF V!HeapAssumption, V!DriverAssumption, V!ReInsertAssumption, V!Obj

\* Inductive: what Inv says, and that a USB host has the card for itself.
Exclusive == usb_mounted => ~fs_mounted_ok /\ D!NoneInserted

MainInv == Inv /\ Exclusive

\* After an ejection of all drives, with or without FCh_Init, and after FCh_Init
\* alone no drive is inserted.
LEMMA NoneAfter ==
    ASSUME D!EjectAll \/ D!EjectAllAndInit \/ D!FCh_Init, D!TypeOK
    PROVE  D!NoneInserted'
<1>1. CASE D!EjectAll
  <2>1. \A x \in D!Handle : ~D!Cleared(x).ins
    BY DEF D!Handle, D!Cleared
  <2>2. \A ch \in Channel, d \in Drive : handle[ch][d] \in D!Handle
    BY DEF D!TypeOK
  <2>3. \A ch \in Channel, d \in Drive :
           handle'[ch][d] = IF handle[ch][d].ins THEN D!Cleared(handle[ch][d])
                                                 ELSE handle[ch][d]
    BY <1>1 DEF D!EjectAll, D!GetInserted
  <2> QED BY <2>1, <2>2, <2>3 DEF D!NoneInserted, D!GetInserted
<1>2. CASE D!EjectAllAndInit
  BY <1>2 DEF D!EjectAllAndInit, D!NoneInserted, D!GetInserted, D!Blank
<1>3. CASE D!FCh_Init
  BY <1>3 DEF D!FCh_Init, D!NoneInserted, D!GetInserted, D!Blank
<1> QED BY <1>1, <1>2, <1>3

\* Mounting a file inserts at most the drive it is for, and that one only from
\* a mounted file system.
LEMMA MountInserts ==
    ASSUME D!TypeOK, NEW ch \in Channel, NEW d \in Drive, MountFile(ch, d),
           ~D!NoneInserted'
    PROVE  ~D!NoneInserted \/ fs_mounted_ok
<1>1. CASE D!InsertNoFile(ch, d)
  BY <1>1 DEF D!InsertNoFile, D!TypeOK, D!NoneInserted, D!GetInserted, D!Blank
<1>2. ASSUME NEW s \in BOOLEAN, NEW w \in BOOLEAN, D!InsertFile(ch, d, s, w)
      PROVE  ~D!NoneInserted \/ fs_mounted_ok
  <2>1. PICK f, r, g : D!InsertResult(ch, d, w, f, r, g)
    BY <1>2 DEF D!InsertFile
  <2>2. \A c \in Channel, x \in Drive :
           ~(c = ch /\ x = d) => handle'[c][x] = handle[c][x]
    BY <2>1 DEF D!InsertResult, D!TypeOK
  <2> QED BY <2>2 DEF MountFile, D!NoneInserted, D!GetInserted
<1> QED BY <1>1, <1>2 DEF MountFile, D!FCh_Insert

\* No key inserts a drive without a file system.
LEMMA KeyInserts ==
    ASSUME D!TypeOK, KeyDrive, ~D!NoneInserted'
    PROVE  ~D!NoneInserted \/ fs_mounted_ok
BY MountInserts
   DEF KeyDrive, D!FCh_Eject, D!FCh_TogProtect, D!NoneInserted, D!GetInserted

\* Every step of the main loop is a call VirtualDrives knows, or none.
LEMMA CallsAllowed == MainInv /\ [Next]_vars => [D!Next]_drives
<1> SUFFICES ASSUME MainInv, [Next]_vars PROVE [D!Next]_drives
  OBVIOUS
<1>1. CASE MainEject
  BY <1>1 DEF MainEject, D!Next
<1>2. CASE MainCard \/ LoadFromCard \/ LoadEmbedded \/ TryAgain
  BY <1>2 DEF MainCard, LoadFromCard, LoadEmbedded, TryAgain, drives
<1>3. CASE InitCore
  <2>1. pc = "init"
    BY <1>3 DEF InitCore
  <2>2. D!NoneInserted
    BY <2>1 DEF MainInv, Inv, Backed
  <2> QED BY <1>3, <2>2 DEF InitCore, D!Next, D!CallSetDrivers, drives
<1>4. CASE IniMount
  BY <1>4 DEF IniMount, MountFile, D!Next, D!CallInsert, D!GetInserted
<1>5. CASE IniDone \/ KeyIdle \/ Poll \/ CheckDone \/ Reconfigured \/ Turn
  BY <1>5 DEF IniDone, KeyIdle, Poll, CheckDone, Reconfigured, Turn, drives
<1>6. CASE KeyDrive
  BY <1>6 DEF KeyDrive, MountFile, D!Next, D!CallInsert, D!CallEject, D!GetInserted
<1>7. CASE KeyUsbMount
  BY <1>7 DEF KeyUsbMount, D!Next, drives
<1>8. CASE KeyUsbUnmount
  <2>1. D!NoneInserted
    BY <1>8 DEF KeyUsbUnmount, MainInv, Exclusive
  <2> QED BY <1>8, <2>1 DEF KeyUsbUnmount, D!Next, D!CallInit
<1>9. CASE KeyReload \/ CardMoves \/ Programmer \/ UNCHANGED vars
  BY <1>9 DEF KeyReload, CardMoves, Programmer, vars, drives
<1>10. CASE Fallback
  BY <1>10 DEF Fallback, D!Next, drives
<1>11. CASE Serve
  BY <1>11 DEF Serve, D!Next
<1> QED BY <1>1, <1>2, <1>3, <1>4, <1>5, <1>6, <1>7, <1>8, <1>9, <1>10, <1>11
        DEF Next, Progress

-----------------------------------------------------------------------------
(* The invariant.                                                           *)

\* What is well typed stays so: the drives by their own theorem, the rest step
\* by step.
LEMMA MainTypes == MainInv /\ [Next]_vars => TypeOK'
<1> SUFFICES ASSUME MainInv, [Next]_vars PROVE TypeOK'
  OBVIOUS
<1>1. D!TypeOK'
  <2>1. [V!Next]_(V!vars)
    BY CallsAllowed, SameNext
  <2>2. V!TypeOK'
    BY <2>1, SameType, Assumptions, V!TypeStep DEF MainInv, Inv, TypeOK
  <2>3. D!TypeOK' <=> V!TypeOK'
    BY DEF D!TypeOK, V!TypeOK, D!Handle, V!Handle, D!Obj, V!Obj, D!Cell, V!Cell
  <2> QED BY <2>2, <2>3
<1> DEFINE Rest ==
      /\ pc \in PC
      /\ pin_card \in BOOLEAN /\ pin_done \in BOOLEAN
      /\ card_detected \in BOOLEAN /\ card_init_ok \in BOOLEAN
      /\ fs_mounted_ok \in BOOLEAN /\ usb_mounted \in BOOLEAN
      /\ fpga_load_ok \in {"NO_CORE", "CORE_LOADED", "EMBEDDED_CORE"}
      /\ changed \in {"inserted", "removed", "none"}
<1>2. ASSUME NEW yes \in BOOLEAN, CardStart(yes)
      PROVE  card_init_ok' \in BOOLEAN /\ fs_mounted_ok' \in BOOLEAN
  BY <1>2 DEF CardStart, CardStartKeep, CardStartGone, CardStartFails, CardStartMounts,
     MainInv, Inv, TypeOK
<1>3. Rest'
  <2>1. Rest
    BY DEF MainInv, Inv, TypeOK
  <2>2. CASE MainEject
    BY <2>1, <2>2 DEF PC, MainEject, pins, card
  <2>3. CASE MainCard
    BY <2>1, <2>3, <1>2 DEF PC, MainCard, pins, card
  <2>4. CASE LoadFromCard
    BY <2>1, <2>4 DEF PC, LoadFromCard, pins, card
  <2>5. CASE LoadEmbedded
    BY <2>1, <2>5 DEF PC, LoadEmbedded, pins, card
  <2>6. CASE TryAgain
    BY <2>1, <2>6 DEF PC, TryAgain, pins, card
  <2>7. CASE InitCore
    BY <2>1, <2>7 DEF PC, InitCore, pins, card
  <2>8. CASE IniMount
    BY <2>1, <2>8 DEF PC, IniMount, pins, card
  <2>9. CASE IniDone
    BY <2>1, <2>9 DEF PC, IniDone, pins, card
  <2>10. CASE KeyIdle
    BY <2>1, <2>10 DEF PC, KeyIdle, pins, card
  <2>11. CASE KeyDrive
    BY <2>1, <2>11 DEF PC, KeyDrive, pins, card
  <2>12. CASE KeyUsbMount
    BY <2>1, <2>12 DEF PC, KeyUsbMount, pins, card
  <2>13. CASE KeyUsbUnmount
    BY <2>1, <2>13 DEF PC, KeyUsbUnmount, pins, card
  <2>14. CASE KeyReload
    BY <2>1, <2>14 DEF PC, KeyReload, pins, card
  <2>15. CASE Poll
    BY <2>1, <2>15, <1>2 DEF PC, Poll, CardChange, pins, card
  <2>16. CASE CheckDone
    BY <2>1, <2>16 DEF PC, CheckDone, pins, card
  <2>17. CASE Reconfigured
    BY <2>1, <2>17 DEF PC, Reconfigured, pins, card
  <2>18. CASE Fallback
    BY <2>1, <2>18 DEF PC, Fallback, pins, card
  <2>19. CASE Serve
    BY <2>1, <2>19 DEF PC, Serve, pins, card
  <2>20. CASE Turn
    BY <2>1, <2>20 DEF PC, Turn, pins, card
  <2>21. CASE CardMoves
    BY <2>1, <2>21 DEF PC, CardMoves, pins, card
  <2>22. CASE Programmer
    BY <2>1, <2>22 DEF PC, Programmer, pins, card
  <2>23. CASE UNCHANGED vars
    BY <2>1, <2>23 DEF vars, pins, card
  <2> QED BY <2>2, <2>3, <2>4, <2>5, <2>6, <2>7, <2>8, <2>9, <2>10, <2>11, <2>12,
             <2>13, <2>14, <2>15, <2>16, <2>17, <2>18, <2>19, <2>20, <2>21, <2>22, <2>23 DEF Next, Progress
<1> QED BY <1>1, <1>3 DEF TypeOK

\* A file system that is mounted is on a card believed to be there.
Known == fs_mounted_ok => card_detected

\* CFG_card_start with the bit just stored leaves it so, and takes no card from
\* a USB host.
LEMMA CardStartKnown ==
    ASSUME MainInv, CardStart(pin_card), card_detected' = pin_card
    PROVE  Known' /\ (usb_mounted => ~fs_mounted_ok')
BY DEF MainInv, Inv, Exclusive, Known, TypeOK, CardStart, CardInUse, CardStartKeep,
       CardStartGone, CardStartFails, CardStartMounts

\* What a step that leaves the drives, pc and the card alone keeps.
LEMMA SameKeeps ==
    ASSUME MainInv, handle' = handle, pc' = pc, changed' = changed, UNCHANGED card
    PROVE  Known' /\ Backed' /\ Exclusive'
BY DEF MainInv, Inv, Known, Backed, Exclusive, D!NoneInserted, D!GetInserted, card

\* The steps of main(), up to the ini file.
LEMMA LoadKeeps ==
    ASSUME MainInv,
           MainEject \/ MainCard \/ LoadFromCard \/ LoadEmbedded \/ TryAgain \/ InitCore
    PROVE  Known' /\ Backed' /\ Exclusive'
<1> USE DEF MainInv, Inv
<1>1. CASE MainEject
  <2>1. D!NoneInserted'
    BY <1>1, NoneAfter DEF MainEject, TypeOK
  <2> QED BY <1>1, <2>1 DEF MainEject, Known, Backed, Exclusive, card
<1>2. CASE MainCard \/ LoadFromCard \/ LoadEmbedded \/ TryAgain \/ InitCore
  <2>1. D!NoneInserted /\ handle' = handle
    BY <1>2 DEF MainCard, LoadFromCard, LoadEmbedded, TryAgain, InitCore, Backed, drives,
       D!SetDrivers
  <2>2. D!NoneInserted' /\ Backed'
    BY <2>1 DEF D!NoneInserted, D!GetInserted, Backed
  <2>3. CASE MainCard
    BY <1>2, <2>2, <2>3, CardStartKnown DEF MainCard, Exclusive
  <2>4. CASE LoadFromCard \/ TryAgain \/ InitCore
    BY <2>2, <2>4 DEF LoadFromCard, TryAgain, InitCore, Known, Exclusive, card
  <2>5. CASE LoadEmbedded
    BY <2>2, <2>5 DEF LoadEmbedded, Known, Exclusive
  <2> QED BY <1>2, <2>2, <2>3, <2>4, <2>5
<1> QED BY <1>1, <1>2

\* The ini file and the keys.
LEMMA KeysKeep ==
    ASSUME MainInv,
           \/ IniMount \/ IniDone \/ KeyIdle
           \/ KeyDrive \/ KeyUsbMount \/ KeyUsbUnmount \/ KeyReload
    PROVE  Known' /\ Backed' /\ Exclusive'
<1> USE DEF MainInv, Inv
<1>1. CASE IniMount
  BY <1>1 DEF IniMount, Known, Backed, Exclusive, card
<1>2. CASE IniDone \/ KeyIdle \/ KeyReload
  BY <1>2 DEF IniDone, KeyIdle, KeyReload, drives, card, Known, Backed, Exclusive,
     D!NoneInserted, D!GetInserted
<1>3. CASE KeyDrive
  <2>1. ~D!NoneInserted' => fs_mounted_ok
    BY <1>3, KeyInserts DEF KeyDrive, TypeOK, Backed
  <2> QED BY <1>3, <2>1 DEF KeyDrive, card, Known, Backed, Exclusive
<1>4. CASE KeyUsbMount
  <2>1. D!NoneInserted'
    <3>1. CASE D!EjectAllAndInit
      BY <3>1, NoneAfter DEF TypeOK
    <3>2. CASE ~fs_mounted_ok /\ UNCHANGED drives
      BY <1>4, <3>2 DEF KeyUsbMount, Backed, drives, D!NoneInserted, D!GetInserted
    <3> QED BY <1>4, <3>1, <3>2 DEF KeyUsbMount
  <2> QED BY <1>4, <2>1 DEF KeyUsbMount, Known, Backed, Exclusive
<1>5. CASE KeyUsbUnmount
  <2>1. D!NoneInserted'
    BY <1>5, NoneAfter DEF KeyUsbUnmount, TypeOK
  <2> QED BY <1>5, <2>1 DEF KeyUsbUnmount, Known, Backed, Exclusive
<1> QED BY <1>1, <1>2, <1>3, <1>4, <1>5

\* The rest of a turn: a removal seen by the poll ejects the drives before the
\* requests of the core are served.
LEMMA PollKeeps ==
    ASSUME MainInv, Poll \/ CheckDone \/ Reconfigured \/ Fallback \/ Serve \/ Turn
    PROVE  Known' /\ Backed' /\ Exclusive'
<1> USE DEF MainInv, Inv
<1>1. CASE Poll
  <2>1. D!NoneInserted' <=> D!NoneInserted
    BY <1>1 DEF Poll, drives, D!NoneInserted, D!GetInserted
  <2>2. CASE CardStart(pin_card)
    <3>1. Known' /\ (usb_mounted => ~fs_mounted_ok')
      BY <1>1, <2>2, CardStartKnown DEF Poll
    <3>2. ~D!NoneInserted => fs_mounted_ok' \/ changed' = "removed"
      BY <1>1, <2>2 DEF Poll, CardChange, Backed, TypeOK, CardStart, CardInUse, CardStartKeep,
         CardStartGone, CardStartFails, CardStartMounts
    <3> QED BY <1>1, <2>1, <3>1, <3>2 DEF Poll, Backed, Exclusive
  <2>3. CASE changed' = "none" /\ UNCHANGED <<card_init_ok, fs_mounted_ok>>
    <3>1. card_detected' = card_detected
      BY <1>1, <2>3 DEF Poll, CardChange
    <3>2. ~D!NoneInserted => fs_mounted_ok
      BY <1>1 DEF Poll, Backed
    <3> QED BY <1>1, <2>1, <2>3, <3>1, <3>2 DEF Poll, Known, Backed, Exclusive
  <2> QED BY <1>1, <2>2, <2>3 DEF Poll
<1>2. CASE CheckDone \/ Reconfigured \/ Turn
  <2>1. D!NoneInserted' <=> D!NoneInserted
    BY <1>2 DEF CheckDone, Reconfigured, Turn, drives, D!NoneInserted, D!GetInserted
  <2> QED BY <1>2, <2>1 DEF CheckDone, Reconfigured, Turn, Known, Backed, Exclusive, card
<1>3. CASE Fallback
  <2>1. CASE changed = "removed"
    <3>1. D!NoneInserted'
      BY <1>3, <2>1, NoneAfter DEF Fallback, TypeOK
    <3> QED BY <1>3, <3>1 DEF Fallback, Known, Backed, Exclusive, card
  <2>2. CASE changed # "removed"
    <3>1. D!NoneInserted' <=> D!NoneInserted
      BY <1>3, <2>2 DEF Fallback, drives, D!NoneInserted, D!GetInserted
    <3> QED BY <1>3, <2>2, <3>1 DEF Fallback, Known, Backed, Exclusive, card
  <2> QED BY <2>1, <2>2
<1>4. CASE Serve
  BY <1>4, SameKeeps DEF Serve, D!FCh_Process
<1> QED BY <1>1, <1>2, <1>3, <1>4

LEMMA MainInit == Init => MainInv
<1> SUFFICES ASSUME Init PROVE MainInv
  OBVIOUS
<1>1. D!TypeOK
  BY SameInit, SameType, Assumptions, V!TypeInit DEF Init
<1>2. D!NoneInserted
  BY DEF Init, D!Init, D!NoneInserted, D!GetInserted, D!Blank
<1> QED BY <1>1, <1>2 DEF Init, MainInv, Inv, TypeOK, PC, ServedHaveCard, Backed, Exclusive

LEMMA MainStep == MainInv /\ [Next]_vars => MainInv'
<1> SUFFICES ASSUME MainInv, [Next]_vars PROVE MainInv'
  OBVIOUS
<1>1. TypeOK'
  BY MainTypes
<1>2. Known' /\ Backed' /\ Exclusive'
  <2>1. CASE CardMoves \/ Programmer \/ UNCHANGED vars
    BY <2>1, SameKeeps DEF CardMoves, Programmer, vars, drives, card
  <2> QED BY <2>1, LoadKeeps, KeysKeep, PollKeeps DEF Next, Progress
<1>3. ServedHaveCard'
  BY <1>2 DEF ServedHaveCard, Known, Backed
<1> QED BY <1>1, <1>2, <1>3 DEF MainInv, Inv, Known

-----------------------------------------------------------------------------
(* The theorems.                                                            *)

\* In every turn of main_update, whatever cards, keys, programmers and cores do,
\* requests are served and keys handled only while each inserted drive is
\* backed by a detected card with a mounted file system (main.c).
THEOREM MainLoop == Spec => []Inv
BY MainInit, MainStep, PTL DEF Spec, MainInv

\* The main loop, the menu and the USB code keep to the rules fileio.c relies
\* on: this specification implements VirtualDrives.
THEOREM DrivesRefined == Spec => DrivesSpec
<1>1. Init => D!Init
  BY DEF Init
<1> QED BY <1>1, MainInit, MainStep, CallsAllowed, PTL DEF Spec, DrivesSpec

\* While a USB host has the card no file system is mounted, no drive inserted
\* and no file open (usb.c), unless an ini file mounts a unit twice.
THEOREM UsbAlone ==
    ASSUME ReInsert = FALSE
    PROVE  Spec => []UsbExclusive
<1>1. V!Spec => []V!NoLeak
  BY Assumptions, V!NothingLeaks
<1>2. MainInv /\ V!NoLeak => UsbExclusive
  BY SameNoLeak DEF MainInv, Exclusive, UsbExclusive, D!NoLeak, D!NoneInserted, D!Obj
<1>3. Spec => V!Spec
  <2>1. Init => V!Init
    BY SameInit DEF Init
  <2>2. MainInv /\ [Next]_vars => [V!Next]_(V!vars)
    BY CallsAllowed, SameNext
  <2> QED BY <2>1, <2>2, MainInit, MainStep, PTL DEF Spec, V!Spec
<1> QED BY <1>1, <1>2, <1>3, MainInit, MainStep, PTL DEF Spec

-----------------------------------------------------------------------------
(* The USB host, who has the card for himself while the main loop leaves it *)
(* alone: what module MassStorage promises him, for any commands, blocks and *)
(* block length.                                                             *)

Cbw == [op : Op, lba : Nat, n : Nat, host : Nat, in : BOOLEAN, v : {0, 1}]
IsSeq(s) == s \in Seq({s[k] : k \in DOMAIN s})

\* The packets of a command's data, and of m blocks.
Whole(c) == (DeviceLength(c) + 1) \div Full
Blocked(m) == m * BlockPackets

\* Types, sharper than MscTypeOK.
TypeInv ==
    /\ MscTypeOK
    /\ phase \in {"idle", "dataIn", "dataOut", "status", "badIn", "badOut", "clear"}
    /\ astray \in BOOLEAN
    /\ IsSeq(tosend) /\ IsSeq(buf) /\ IsSeq(outPipe) /\ IsSeq(got)
    /\ cbw.lba \in Nat /\ cbw.n \in Nat /\ i \in Nat
    /\ failed \in BOOLEAN
    /\ block = [b \in BlockNo |-> block[b]] /\ disk = [b \in BlockNo |-> disk[b]]
    /\ inPipe = Packet(inPipe.kind, inPipe.len, inPipe.load)

\* The driver knows which command the card had last.
CardInv ==
    /\ writeStateActive \in BOOLEAN
    /\ Len(recent) = 2
    /\ FillBetween
    /\ writeStateActive <=> recent[2] = "write"

\* usb_send waits for exactly the packet that is in the FIFO.
Wire ==
    IF busy THEN stage \in {"send", "csw"} /\ (txcomp <=> inPipe = None)
    ELSE inPipe = None /\ ~txcomp

\* Where the device is: done with every command (a status that was taken, even
\* if usb_send has not seen it), in a stall, or at work.
Free == stage = "main" \/ (stage = "csw" /\ tosend = << >> /\ inPipe = None)
Stalled == stage \in {"stallIn", "stallOut"}
Working == ~Free /\ ~Stalled

\* Packet p is the k-th of the data that the command is due.
DueLen(c, k) == IF k * Full <= DeviceLength(c) THEN Full ELSE Short
Due(p, k) ==
    /\ p = Packet("data", DueLen(cmd, k), p.load)
    /\ cmd.op = "read" /\ ~failed => p.load = PacketOf(disk, cmd.lba, k)
    /\ cmd.op = "sense" /\ told = "failed" => p.load[2] # "none"

\* The host counts packets as the device does, and what it got is right.
Talk ==
    /\ cmd \in Cbw /\ Agrees(cmd)
    /\ Len(got) <= Whole(cmd)
    /\ phase = IF Len(got) >= Whole(cmd) THEN "status"
               ELSE IF cmd.in THEN "dataIn" ELSE "dataOut"
    /\ \A k \in 1 .. Len(got) : Due(got[k], k)

\* Packet p, the k-th in the banks of endpoint 2, is the data of a write that is
\* next after what the device took out.
Queued(p, k) ==
    /\ cmd.op = "write" /\ p.kind = "data" /\ p.len = Full
    /\ p.load = Written(cmd, Len(got) - Len(outPipe) + k)

\* A command the device has not seen yet, and the data that follows it.
Opened ==
    /\ Talk
    /\ outPipe # << >> /\ outPipe[1].kind = "cbw" /\ outPipe[1].load = cmd
    /\ Len(outPipe) = Len(got) + 1
    /\ \A k \in 2 .. Len(outPipe) : Queued(outPipe[k], k)

\* Between commands.
FreeInv ==
    /\ tosend = << >> /\ inPipe = None
    /\ block = disk /\ ~failed
    /\ told = "failed" => sense # "none"
    /\ \/ phase = "idle" /\ outPipe = << >>
       \/ phase = "badIn" /\ Len(outPipe) = 1 /\ outPipe[1].kind = "junk"
       \/ Opened

\* After a CBW that is none.
StalledInv ==
    /\ tosend = << >> /\ inPipe = None
    /\ block = disk /\ ~failed
    /\ told = "failed" => sense # "none"
    /\ outPipe = << >>
    /\ phase = IF stage = "stallIn" THEN "badIn" ELSE "badOut"

\* The card during a command: as the host knows it, except for the i blocks that
\* a write has done (all of the command's, when the card failed).
BlockInv ==
    /\ cmd.op # "write" => block = disk
    /\ cmd.op = "write" /\ failed =>
          \A b \in BlockNo : b \in Range(cmd) \/ block[b] = disk[b]
    /\ cmd.op = "write" /\ ~failed =>
          block = [b \in BlockNo |-> IF cmd.lba <= b /\ b < cmd.lba + i THEN Contents(b, cmd.v)
                                     ELSE disk[b]]

Quiet == tosend = << >> /\ inPipe = None

\* Packets of the data handed to usb_send so far.
Handed == Len(got) + (IF inPipe = None THEN 0 ELSE 1) + Len(tosend)

\* The status that is right for the command.
Csw ==
    LET status == IF cmd.op \in {"prevent", "unknown"} THEN "failed" ELSE "passed"
    IN Packet("csw", Short, [status |-> status, residue |-> Residue(cmd)])

\* m packets are gathered, and they are those the host sent from block i on.
Held(m) ==
    /\ Len(buf) = m
    /\ \A k \in 1 .. Len(buf) : buf[k] = Written(cmd, Blocked(i) + k)

\* How far the data is, by where the device is.
AtCommand == i = 0 /\ Quiet /\ Len(got) = Len(outPipe)
AtRead == cmd.op = "read" /\ Quiet /\ Len(got) = Blocked(i) /\ outPipe = << >>
AtSend ==
    /\ cmd.op \in {"fixed", "inquiry", "sense", "read"} /\ outPipe = << >>
    /\ Handed = IF cmd.op = "read" THEN Blocked(i) ELSE Whole(cmd)
    /\ inPipe # None => Due(inPipe, Len(got) + 1)
    /\ \A k \in 1 .. Len(tosend) : Due(tosend[k], Handed - Len(tosend) + k)
AtWrite == cmd.op = "write" /\ Quiet /\ Len(got) = Blocked(i) + Len(outPipe)
AtRecv ==
    /\ cmd.op = "write" /\ Quiet /\ i < cmd.n
    /\ Held(Len(buf)) /\ Len(buf) < Blocked(Pair)
    /\ remaining = Full * (Blocked(Pair) - Len(buf))
    /\ Len(got) = Blocked(i) + Len(buf) + Len(outPipe)
AtStore ==
    /\ cmd.op = "write" /\ Quiet /\ i < cmd.n /\ Held(Blocked(Pair))
    /\ Len(got) = Blocked(i) + Len(buf) + Len(outPipe)
AtStatus ==
    /\ outPipe = << >> /\ Len(got) = Whole(cmd)
    /\ cmd.op = "write" => i = cmd.n

\* While the device works on a command.
WorkInv ==
    /\ cbw = cmd /\ Talk /\ BlockInv
    /\ ~busReset
    /\ \A k \in 1 .. Len(outPipe) : Queued(outPipe[k], k)
    /\ stage = "csw" \/ (told = "failed" => sense # "none")
    /\ stage = "command" => AtCommand
    /\ stage = "read" => AtRead
    /\ stage = "send" => AtSend
    /\ stage = "write" => AtWrite
    /\ stage = "recv" => AtRecv
    /\ stage = "store" => AtStore
    /\ stage = "status" => AtStatus /\ Quiet
    /\ stage = "csw" =>
          /\ AtStatus
          /\ IF inPipe = None THEN tosend = <<Csw>> ELSE tosend = << >> /\ inPipe = Csw
          /\ Csw.load.status = "failed" => sense # "none"

\* While host and device are together.
IInv ==
    /\ TypeInv /\ CardInv /\ Wire
    /\ phase # "clear"
    /\ busReset => stage = "main" /\ phase = "idle"
    /\ Free => FreeInv
    /\ Stalled => StalledInv
    /\ Working => WorkInv

-----------------------------------------------------------------------------
(* Sequences, of whatever they hold.                                         *)
LEMMA SeqEmpty == IsSeq(<< >>) /\ Len(<< >>) = 0
BY DEF IsSeq

\* A list is empty when its length is 0.
LEMMA SeqLen ==
    ASSUME NEW s, IsSeq(s)
    PROVE  Len(s) \in Nat /\ DOMAIN s = 1 .. Len(s) /\ (Len(s) = 0 <=> s = << >>)
<1>1. PICK S : s \in Seq(S) BY DEF IsSeq
<1>2. Len(s) \in Nat /\ DOMAIN s = 1 .. Len(s) BY <1>1
<1>3. s = << >> => Len(s) = 0 BY SeqEmpty
<1>4. Len(s) = 0 => s = << >> BY <1>1
<1> QED BY <1>2, <1>3, <1>4

LEMMA SeqOf ==
    ASSUME NEW n \in Nat, NEW f, f = [k \in 1 .. n |-> f[k]]
    PROVE  IsSeq(f) /\ Len(f) = n
<1> DEFINE S == {f[k] : k \in DOMAIN f}
<1>1. DOMAIN f = 1 .. n OBVIOUS
<1>2. f \in [1 .. n -> S] BY <1>1
<1>3. f \in Seq(S) BY <1>2
<1>4. Len(f) = n BY <1>2, <1>3
<1> QED BY <1>3, <1>4 DEF IsSeq

LEMMA SeqFrom ==
    ASSUME NEW S, NEW s \in Seq(S)
    PROVE  IsSeq(s)
<1>1. Len(s) \in Nat /\ DOMAIN s = 1 .. Len(s) OBVIOUS
<1>2. s = [k \in 1 .. Len(s) |-> s[k]] BY <1>1
<1> QED BY <1>1, <1>2, SeqOf

LEMMA SeqAppend ==
    ASSUME NEW s, IsSeq(s), NEW e
    PROVE  /\ IsSeq(Append(s, e)) /\ Len(Append(s, e)) = Len(s) + 1
           /\ \A k \in 1 .. Len(s) : Append(s, e)[k] = s[k]
           /\ Append(s, e)[Len(s) + 1] = e
           /\ Append(s, e) # << >>
<1>1. PICK S : s \in Seq(S) BY DEF IsSeq
<1> DEFINE T == S \cup {e}
<1>2. s \in Seq(T) BY <1>1
<1>3. e \in T OBVIOUS
<1> HIDE DEF T
<1>4. Append(s, e) \in Seq(T) BY <1>2, <1>3
<1>5. Len(Append(s, e)) = Len(s) + 1 BY <1>2, <1>3
<1>6. \A k \in 1 .. Len(s) : Append(s, e)[k] = s[k] BY <1>2, <1>3
<1>7. Append(s, e)[Len(s) + 1] = e BY <1>2, <1>3
<1>8. Len(s) \in Nat BY <1>1
<1>9. IsSeq(Append(s, e)) BY <1>4, SeqFrom
<1>10. Append(s, e) # << >> BY <1>5, <1>8, SeqEmpty
<1> QED BY <1>9, <1>5, <1>6, <1>7, <1>10

LEMMA SeqTail ==
    ASSUME NEW s, IsSeq(s), s # << >>
    PROVE  /\ IsSeq(Tail(s)) /\ Len(Tail(s)) = Len(s) - 1 /\ Len(s) \in Nat \ {0}
           /\ \A k \in 1 .. Len(Tail(s)) : Tail(s)[k] = s[k + 1]
<1>1. PICK S : s \in Seq(S) BY DEF IsSeq
<1>2. Tail(s) \in Seq(S) BY <1>1
<1>3. Len(Tail(s)) = Len(s) - 1 BY <1>1
<1>4. Len(s) \in Nat \ {0} BY SeqLen
<1>5. \A k \in 1 .. Len(Tail(s)) : Tail(s)[k] = s[k + 1] BY <1>1, <1>3, <1>4
<1>6. IsSeq(Tail(s)) BY <1>2, SeqFrom
<1> QED BY <1>3, <1>4, <1>5, <1>6

LEMMA SeqOne == ASSUME NEW e PROVE IsSeq(<<e>>) /\ Len(<<e>>) = 1 /\ <<e>>[1] = e /\ <<e>> # << >>
<1>1. <<e>> \in Seq({e}) OBVIOUS
<1>2. IsSeq(<<e>>) BY <1>1, SeqFrom
<1>3. Len(<<e>>) = 1 /\ <<e>>[1] = e OBVIOUS
<1> QED BY <1>2, <1>3, SeqEmpty

LEMMA SeqEqual ==
    ASSUME NEW s, NEW t, IsSeq(s), IsSeq(t), Len(s) = Len(t), \A k \in 1 .. Len(s) : s[k] = t[k]
    PROVE  s = t
<1>1. PICK S : s \in Seq(S) BY DEF IsSeq
<1>2. PICK T : t \in Seq(T) BY DEF IsSeq
<1>3. s = [k \in 1 .. Len(s) |-> s[k]] BY <1>1
<1>4. t = [k \in 1 .. Len(t) |-> t[k]] BY <1>2
<1> QED BY <1>3, <1>4
-----------------------------------------------------------------------------
(* Blocks and packets.                                                       *)
LEMMA BlockedNat ==
    ASSUME NEW m \in Nat
    PROVE  Blocked(m) \in Nat /\ Blocked(m + 1) = Blocked(m) + BlockPackets
           /\ (m > 0 => Blocked(m) > 0) /\ Blocked(0) = 0 /\ Blocked(1) = BlockPackets
BY CardAssumption DEF Blocked

LEMMA BlockedSum ==
    ASSUME NEW m \in Nat, NEW l \in Nat
    PROVE  Blocked(m + l) = Blocked(m) + Blocked(l)
BY CardAssumption DEF Blocked

LEMMA BlockedBelow ==
    ASSUME NEW m \in Nat, NEW l \in Nat, m <= l
    PROVE  Blocked(m) <= Blocked(l)
<1>1. PICK d \in Nat : l = m + d
  <2>1. l - m \in Nat OBVIOUS
  <2> QED BY <2>1
<1>2. Blocked(l) = Blocked(m) + Blocked(d) BY <1>1, BlockedSum
<1>3. Blocked(m) \in Nat /\ Blocked(d) \in Nat BY <1>1, BlockedNat
<1> QED BY <1>2, <1>3

\* Blocks are counted by their packets.
LEMMA BlockedSame ==
    ASSUME NEW m \in Nat, NEW l \in Nat, Blocked(m) >= Blocked(l)
    PROVE  m >= l
<1> SUFFICES ASSUME m < l PROVE FALSE OBVIOUS
<1>1. m + 1 <= l OBVIOUS
<1>2. Blocked(m + 1) <= Blocked(l) BY <1>1, BlockedBelow
<1>3. Blocked(m + 1) = Blocked(m) + BlockPackets /\ Blocked(m) \in Nat BY BlockedNat
<1>4. Blocked(l) \in Nat BY BlockedNat
<1> QED BY <1>2, <1>3, <1>4, CardAssumption

LEMMA DivPlace ==
    ASSUME NEW p \in Nat \ {0}, NEW m \in Nat, NEW r \in 0 .. p - 1
    PROVE  (m * p + r) \div p = m /\ ((m * p + r) % p) = r
<1>1. m * p \in Nat OBVIOUS
<1>2. m * p + r \in Nat BY <1>1
<1>3. (m * p + r) \div p = m BY <1>1, <1>2
<1>4. ((m * p + r) % p) = r BY <1>1, <1>2
<1> QED BY <1>3, <1>4

\* Packet k of block m.
LEMMA PacketPlace ==
    ASSUME NEW f, NEW l \in Nat, NEW m \in Nat, NEW k \in 1 .. BlockPackets
    PROVE  PacketOf(f, l, Blocked(m) + k) = f[l + m][k]
<1>1. Blocked(m) \in Nat BY BlockedNat
<1>2. (Blocked(m) + k) - 1 = Blocked(m) + (k - 1) BY <1>1
<1>3. k - 1 \in 0 .. BlockPackets - 1 BY CardAssumption
<1>4. (Blocked(m) + (k - 1)) \div BlockPackets = m /\ ((Blocked(m) + (k - 1)) % BlockPackets) = k - 1
  BY <1>3, DivPlace, CardAssumption DEF Blocked
<1>5. (k - 1) + 1 = k OBVIOUS
<1> QED BY <1>2, <1>4, <1>5 DEF PacketOf
-----------------------------------------------------------------------------
(* Commands.                                                                 *)
LEMMA TwiceBlocked ==
    ASSUME NEW m \in Nat
    PROVE  m * BlockLen = 2 * Blocked(m)
<1>1. m * (2 * BlockPackets) = 2 * (m * BlockPackets) BY CardAssumption
<1> QED BY <1>1 DEF BlockLen, Full, Blocked

LEMMA HalfEven ==
    ASSUME NEW m \in Nat
    PROVE  (2 * m + 1) \div 2 = m /\ ((2 * m) % 2) = 0
OBVIOUS

LEMMA HalfUp ==
    ASSUME NEW m \in Nat
    PROVE  /\ (m + 1) \div 2 \in Nat
           /\ m <= 2 * ((m + 1) \div 2) /\ 2 * ((m + 1) \div 2) <= m + 1
           /\ ((m % 2) # 0 => 2 * ((m + 1) \div 2) = m + 1)
OBVIOUS

\* An odd length is rounded up to a whole packet.
LEMMA Lengths ==
    ASSUME NEW c \in Cbw
    PROVE  /\ DeviceLength(c) \in Nat /\ Whole(c) \in Nat
           /\ DeviceLength(c) <= 2 * Whole(c) /\ 2 * Whole(c) <= DeviceLength(c) + 1
           /\ (DeviceLength(c) % 2) # 0 => 2 * Whole(c) = DeviceLength(c) + 1
<1>1. c.n \in Nat /\ c.op \in Op BY DEF Cbw
<1>2. PICK b : b = BlockLen OBVIOUS
<1>19. PICK p \in Nat : p = Blocked(c.n) BY <1>1, BlockedNat
<1>20. c.n * b = 2 * p BY <1>1, <1>2, <1>19, TwiceBlocked
<1>21. PICK m : m = c.n * b OBVIOUS
<1>22. m \in Nat BY <1>19, <1>20, <1>21
<1>23. c.op \in {"read", "write"} => DeviceLength(c) = m BY <1>2, <1>21 DEF DeviceLength
<1>24. c.op \notin {"read", "write"} => DeviceLength(c) \in {1, c.n, 0} BY DEF DeviceLength, Short
<1>3. DeviceLength(c) \in Nat BY <1>1, <1>22, <1>23, <1>24
<1>4. PICK l \in Nat : l = DeviceLength(c) BY <1>3
<1>5. Whole(c) = (l + 1) \div 2 BY <1>4 DEF Whole, Full
<1>6. l <= 2 * Whole(c) /\ 2 * Whole(c) <= l + 1 /\ Whole(c) \in Nat BY <1>5, HalfUp
<1>7. (l % 2) # 0 => 2 * Whole(c) = l + 1 BY <1>5, HalfUp
<1> QED BY <1>3, <1>4, <1>6, <1>7

\* Blocks are a whole number of packets.
LEMMA BlockLengths ==
    ASSUME NEW c \in Cbw, c.op \in {"read", "write"}
    PROVE  DeviceLength(c) = 2 * Blocked(c.n) /\ Whole(c) = Blocked(c.n) /\ c.n \in Nat
           /\ (DeviceLength(c) % 2) = 0
<1>1. c.n \in Nat BY DEF Cbw
<1>2. DeviceLength(c) = 2 * Blocked(c.n) BY <1>1, TwiceBlocked DEF DeviceLength
<1>3. Blocked(c.n) \in Nat BY <1>1, BlockedNat
<1>4. Whole(c) = Blocked(c.n) BY <1>2, <1>3, HalfEven DEF Whole, Full
<1>5. (DeviceLength(c) % 2) = 0 BY <1>2, <1>3, HalfEven
<1> QED BY <1>1, <1>2, <1>4, <1>5

\* The commands with data for the host.
Ins == {"fixed", "inquiry", "sense", "read"}

\* What agreed means, command by command.
LEMMA Directions ==
    ASSUME NEW c \in Cbw, Agrees(c)
    PROVE  /\ c.op \in Ins => c.in /\ c.host > 0 /\ Whole(c) > 0
           /\ c.op = "write" => ~c.in /\ c.host > 0 /\ Whole(c) > 0 /\ c.n > 0
           /\ c.op \in {"ready", "prevent", "unknown"} => c.host = 0 /\ Whole(c) = 0
           /\ c.op \in Ins \cup {"write", "ready", "prevent", "unknown"}
           /\ c.host \in Nat /\ c.in \in BOOLEAN
           /\ c.host >= DeviceLength(c)
<1>1. c.host \in Nat /\ c.in \in BOOLEAN /\ c.op \in Op /\ c.n \in Nat BY DEF Cbw
<1>2. DeviceLength(c) \in Nat /\ Whole(c) \in Nat BY Lengths
<1>3. DeviceLength(c) <= 2 * Whole(c) /\ 2 * Whole(c) <= DeviceLength(c) + 1
      /\ ((DeviceLength(c) % 2) # 0 => 2 * Whole(c) = DeviceLength(c) + 1) BY Lengths
<1>4. HostWants(c) = DeviceWants(c) BY DEF Agrees
<1>5. c.host = DeviceLength(c) \/ (c.in /\ c.host > DeviceLength(c) /\ (DeviceLength(c) % 2) # 0)
  BY DEF Agrees, Full
<1>6. ASSUME c.op \in Ins PROVE c.in /\ c.host > 0 /\ Whole(c) > 0
  <2>1. DeviceWants(c) = "in" BY <1>6 DEF DeviceWants, Ins
  <2>2. c.host # 0 /\ c.in BY <2>1, <1>4 DEF HostWants
  <2> QED BY <2>2, <1>1, <1>2, <1>3, <1>5
<1>7. ASSUME c.op = "write" PROVE ~c.in /\ c.host > 0 /\ Whole(c) > 0 /\ c.n > 0
  <2>1. DeviceWants(c) = "out" BY <1>7 DEF DeviceWants
  <2>2. c.host # 0 /\ ~c.in BY <2>1, <1>4 DEF HostWants
  <2>3. Whole(c) > 0 BY <2>2, <1>1, <1>2, <1>3, <1>5
  <2>4. Whole(c) = Blocked(c.n) BY <1>7, BlockLengths
  <2>5. c.n > 0 BY <2>3, <2>4, <1>1, BlockedNat
  <2> QED BY <2>2, <2>3, <2>5, <1>1
<1>8. ASSUME c.op \in {"ready", "prevent", "unknown"} PROVE c.host = 0 /\ Whole(c) = 0
  <2>1. DeviceWants(c) = "none" BY <1>8 DEF DeviceWants
  <2>2. c.host = 0 BY <2>1, <1>4, <1>1 DEF HostWants
  <2>3. DeviceLength(c) = 0 BY <1>8 DEF DeviceLength
  <2> QED BY <2>2, <2>3, <1>2, <1>3
<1>9. c.op \in Ins \cup {"write", "ready", "prevent", "unknown"} BY <1>1 DEF Op, Ins
<1>10. c.host >= DeviceLength(c) BY <1>5, <1>1, <1>2
<1> QED BY <1>1, <1>6, <1>7, <1>8, <1>9, <1>10

\* A host knows the last packet of an answer: it is short, or the length is reached.
LEMMA LastPacket ==
    ASSUME NEW c \in Cbw, Agrees(c), NEW k \in 1 .. Whole(c)
    PROVE  /\ c.in => (DueLen(c, k) = Short \/ Full * k >= c.host <=> k >= Whole(c))
           /\ ~c.in => (Full * k >= c.host <=> k >= Whole(c))
           /\ DueLen(c, k) \in {Short, Full}
           /\ k < Whole(c) => DueLen(c, k) = Full
           /\ c.op \in {"read", "write"} => DueLen(c, k) = Full
<1>1. DeviceLength(c) \in Nat /\ Whole(c) \in Nat BY Lengths
<1>2. DeviceLength(c) <= 2 * Whole(c) /\ 2 * Whole(c) <= DeviceLength(c) + 1
      /\ ((DeviceLength(c) % 2) # 0 => 2 * Whole(c) = DeviceLength(c) + 1) BY Lengths
<1>3. c.host = DeviceLength(c) \/ (c.in /\ c.host > DeviceLength(c) /\ (DeviceLength(c) % 2) # 0)
  BY DEF Agrees, Full
<1>4. c.host \in Nat BY Directions
<1>5. k \in Nat /\ k <= Whole(c) BY <1>1
<1>6. (k * 2 <= DeviceLength(c) => DueLen(c, k) = 2) /\ (k * 2 > DeviceLength(c) => DueLen(c, k) = 1)
  BY <1>1, <1>5 DEF DueLen, Full, Short
<1>7. k < Whole(c) => DueLen(c, k) = Full BY <1>5, <1>1, <1>2, <1>6 DEF Full
<1>8. c.op \in {"read", "write"} => DueLen(c, k) = Full
  <2> SUFFICES ASSUME c.op \in {"read", "write"} PROVE DueLen(c, k) = Full OBVIOUS
  <2>1. DeviceLength(c) = 2 * Whole(c) BY BlockLengths
  <2> QED BY <2>1, <1>5, <1>6, <1>1 DEF Full
<1>9. c.in => (DueLen(c, k) = Short \/ Full * k >= c.host <=> k >= Whole(c))
  BY <1>1, <1>2, <1>3, <1>4, <1>5, <1>6 DEF Full, Short
<1>10. ~c.in => (Full * k >= c.host <=> k >= Whole(c))
  BY <1>1, <1>2, <1>3, <1>4, <1>5, <1>6 DEF Full, Short
<1> QED BY <1>6, <1>7, <1>8, <1>9, <1>10, <1>1, <1>5 DEF Full, Short
\* With all packets moved the residue is what was not moved.
LEMMA AllMoved ==
    ASSUME NEW c \in Cbw, Agrees(c), IsSeq(got), Len(got) = Whole(c),
           \A k \in 1 .. Len(got) : got[k].len = DueLen(c, k)
    PROVE  Residue(c) = c.host - Moved
<1>1. DeviceLength(c) \in Nat /\ Whole(c) \in Nat BY Lengths
<1>2. DeviceLength(c) <= 2 * Whole(c) /\ 2 * Whole(c) <= DeviceLength(c) + 1
      /\ ((DeviceLength(c) % 2) # 0 => 2 * Whole(c) = DeviceLength(c) + 1) BY Lengths
<1>3. c.host \in Nat /\ c.host >= DeviceLength(c) BY Directions
<1>4. HostWants(c) = DeviceWants(c) BY DEF Agrees
<1>5. c.op \in Ins \cup {"write"} \/ c.op \in {"ready", "prevent", "unknown"} BY Directions
<1>6. CASE c.op \in {"ready", "prevent", "unknown"}
  <2>1. Residue(c) = c.host
    <3>1. DeviceWants(c) = "none" BY <1>6 DEF DeviceWants
    <3> QED BY <3>1 DEF Residue
  <2>2. c.host = 0 /\ Whole(c) = 0 BY <1>6, Directions
  <2>3. got = << >> BY <2>2, SeqLen
  <2>4. Moved = 0 BY <2>3 DEF Moved
  <2> QED BY <2>1, <2>2, <2>4
<1>7. CASE c.op \in Ins \cup {"write"}
  <2>1. DeviceWants(c) # "none" BY <1>7 DEF DeviceWants, Ins
  <2>2. Residue(c) = c.host - DeviceLength(c) BY <2>1, <1>1, <1>3, <1>4 DEF Residue
  <2>3. Whole(c) > 0 BY <1>7, Directions
  <2>4. got # << >> BY <2>3, <1>1, SeqEmpty
  <2>5. got[Whole(c)].len = DueLen(c, Whole(c)) BY <2>3, <1>1
  <2>6. Moved = 2 * (Whole(c) - 1) + DueLen(c, Whole(c)) BY <2>4, <2>5 DEF Moved, Full
  <2>7. (Whole(c) * 2 <= DeviceLength(c) => DueLen(c, Whole(c)) = 2)
        /\ (Whole(c) * 2 > DeviceLength(c) => DueLen(c, Whole(c)) = 1)
    BY <1>1 DEF DueLen, Full, Short
  <2>8. Moved = DeviceLength(c) BY <2>6, <2>7, <1>1, <1>2, <2>3
  <2> QED BY <2>2, <2>8
<1> QED BY <1>5, <1>6, <1>7
-----------------------------------------------------------------------------
(* The parts of the invariant that every step keeps on its own.              *)
\* CardWrite notes the write, and CardRead waits after one.
LEMMA CardKept ==
    ASSUME CardInv, [MscNext]_mscVars
    PROVE  CardInv'
<1>1. CASE UNCHANGED <<writeStateActive, recent>> BY <1>1 DEF CardInv, FillBetween
<1>2. CASE \E b, data : CardRead(b, data)
  <2>1. PICK b, data : CardRead(b, data) BY <1>2
  <2>2. writeStateActive' = FALSE /\ recent' = IF writeStateActive THEN <<"fill", "read">> ELSE <<recent[2], "read">>
    BY <2>1 DEF CardRead, Accessed
  <2>3. writeStateActive \in BOOLEAN /\ (recent[2] = "write" <=> writeStateActive) BY DEF CardInv
  <2> QED BY <2>2, <2>3 DEF CardInv, FillBetween
<1>3. CASE \E b, data : CardWrite(b, data)
  <2>1. PICK b, data : CardWrite(b, data) BY <1>3
  <2>2. writeStateActive' = TRUE /\ recent' = IF ~writeStateActive THEN <<"fill", "write">> ELSE <<recent[2], "write">>
    BY <2>1 DEF CardWrite, Accessed
  <2>3. writeStateActive \in BOOLEAN /\ (recent[2] = "write" <=> writeStateActive) BY DEF CardInv
  <2> QED BY <2>2, <2>3 DEF CardInv, FillBetween
<1>4. \/ UNCHANGED <<writeStateActive, recent>>
      \/ \E b, data : CardRead(b, data)
      \/ \E b, data : CardWrite(b, data)
  <2>1. CASE UNCHANGED mscVars BY <2>1 DEF mscVars, cardVars
  <2>2. CASE Device
    <3>1. CASE SeeReset BY <3>1 DEF SeeReset, cardVars
    <3>2. CASE PollPacket BY <3>2 DEF PollPacket, Received, cardVars
    <3>3. CASE Recv BY <3>3 DEF Recv, Received, cardVars
    <3>4. CASE Put BY <3>4 DEF Put, cardVars
    <3>5. CASE Sent BY <3>5 DEF Sent, cardVars
    <3>6. CASE Command BY <3>6 DEF Command, cardVars
    <3>7. CASE Read BY <3>7 DEF Read, cardVars
    <3>8. CASE SendDone BY <3>8 DEF SendDone, cardVars
    <3>9. CASE Write BY <3>9 DEF Write, cardVars
    <3>10. CASE Store BY <3>10 DEF Store
    <3>11. CASE ProcessStatus BY <3>11 DEF ProcessStatus, cardVars
    <3>12. CASE StatusDone BY <3>12 DEF StatusDone, cardVars
    <3> QED BY <2>2, <3>1, <3>2, <3>3, <3>4, <3>5, <3>6, <3>7, <3>8, <3>9, <3>10, <3>11, <3>12 DEF Device
  <2>3. CASE Host
    BY <2>3 DEF Host, HostCommand, HostPut, HostTake, HostStatus, HostBad, HostStallIn, HostStallOut,
                Reset, ToDevice, cardVars
  <2> QED BY <2>1, <2>2, <2>3 DEF MscNext
<1> QED BY <1>1, <1>2, <1>3, <1>4

\* What waits to be sent comes from a command in progress.
LEMMA FirstToSend ==
    ASSUME IInv, stage \in {"send", "csw"}, tosend # << >>
    PROVE  tosend[1] # None /\ Working /\ Len(tosend) \in Nat \ {0}
<1>1. Len(tosend) \in Nat \ {0} BY SeqLen DEF IInv, TypeInv
<1>2. Working /\ WorkInv BY <1>1 DEF IInv, Working, Free, Stalled
<1>3. CASE stage = "send"
  <2>1. Due(tosend[1], Handed - Len(tosend) + 1) BY <1>1, <1>2, <1>3 DEF WorkInv, AtSend
  <2>2. tosend[1].kind = "data" BY <2>1 DEF Due, Packet
  <2> QED BY <2>2, <1>1, <1>2 DEF None
<1>4. CASE stage = "csw"
  <2>1. tosend = <<Csw>> BY <1>2, <1>4 DEF WorkInv
  <2>2. tosend[1].kind = "csw" BY <2>1 DEF Csw, Packet
  <2> QED BY <2>2, <1>1, <1>2 DEF None
<1> QED BY <1>3, <1>4

\* No step puts a packet on another, nor takes the answer for it away.
LEMMA WireKept ==
    ASSUME IInv, ~astray', [MscNext]_mscVars
    PROVE  Wire'
<1>0. Wire /\ busy \in BOOLEAN /\ txcomp \in BOOLEAN BY DEF IInv, TypeInv, MscTypeOK
<1>1. CASE UNCHANGED mscVars BY <1>0, <1>1 DEF mscVars, device, bus, Wire
<1>2. CASE Device
  <2>1. CASE SeeReset BY <2>1, <1>0 DEF SeeReset, Wire
  <2>2. CASE PollPacket BY <2>2, <1>0 DEF PollPacket, Received, Wire
  <2>3. CASE Recv BY <2>3, <1>0 DEF Recv, Received, Wire
  <2>4. CASE Put
    <3>1. tosend[1] # None BY <2>4, FirstToSend DEF Put
    <3> QED BY <2>4, <3>1, <1>0 DEF Put, Wire
  <2>5. CASE Sent BY <2>5, <1>0 DEF Sent, Wire
  <2>6. CASE Command BY <2>6, <1>0 DEF Command, Wire, bus
  <2>7. CASE Read BY <2>7, <1>0 DEF Read, Wire, bus
  <2>8. CASE SendDone BY <2>8, <1>0 DEF SendDone, Wire, bus, AllSent
  <2>9. CASE Write BY <2>9, <1>0 DEF Write, Wire, bus
  <2>10. CASE Store BY <2>10, <1>0 DEF Store, Wire, bus
  <2>11. CASE ProcessStatus BY <2>11, <1>0 DEF ProcessStatus, Wire, bus
  <2>12. CASE StatusDone BY <2>12, <1>0 DEF StatusDone, Wire, bus, AllSent
  <2> QED BY <1>2, <2>1, <2>2, <2>3, <2>4, <2>5, <2>6, <2>7, <2>8, <2>9, <2>10, <2>11, <2>12 DEF Device
<1>3. CASE Host
  <2>1. CASE HostCommand BY <2>1, <1>0 DEF HostCommand, ToDevice, device, Wire
  <2>2. CASE HostPut BY <2>2, <1>0 DEF HostPut, ToDevice, device, Wire
  <2>3. CASE HostTake BY <2>3, <1>0 DEF HostTake, TakeIn, device, Wire
  <2>4. CASE HostStatus BY <2>4, <1>0 DEF HostStatus, TakeIn, device, Wire
  <2>5. CASE HostBad BY <2>5, <1>0 DEF HostBad, ToDevice, device, Wire
  <2>6. CASE HostStallIn BY <2>6, <1>0 DEF HostStallIn, bus, Wire
  <2>7. CASE HostStallOut BY <2>7, <1>0 DEF HostStallOut, bus, Wire
  <2>8. CASE Reset BY <2>8, <1>0 DEF Reset, device, Wire
  <2> QED BY <1>3, <2>1, <2>2, <2>3, <2>4, <2>5, <2>6, <2>7, <2>8 DEF Host
<1> QED BY <1>1, <1>2, <1>3 DEF MscNext

\* The host does not wait for endpoint 0.
LEMMA ClearKept ==
    ASSUME IInv, ~astray', [MscNext]_mscVars
    PROVE  (phase # "clear")'
<1>0. phase # "clear" BY DEF IInv
<1>1. CASE UNCHANGED phase BY <1>0, <1>1
<1>2. CASE Device
  BY <1>2, <1>1 DEF Device, SeeReset, PollPacket, Recv, Received, Put, Sent, Command, Read, SendDone, Write,
                    Store, ProcessStatus, StatusDone, host
<1>3. CASE Host
  BY <1>3 DEF Host, HostCommand, HostPut, HostTake, HostStatus, HostBad, HostStallIn, HostStallOut, Reset
<1> QED BY <1>1, <1>2, <1>3 DEF MscNext, mscVars, host

\* The device sees a reset before it sees anything else.
LEMMA ResetKept ==
    ASSUME IInv, ~astray', [MscNext]_mscVars
    PROVE  (busReset => stage = "main" /\ phase = "idle")'
<1>0. busReset => stage = "main" /\ phase = "idle" BY DEF IInv
<1>00. (Free => inPipe = None) /\ (stage = "main" => Free) BY DEF IInv, FreeInv, Free
<1>1. CASE UNCHANGED mscVars BY <1>0, <1>1 DEF mscVars, device, bus, host
<1>2. CASE Device
  <2>1. CASE SeeReset BY <2>1, <1>0 DEF SeeReset
  <2>2. CASE PollPacket BY <2>2, <1>0 DEF PollPacket, Received
  <2>3. CASE Recv BY <2>3, <1>0 DEF Recv, Received
  <2>4. CASE Put BY <2>4, <1>0 DEF Put, host
  <2>5. CASE Sent BY <2>5, <1>0 DEF Sent, host
  <2>6. CASE Command BY <2>6, <1>0 DEF Command, bus
  <2>7. CASE Read BY <2>7, <1>0 DEF Read, bus
  <2>8. CASE SendDone BY <2>8, <1>0 DEF SendDone, bus
  <2>9. CASE Write BY <2>9, <1>0 DEF Write, bus
  <2>10. CASE Store BY <2>10, <1>0 DEF Store, bus
  <2>11. CASE ProcessStatus BY <2>11, <1>0 DEF ProcessStatus, bus
  <2>12. CASE StatusDone BY <2>12, <1>0 DEF StatusDone, bus
  <2> QED BY <1>2, <2>1, <2>2, <2>3, <2>4, <2>5, <2>6, <2>7, <2>8, <2>9, <2>10, <2>11, <2>12 DEF Device
<1>3. CASE Host
  <2>1. CASE HostCommand BY <2>1, <1>0 DEF HostCommand, ToDevice, device
  <2>2. CASE HostPut BY <2>2, <1>0 DEF HostPut, ToDevice, device
  <2>3. CASE HostTake BY <2>3, <1>0, <1>00 DEF HostTake, TakeIn, device
  <2>4. CASE HostStatus BY <2>4, <1>0 DEF HostStatus, TakeIn, device
  <2>5. CASE HostBad BY <2>5, <1>0 DEF HostBad, ToDevice, device
  <2>6. CASE HostStallIn BY <2>6, <1>0 DEF HostStallIn, bus
  <2>7. CASE HostStallOut BY <2>7, <1>0 DEF HostStallOut, bus
  <2>8. CASE Reset BY <2>8, <1>0 DEF Reset, device
  <2> QED BY <1>3, <2>1, <2>2, <2>3, <2>4, <2>5, <2>6, <2>7, <2>8 DEF Host
<1> QED BY <1>1, <1>2, <1>3 DEF MscNext

-----------------------------------------------------------------------------
\* The three cases of where the device is.
LEMMA Settled ==
    ASSUME IInv
    PROVE  /\ stage \in {"command", "read", "send", "recv", "write", "store", "status"} => Working /\ WorkInv
           /\ stage = "main" => Free /\ FreeInv
           /\ Working => WorkInv
           /\ Free => FreeInv
           /\ Stalled => StalledInv
           /\ Free \/ Stalled \/ Working
BY DEF IInv, Free, Stalled, Working

\* The blocks that are received next are of the command.
LEMMA PairFits ==
    ASSUME IInv, stage \in {"write", "recv", "store"}, i < cbw.n
    PROVE  Pair \in 1 .. 2 /\ i + Pair <= cbw.n /\ i \in Nat /\ cbw.n \in Nat
<1>1. i \in Nat /\ cbw.n \in Nat BY DEF IInv, TypeInv
<1> QED BY <1>1 DEF Pair, Lesser

LEMMA CswShape == Csw.kind = "csw" /\ Csw # None /\ Csw = Packet(Csw.kind, Csw.len, Csw.load)
                  /\ Csw.load.status \in {"passed", "failed"}
<1>1. Csw.kind = "csw" BY DEF Csw, Packet
<1>2. Csw.kind # None.kind BY <1>1 DEF None
<1>3. Csw.load.status \in {"passed", "failed"} BY DEF Csw, Packet
<1> QED BY <1>1, <1>2, <1>3 DEF Csw, Packet

\* A host that waits for a status finds the right one.
LEMMA CsWait ==
    ASSUME IInv, inPipe # None, phase = "status"
    PROVE  inPipe = Csw /\ stage = "csw" /\ Working /\ WorkInv
<1>1. stage \in {"send", "csw"} BY DEF IInv, Wire
<1>2. Working BY <1>1 DEF Working, Free, Stalled
<1>3. WorkInv BY <1>2, Settled
<1>4. stage # "send"
  <2> SUFFICES ASSUME stage = "send" PROVE FALSE OBVIOUS
  <2>1. AtSend /\ Talk BY <1>3 DEF WorkInv
  <2>2. cmd \in Cbw /\ Agrees(cmd) /\ Len(got) <= Whole(cmd) BY <2>1 DEF Talk
  <2>3. Whole(cmd) \in Nat /\ Len(got) \in Nat /\ Len(tosend) \in Nat
    BY <2>2, Lengths, SeqLen DEF IInv, TypeInv
  <2>4. Handed = Len(got) + 1 + Len(tosend) BY DEF Handed
  <2>5. Handed <= Whole(cmd)
    <3>1. CASE cmd.op # "read" BY <3>1, <2>1, <2>3 DEF AtSend
    <3>2. CASE cmd.op = "read"
      <4>1. Handed = Blocked(i) BY <3>2, <2>1 DEF AtSend
      <4>2. i \in Nat /\ i <= cmd.n /\ cmd.n \in Nat BY <1>3 DEF IInv, TypeInv, MscTypeOK, WorkInv
      <4>3. Blocked(i) <= Blocked(cmd.n) BY <4>2, BlockedBelow
      <4> QED BY <4>1, <4>3, <3>2, <2>2, BlockLengths
    <3> QED BY <3>1, <3>2
  <2>6. Len(got) < Whole(cmd) BY <2>3, <2>4, <2>5
  <2>7. phase # "status" BY <2>6, <2>1, <2>3 DEF Talk
  <2> QED BY <2>7
<1>5. stage = "csw" BY <1>1, <1>4
<1> QED BY <1>2, <1>3, <1>5 DEF WorkInv

\* What usb_recv takes is what the device waits for.
LEMMA FirstIs ==
    ASSUME IInv, Received
    PROVE  /\ stage = "main" => \/ (first.kind = "cbw" /\ first.load = cmd /\ Opened)
                              \/ (first.kind = "junk" /\ Len(outPipe) = 1 /\ phase = "badIn")
           /\ stage = "recv" => Queued(first, 1)
           /\ Len(outPipe) \in Nat \ {0}
<1>1. Len(outPipe) \in Nat \ {0} BY SeqLen DEF Received, IInv, TypeInv
<1>2. ASSUME stage = "main" PROVE (first.kind = "cbw" /\ first.load = cmd /\ Opened)
                                  \/ (first.kind = "junk" /\ Len(outPipe) = 1 /\ phase = "badIn")
  BY <1>2, Settled DEF FreeInv, Opened, Received, first
<1>3. ASSUME stage = "recv" PROVE Queued(first, 1)
  BY <1>1, <1>3, Settled DEF WorkInv, first
<1> QED BY <1>1, <1>2, <1>3

LEMMA PutShape ==
    ASSUME IInv, stage \in {"send", "csw"}, tosend # << >>
    PROVE  tosend[1] = Packet(tosend[1].kind, tosend[1].len, tosend[1].load)
<1>1. Len(tosend) \in Nat \ {0} /\ Working /\ WorkInv BY FirstToSend, Settled
<1>3. CASE stage = "send"
  <2>1. Due(tosend[1], Handed - Len(tosend) + 1) BY <1>1, <1>3 DEF WorkInv, AtSend
  <2> QED BY <2>1 DEF Due, Packet
<1>4. CASE stage = "csw"
  <2>1. tosend = <<Csw>> BY <1>1, <1>4 DEF WorkInv
  <2>2. tosend[1] = Csw BY <2>1
  <2> QED BY <2>2, CswShape
<1> QED BY <1>3, <1>4

-----------------------------------------------------------------------------
\* TypeInv in three parts.
Plain ==
    /\ stage \in {"main", "command", "read", "send", "recv", "write", "store", "status", "csw",
               "stallIn", "stallOut"}
    /\ busy \in BOOLEAN /\ txcomp \in BOOLEAN /\ busReset \in BOOLEAN
    /\ recvbank \in {0, 1} /\ fillbank \in {0, 1}
    /\ phase \in {"idle", "dataIn", "dataOut", "status", "badIn", "badOut", "clear"}
    /\ astray \in BOOLEAN /\ failed \in BOOLEAN
    /\ block = [b \in BlockNo |-> block[b]] /\ disk = [b \in BlockNo |-> disk[b]]
Lists == IsSeq(tosend) /\ IsSeq(buf) /\ IsSeq(outPipe) /\ IsSeq(got)
Values ==
    /\ cbw.op \in Op /\ cbw.lba \in Nat /\ cbw.n \in Nat /\ i \in 0 .. cbw.n /\ remaining \in Nat
    /\ sense \in {"none", "illegal", "recovered"}
    /\ told \in {"passed", "failed", "phase", "garbled"}
    /\ inPipe = Packet(inPipe.kind, inPipe.len, inPipe.load)

\* The form of the packets on both pipes.
Statuses == {"passed", "failed", "phase"}
Sendable(p) ==
    p = Packet(p.kind, p.len, p.load) /\ (p.kind = "csw" => p.load.status \in Statuses)
OutShapes ==
    \A k \in DOMAIN outPipe :
        outPipe[k].len \in {1, 2} /\ (outPipe[k].kind = "cbw" => outPipe[k].load \in Cbw)
InShapes == (\A k \in DOMAIN tosend : Sendable(tosend[k])) /\ Sendable(inPipe)

\* What a stage tells of the lists and the count.
Stages ==
    /\ stage \in {"recv", "store"} => i < cbw.n
    /\ stage \notin {"send", "csw"} => tosend = << >> /\ busy = FALSE
Shapes == OutShapes /\ InShapes /\ Stages

\* What holds of any host, astray or not.
Always == TypeInv /\ CardInv /\ Shapes

LEMMA DataSendable ==
    ASSUME NEW l, NEW d
    PROVE  Sendable(Packet("data", l, d))
<1>1. PICK p : p = Packet("data", l, d) OBVIOUS
<1>2. p.kind = "data" /\ p.len = l /\ p.load = d BY <1>1 DEF Packet
<1> QED BY <1>1, <1>2 DEF Sendable

LEMMA TypeSplit == TypeInv <=> Plain /\ Lists /\ Values
<1>1. Plain /\ Lists /\ Values => TypeInv BY DEF TypeInv, MscTypeOK, Plain, Lists, Values
<1>2. TypeInv => Plain /\ Lists /\ Values BY DEF TypeInv, MscTypeOK, Plain, Lists, Values
<1> QED BY <1>1, <1>2

\* Each part is kept.
LEMMA PlainKept ==
    ASSUME Plain, [MscNext]_mscVars
    PROVE  Plain'
<1>1. CASE UNCHANGED mscVars BY <1>1 DEF mscVars, device, bus, host, cardVars, Plain
<1>2. CASE Device
  <2>1. CASE SeeReset BY <2>1 DEF SeeReset, Plain, host, cardVars
  <2>2. CASE PollPacket BY <2>2 DEF PollPacket, Received, Plain, host, cardVars
  <2>3. CASE Recv BY <2>3 DEF Recv, Received, Plain, host, cardVars
  <2>4. CASE Put BY <2>4 DEF Put, Plain, host, cardVars
  <2>5. CASE Sent BY <2>5 DEF Sent, Plain, host, cardVars
  <2>6. CASE Command
    <3>1. stage' \in {"send", "read", "write", "status"} BY <2>6 DEF Command, Send
    <3> QED BY <2>6, <3>1 DEF Command, Plain, bus, host, cardVars
  <2>7. CASE Read
    <3>1. stage' \in {"send", "status"} /\ failed' \in BOOLEAN BY <2>7 DEF Read, Send, CardRead, Plain, cardVars
    <3>2. UNCHANGED block BY <2>7 DEF Read, CardRead, cardVars
    <3> QED BY <2>7, <3>1, <3>2 DEF Read, Plain, bus, host
  <2>8. CASE SendDone BY <2>8 DEF SendDone, Plain, bus, host, cardVars
  <2>9. CASE Write BY <2>9 DEF Write, Plain, bus, host, cardVars
  <2>10. CASE Store
    <3>1. \E x : block' = [b \in BlockNo |-> x[b]]
      <4>1. \E l, d : block' = Stored(l, d) BY <2>10 DEF Store, CardWrite
      <4>2. PICK l, d : block' = Stored(l, d) BY <4>1
      <4>3. block' = [b \in BlockNo |-> Stored(l, d)[b]] BY <4>2 DEF Stored
      <4> QED BY <4>3
    <3>2. block' = [b \in BlockNo |-> block'[b]] BY <3>1
    <3>3. failed' \in BOOLEAN BY <2>10 DEF Store, CardWrite, Plain
    <3> QED BY <2>10, <3>2, <3>3 DEF Store, Plain, bus, host
  <2>11. CASE ProcessStatus BY <2>11 DEF ProcessStatus, Plain, bus, host, cardVars, Send
  <2>12. CASE StatusDone BY <2>12 DEF StatusDone, Plain, bus, host, cardVars
  <2> QED BY <1>2, <2>1, <2>2, <2>3, <2>4, <2>5, <2>6, <2>7, <2>8, <2>9, <2>10, <2>11, <2>12 DEF Device
<1>3. CASE Host
  <2>1. CASE HostCommand
    <3>1. phase' \in {"status", "dataIn", "dataOut"} BY <2>1 DEF HostCommand
    <3>2. fillbank' = 1 - fillbank /\ UNCHANGED <<stage, busy, txcomp, busReset, recvbank, failed, block, disk>>
      BY <2>1 DEF HostCommand, ToDevice, device, cardVars
    <3>3. astray' \in BOOLEAN BY <2>1 DEF HostCommand
    <3> QED BY <3>1, <3>2, <3>3 DEF Plain
  <2>2. CASE HostPut BY <2>2 DEF HostPut, ToDevice, device, Plain, cardVars
  <2>3. CASE HostTake BY <2>3 DEF HostTake, TakeIn, device, Plain, cardVars
  <2>4. CASE HostStatus
    <3>1. disk' = [b \in BlockNo |-> disk'[b]]
      <4>1. \E x : disk' = [b \in BlockNo |-> x[b]]
        <5>1. CASE failed BY <5>1, <2>4 DEF HostStatus, HostKnows, Plain
        <5>2. CASE ~failed
          <6>1. HostKnows(cmd) = [b \in BlockNo |-> HostKnows(cmd)[b]] BY <5>2 DEF HostKnows
          <6> QED BY <6>1, <2>4 DEF HostStatus
        <5> QED BY <5>1, <5>2
      <4> QED BY <4>1
    <3> QED BY <2>4, <3>1 DEF HostStatus, TakeIn, device, Plain
  <2>5. CASE HostBad BY <2>5 DEF HostBad, ToDevice, device, Plain, cardVars
  <2>6. CASE HostStallIn
    <3>1. phase' \in {"clear", "badOut"} BY <2>6 DEF HostStallIn
    <3>2. astray' \in BOOLEAN BY <2>6 DEF HostStallIn, Plain
    <3> QED BY <2>6, <3>1, <3>2 DEF HostStallIn, bus, Plain, cardVars
  <2>7. CASE HostStallOut BY <2>7 DEF HostStallOut, bus, Plain, cardVars
  <2>8. CASE Reset BY <2>8 DEF Reset, device, Plain
  <2> QED BY <1>3, <2>1, <2>2, <2>3, <2>4, <2>5, <2>6, <2>7, <2>8 DEF Host
<1> QED BY <1>1, <1>2, <1>3 DEF MscNext

\* The answers are due packet for packet.
LEMMA AnswerSeq ==
    ASSUME NEW c, c.op \in {"fixed", "inquiry", "sense"}, c.n \in Nat
    PROVE  /\ IsSeq(Answer(c)) /\ Len(Answer(c)) = Whole(c) /\ Whole(c) \in Nat
           /\ \A k \in 1 .. Whole(c) :
                 /\ Answer(c)[k] = Packet("data", DueLen(c, k), Answer(c)[k].load)
                 /\ c.op = "sense" => Answer(c)[k].load = <<"sense", sense>>
<1>1. DeviceLength(c) \in Nat BY DEF DeviceLength, Short
<1>2. Whole(c) \in Nat BY <1>1, HalfUp DEF Whole, Full
<1>3. Answer(c) = [k \in 1 .. Whole(c) |->
         Packet("data", DueLen(c, k), IF c.op = "sense" THEN <<"sense", sense>> ELSE <<c.op>>)]
  BY DEF Answer, Whole, DueLen
<1>4. Answer(c) = [k \in 1 .. Whole(c) |-> Answer(c)[k]] BY <1>3
<1>5. IsSeq(Answer(c)) /\ Len(Answer(c)) = Whole(c) BY <1>2, <1>4, SeqOf
<1>6. ASSUME NEW k \in 1 .. Whole(c)
      PROVE  Answer(c)[k] = Packet("data", DueLen(c, k), Answer(c)[k].load)
             /\ (c.op = "sense" => Answer(c)[k].load = <<"sense", sense>>)
  <2>1. Answer(c)[k] = Packet("data", DueLen(c, k), IF c.op = "sense" THEN <<"sense", sense>> ELSE <<c.op>>)
    BY <1>3
  <2>2. Answer(c)[k].load = IF c.op = "sense" THEN <<"sense", sense>> ELSE <<c.op>>
    BY <2>1 DEF Packet
  <2> QED BY <2>1, <2>2
<1> QED BY <1>2, <1>5, <1>6

LEMMA ListsKept ==
    ASSUME Lists, Values, [MscNext]_mscVars
    PROVE  Lists'
<1>0. IsSeq(tosend) /\ IsSeq(buf) /\ IsSeq(outPipe) /\ IsSeq(got) BY DEF Lists
<1>1. CASE UNCHANGED mscVars BY <1>1 DEF mscVars, device, bus, host, Lists
<1>2. CASE Device
  <2>1. CASE SeeReset BY <2>1 DEF SeeReset, Lists, host
  <2>2. CASE PollPacket
    <3>1. IsSeq(outPipe') BY <2>2, <1>0, SeqTail DEF PollPacket, Received
    <3> QED BY <2>2, <3>1 DEF PollPacket, Received, Lists, host
  <2>3. CASE Recv
    <3>1. IsSeq(outPipe') BY <2>3, <1>0, SeqTail DEF Recv, Received
    <3>2. IsSeq(buf') BY <2>3, <1>0, SeqAppend DEF Recv
    <3> QED BY <2>3, <3>1, <3>2 DEF Recv, Received, Lists, host
  <2>4. CASE Put
    <3>1. IsSeq(tosend') BY <2>4, <1>0, SeqTail DEF Put
    <3> QED BY <2>4, <3>1 DEF Put, Lists, host
  <2>5. CASE Sent BY <2>5 DEF Sent, Lists, host
  <2>6. CASE Command
    <3>1. IsSeq(tosend')
      <4>1. CASE tosend' = tosend BY <4>1, <1>0
      <4>2. CASE tosend' = Answer(cbw) /\ cbw.op \in {"fixed", "inquiry", "sense"}
        <5>1. cbw.n \in Nat BY DEF Values
        <5> QED BY <4>2, <5>1, AnswerSeq
      <4> QED BY <2>6, <4>1, <4>2 DEF Command, Send
    <3> QED BY <2>6, <3>1 DEF Command, Lists, bus, host
  <2>7. CASE Read
    <3>1. IsSeq(tosend')
      <4>1. CASE tosend' = tosend BY <4>1, <1>0
      <4>2. CASE \E data : tosend' = [k \in 1 .. BlockPackets |-> Packet("data", Full, data[k])]
        <5>1. PICK data : tosend' = [k \in 1 .. BlockPackets |-> Packet("data", Full, data[k])] BY <4>2
        <5>2. BlockPackets \in Nat BY CardAssumption
        <5>3. tosend' = [k \in 1 .. BlockPackets |-> tosend'[k]] BY <5>1
        <5> QED BY <5>2, <5>3, SeqOf
      <4> QED BY <2>7, <4>1, <4>2 DEF Read, Send
    <3> QED BY <2>7, <3>1 DEF Read, Lists, bus, host
  <2>8. CASE SendDone BY <2>8 DEF SendDone, Lists, bus, host
  <2>9. CASE Write
    <3>1. IsSeq(buf') BY <2>9, <1>0, SeqEmpty DEF Write
    <3> QED BY <2>9, <3>1 DEF Write, Lists, bus, host
  <2>10. CASE Store BY <2>10 DEF Store, Lists, bus, host
  <2>11. CASE ProcessStatus
    <3>1. \E e : tosend' = <<e>> BY <2>11 DEF ProcessStatus, Send
    <3>2. IsSeq(tosend') BY <3>1, SeqOne
    <3> QED BY <2>11, <3>2 DEF ProcessStatus, Lists, bus, host
  <2>12. CASE StatusDone BY <2>12 DEF StatusDone, Lists, bus, host
  <2> QED BY <1>2, <2>1, <2>2, <2>3, <2>4, <2>5, <2>6, <2>7, <2>8, <2>9, <2>10, <2>11, <2>12 DEF Device
<1>3. CASE Host
  <2>0. ASSUME NEW a, NEW b, NEW c, ToDevice(a, b, c) PROVE IsSeq(outPipe') /\ UNCHANGED <<tosend, buf>>
    BY <2>0, <1>0, SeqAppend DEF ToDevice, device
  <2>1. CASE HostCommand
    <3>1. \E a, b, c : ToDevice(a, b, c) BY <2>1 DEF HostCommand
    <3>2. IsSeq(got') BY <2>1, SeqEmpty DEF HostCommand
    <3> QED BY <3>1, <3>2, <2>0 DEF Lists
  <2>2. CASE HostPut
    <3>1. \E a, b, c : ToDevice(a, b, c) BY <2>2 DEF HostPut
    <3>2. IsSeq(got') BY <2>2, <1>0, SeqAppend DEF HostPut
    <3> QED BY <3>1, <3>2, <2>0 DEF Lists
  <2>3. CASE HostTake
    <3>2. IsSeq(got') BY <2>3, <1>0, SeqAppend DEF HostTake
    <3> QED BY <2>3, <3>2 DEF HostTake, TakeIn, device, Lists
  <2>4. CASE HostStatus BY <2>4 DEF HostStatus, TakeIn, device, Lists
  <2>5. CASE HostBad
    <3>1. \E a, b, c : ToDevice(a, b, c) BY <2>5 DEF HostBad
    <3>2. IsSeq(got') BY <2>5, <1>0 DEF HostBad
    <3> QED BY <3>1, <3>2, <2>0 DEF Lists
  <2>6. CASE HostStallIn BY <2>6 DEF HostStallIn, bus, Lists
  <2>7. CASE HostStallOut BY <2>7 DEF HostStallOut, bus, Lists
  <2>8. CASE Reset
    <3>1. IsSeq(outPipe') BY <2>8, SeqEmpty DEF Reset
    <3> QED BY <2>8, <3>1 DEF Reset, device, Lists
  <2> QED BY <1>3, <2>1, <2>2, <2>3, <2>4, <2>5, <2>6, <2>7, <2>8 DEF Host
<1> QED BY <1>1, <1>2, <1>3 DEF MscNext

LEMMA PairIs ==
    ASSUME Values, i < cbw.n
    PROVE  Pair \in 1 .. 2 /\ i + Pair <= cbw.n /\ i \in Nat /\ cbw.n \in Nat
<1>1. i \in Nat /\ cbw.n \in Nat BY DEF Values
<1> QED BY <1>1 DEF Pair, Lesser

\* The first packet from the host, of a device that looks for one.
LEMMA FirstShape ==
    ASSUME Lists, Shapes, Received
    PROVE  first.len \in {1, 2} /\ (first.kind = "cbw" => first.load \in Cbw)
<1>1. outPipe # << >> BY DEF Received
<1>2. 1 \in DOMAIN outPipe BY <1>1, SeqLen DEF Lists
<1> QED BY <1>2 DEF Shapes, OutShapes, first

LEMMA FirstSendable ==
    ASSUME Lists, Shapes, tosend # << >>
    PROVE  Sendable(tosend[1])
<1>1. 1 \in DOMAIN tosend BY SeqLen DEF Lists
<1> QED BY <1>1 DEF Shapes, InShapes

LEMMA ValuesKept ==
    ASSUME Lists, Values, Shapes, [MscNext]_mscVars
    PROVE  Values'
<1>00. /\ cbw.op \in Op /\ cbw.lba \in Nat /\ cbw.n \in Nat /\ i \in 0 .. cbw.n /\ remaining \in Nat
       /\ sense \in {"none", "illegal", "recovered"}
       /\ told \in {"passed", "failed", "phase", "garbled"}
       /\ inPipe = Packet(inPipe.kind, inPipe.len, inPipe.load)
  BY DEF Values
<1>1. CASE UNCHANGED mscVars BY <1>1 DEF mscVars, device, bus, host, Values
<1>2. CASE Device
  <2>1. CASE SeeReset BY <2>1 DEF SeeReset, Values, host
  <2>2. CASE PollPacket
    <3>1. first.kind = "cbw" => first.load \in Cbw BY <2>2, FirstShape DEF PollPacket
    <3>2. (cbw' = cbw /\ i' = i) \/ (cbw' = first.load /\ first.load \in Cbw /\ i' = 0)
      BY <2>2, <3>1 DEF PollPacket
    <3>3. cbw'.op \in Op /\ cbw'.lba \in Nat /\ cbw'.n \in Nat /\ i' \in 0 .. cbw'.n
      BY <3>2, <1>00 DEF Cbw
    <3> QED BY <2>2, <3>3 DEF PollPacket, Received, Values, host
  <2>3. CASE Recv
    <3>1. first.len \in {1, 2} BY <2>3, FirstShape DEF Recv
    <3>2. remaining' \in Nat BY <2>3, <3>1, <1>00 DEF Recv, Lesser
    <3> QED BY <2>3, <3>2 DEF Recv, Received, Values, host
  <2>4. CASE Put
    <3>1. inPipe' = Packet(inPipe'.kind, inPipe'.len, inPipe'.load) BY <2>4, FirstSendable DEF Put, Sendable
    <3> QED BY <2>4, <3>1 DEF Put, Values, host
  <2>5. CASE Sent BY <2>5 DEF Sent, Values, host
  <2>6. CASE Command
    <3>1. sense' \in {"none", "illegal", "recovered"} BY <2>6, <1>00 DEF Command
    <3> QED BY <2>6, <3>1 DEF Command, Values, bus, host
  <2>7. CASE Read
    <3>1. i' \in 0 .. cbw.n BY <2>7, <1>00 DEF Read
    <3> QED BY <2>7, <3>1 DEF Read, Values, bus, host
  <2>8. CASE SendDone BY <2>8 DEF SendDone, Values, bus, host
  <2>9. CASE Write
    <3>1. remaining' \in Nat
      <4>1. CASE i < cbw.n
        <5>1. Pair \in Nat BY <4>1, PairIs
        <5>2. Pair * BlockLen \in Nat BY <5>1, TwiceBlocked, BlockedNat
        <5> QED BY <2>9, <4>1, <5>2 DEF Write
      <4>2. CASE ~(i < cbw.n) BY <2>9, <4>2, <1>00 DEF Write
      <4> QED BY <4>1, <4>2
    <3> QED BY <2>9, <3>1 DEF Write, Values, bus, host
  <2>10. CASE Store
    <3>1. i < cbw.n BY <2>10 DEF Store, Shapes, Stages
    <3>2. i' \in 0 .. cbw.n BY <2>10, <3>1, PairIs DEF Store
    <3> QED BY <2>10, <3>2 DEF Store, Values, bus, host
  <2>11. CASE ProcessStatus
    <3>1. sense' \in {"none", "illegal", "recovered"} BY <2>11, <1>00 DEF ProcessStatus
    <3> QED BY <2>11, <3>1 DEF ProcessStatus, Values, bus, host
  <2>12. CASE StatusDone BY <2>12 DEF StatusDone, Values, bus, host
  <2> QED BY <1>2, <2>1, <2>2, <2>3, <2>4, <2>5, <2>6, <2>7, <2>8, <2>9, <2>10, <2>11, <2>12 DEF Device
<1>3. CASE Host
  <2>9. None = Packet(None.kind, None.len, None.load) BY DEF None, Packet
  <2>1. CASE HostCommand BY <2>1 DEF HostCommand, ToDevice, device, Values
  <2>2. CASE HostPut BY <2>2 DEF HostPut, ToDevice, device, Values
  <2>3. CASE HostTake BY <2>3, <2>9 DEF HostTake, TakeIn, device, Values
  <2>4. CASE HostStatus
    <3>1. told' \in {"passed", "failed", "phase", "garbled"}
      BY <2>4 DEF HostStatus, Shapes, InShapes, Sendable, Statuses
    <3> QED BY <2>4, <2>9, <3>1 DEF HostStatus, TakeIn, device, Values
  <2>5. CASE HostBad BY <2>5 DEF HostBad, ToDevice, device, Values
  <2>6. CASE HostStallIn BY <2>6 DEF HostStallIn, bus, Values
  <2>7. CASE HostStallOut BY <2>7 DEF HostStallOut, bus, Values
  <2>8. CASE Reset
    <3>1. told' \in {"passed", "failed", "phase", "garbled"} BY <2>8, <1>00 DEF Reset
    <3> QED BY <2>8, <2>9, <3>1 DEF Reset, device, Values
  <2> QED BY <1>3, <2>1, <2>2, <2>3, <2>4, <2>5, <2>6, <2>7, <2>8 DEF Host
<1> QED BY <1>1, <1>2, <1>3 DEF MscNext

\* Packets from the host keep their form: the first is taken out, or one is added.
LEMMA OutShapesKept ==
    ASSUME Lists, Shapes, [MscNext]_mscVars
    PROVE  OutShapes'
<1>0. OutShapes /\ IsSeq(outPipe) BY DEF Shapes, Lists
<1>1. CASE UNCHANGED outPipe BY <1>0, <1>1 DEF OutShapes
<1>2. CASE Received
  <2>1. outPipe # << >> /\ outPipe' = Tail(outPipe) BY <1>2 DEF Received
  <2>2. /\ IsSeq(outPipe') /\ Len(outPipe') = Len(outPipe) - 1 /\ Len(outPipe) \in Nat \ {0}
        /\ \A k \in 1 .. Len(outPipe') : outPipe'[k] = outPipe[k + 1]
    BY <2>1, <1>0, SeqTail
  <2>3. DOMAIN outPipe = 1 .. Len(outPipe) /\ DOMAIN outPipe' = 1 .. Len(outPipe')
    BY <2>2, <1>0, SeqLen
  <2>4. ASSUME NEW k \in DOMAIN outPipe'
        PROVE  outPipe'[k] = outPipe[k + 1] /\ k + 1 \in DOMAIN outPipe
    BY <2>2, <2>3
  <2> QED BY <2>4, <1>0 DEF OutShapes
<1>3. CASE \E a, b, c : ToDevice(a, b, c) /\ b \in {1, 2} /\ (a = "cbw" => c \in Cbw)
  <2>1. PICK a, b, c : ToDevice(a, b, c) /\ b \in {1, 2} /\ (a = "cbw" => c \in Cbw) BY <1>3
  <2>2. PICK e : e = [kind |-> a, len |-> b, load |-> c, bank |-> fillbank] OBVIOUS
  <2>3. outPipe' = Append(outPipe, e) BY <2>1, <2>2 DEF ToDevice
  <2>4. e.len \in {1, 2} /\ (e.kind = "cbw" => e.load \in Cbw) BY <2>1, <2>2
  <2>5. /\ IsSeq(outPipe') /\ Len(outPipe') = Len(outPipe) + 1
        /\ \A k \in 1 .. Len(outPipe) : outPipe'[k] = outPipe[k]
        /\ outPipe'[Len(outPipe) + 1] = e
    BY <2>3, <1>0, SeqAppend
  <2>6. Len(outPipe) \in Nat /\ DOMAIN outPipe = 1 .. Len(outPipe) /\ DOMAIN outPipe' = 1 .. Len(outPipe')
    BY <2>5, <1>0, SeqLen
  <2>7. ASSUME NEW k \in DOMAIN outPipe'
        PROVE  (outPipe'[k] = outPipe[k] /\ k \in DOMAIN outPipe) \/ outPipe'[k] = e
    BY <2>5, <2>6
  <2> QED BY <2>4, <2>7, <1>0 DEF OutShapes
<1>4. CASE outPipe' = << >>
  <2>1. DOMAIN outPipe' = {} BY <1>4, SeqEmpty, SeqLen
  <2> QED BY <2>1 DEF OutShapes
<1>5. \/ UNCHANGED outPipe
      \/ Received
      \/ \E a, b, c : ToDevice(a, b, c) /\ b \in {1, 2} /\ (a = "cbw" => c \in Cbw)
      \/ outPipe' = << >>
  <2>1. CASE UNCHANGED mscVars BY <2>1 DEF mscVars, bus
  <2>2. CASE Device
    <3>1. CASE SeeReset BY <3>1 DEF SeeReset
    <3>2. CASE PollPacket BY <3>2 DEF PollPacket
    <3>3. CASE Recv BY <3>3 DEF Recv
    <3>4. CASE Put BY <3>4 DEF Put
    <3>5. CASE Sent BY <3>5 DEF Sent
    <3>6. CASE Command BY <3>6 DEF Command, bus
    <3>7. CASE Read BY <3>7 DEF Read, bus
    <3>8. CASE SendDone BY <3>8 DEF SendDone, bus
    <3>9. CASE Write BY <3>9 DEF Write, bus
    <3>10. CASE Store BY <3>10 DEF Store, bus
    <3>11. CASE ProcessStatus BY <3>11 DEF ProcessStatus, bus
    <3>12. CASE StatusDone BY <3>12 DEF StatusDone, bus
    <3> QED BY <2>2, <3>1, <3>2, <3>3, <3>4, <3>5, <3>6, <3>7, <3>8, <3>9, <3>10, <3>11, <3>12 DEF Device
  <2>3. CASE Host
    <3>1. CASE HostCommand
      <4>1. PICK c \in Commands, v \in {0, 1} :
                cmd' = [op |-> c.op, lba |-> c.lba, n |-> c.n, host |-> c.host, in |-> c.in, v |-> v]
                /\ ToDevice("cbw", Short, cmd')
        BY <3>1 DEF HostCommand
      <4>2. c \in [op : Op, lba : Nat, n : Nat, host : Nat, in : BOOLEAN] BY HostAssumption
      <4>3. cmd' \in Cbw BY <4>1, <4>2 DEF Cbw
      <4> QED BY <4>1, <4>3 DEF Short
    <3>2. CASE HostPut
      <4>1. \E c : ToDevice("data", Full, c) BY <3>2 DEF HostPut
      <4> QED BY <4>1 DEF Full
    <3>3. CASE HostTake BY <3>3 DEF HostTake, TakeIn
    <3>4. CASE HostStatus BY <3>4 DEF HostStatus, TakeIn
    <3>5. CASE HostBad
      <4>1. ToDevice("junk", Short, << >>) BY <3>5 DEF HostBad
      <4> QED BY <4>1 DEF Short
    <3>6. CASE HostStallIn BY <3>6 DEF HostStallIn, bus
    <3>7. CASE HostStallOut BY <3>7 DEF HostStallOut, bus
    <3>8. CASE Reset BY <3>8 DEF Reset
    <3> QED BY <2>3, <3>1, <3>2, <3>3, <3>4, <3>5, <3>6, <3>7, <3>8 DEF Host
  <2> QED BY <2>1, <2>2, <2>3 DEF MscNext
<1> QED BY <1>1, <1>2, <1>3, <1>4, <1>5

LEMMA NoneSendable == Sendable(None)
BY DEF Sendable, None, Packet

\* So do those the device sends.
LEMMA InShapesKept ==
    ASSUME Lists, Values, Shapes, [MscNext]_mscVars
    PROVE  InShapes'
<1>0. InShapes /\ IsSeq(tosend) BY DEF Shapes, Lists
<1>1. CASE UNCHANGED <<tosend, inPipe>> BY <1>0, <1>1 DEF InShapes
<1>2. CASE UNCHANGED tosend /\ inPipe' = None BY <1>0, <1>2, NoneSendable DEF InShapes
<1>3. CASE Device
  <2>1. CASE SeeReset BY <2>1, <1>1 DEF SeeReset
  <2>2. CASE PollPacket BY <2>2, <1>1 DEF PollPacket, Received
  <2>3. CASE Recv BY <2>3, <1>1 DEF Recv, Received
  <2>4. CASE Put
    <3>1. tosend # << >> /\ inPipe' = tosend[1] /\ tosend' = Tail(tosend) BY <2>4 DEF Put
    <3>2. Sendable(inPipe') BY <3>1, FirstSendable
    <3>3. /\ IsSeq(tosend') /\ Len(tosend') = Len(tosend) - 1 /\ Len(tosend) \in Nat \ {0}
          /\ \A k \in 1 .. Len(tosend') : tosend'[k] = tosend[k + 1]
      BY <3>1, <1>0, SeqTail
    <3>4. DOMAIN tosend = 1 .. Len(tosend) /\ DOMAIN tosend' = 1 .. Len(tosend')
      BY <3>3, <1>0, SeqLen
    <3>5. ASSUME NEW k \in DOMAIN tosend'
          PROVE  tosend'[k] = tosend[k + 1] /\ k + 1 \in DOMAIN tosend
      BY <3>3, <3>4
    <3> QED BY <3>2, <3>5, <1>0 DEF InShapes
  <2>5. CASE Sent BY <2>5, <1>1 DEF Sent
  <2>6. CASE Command
    <3>1. UNCHANGED inPipe BY <2>6 DEF Command, bus
    <3>2. CASE UNCHANGED tosend BY <3>1, <3>2, <1>1
    <3>3. CASE tosend' = Answer(cbw) /\ cbw.op \in {"fixed", "inquiry", "sense"}
      <4>1. cbw.n \in Nat BY DEF Values
      <4>2. /\ IsSeq(Answer(cbw)) /\ Len(Answer(cbw)) = Whole(cbw) /\ Whole(cbw) \in Nat
            /\ \A k \in 1 .. Whole(cbw) :
                  Answer(cbw)[k] = Packet("data", DueLen(cbw, k), Answer(cbw)[k].load)
        BY <3>3, <4>1, AnswerSeq
      <4>3. DOMAIN tosend' = 1 .. Whole(cbw) BY <3>3, <4>2, SeqLen
      <4>4. ASSUME NEW k \in DOMAIN tosend' PROVE Sendable(tosend'[k])
        <5>1. tosend'[k] = Packet("data", DueLen(cbw, k), tosend'[k].load) BY <3>3, <4>2, <4>3
        <5>2. PICK l, d : tosend'[k] = Packet("data", l, d) BY <5>1
        <5> QED BY <5>2, DataSendable
      <4> QED BY <3>1, <4>4, <1>0 DEF InShapes
    <3> QED BY <2>6, <3>2, <3>3 DEF Command, Send
  <2>7. CASE Read
    <3>1. UNCHANGED inPipe BY <2>7 DEF Read, bus
    <3>2. CASE UNCHANGED tosend BY <3>1, <3>2, <1>1
    <3>3. CASE \E data : tosend' = [k \in 1 .. BlockPackets |-> Packet("data", Full, data[k])]
      <4>1. PICK data : tosend' = [k \in 1 .. BlockPackets |-> Packet("data", Full, data[k])] BY <3>3
      <4>2. ASSUME NEW k \in DOMAIN tosend' PROVE Sendable(tosend'[k])
        <5>1. tosend'[k] = Packet("data", Full, data[k]) BY <4>1
        <5> QED BY <5>1, DataSendable
      <4> QED BY <3>1, <4>2, <1>0 DEF InShapes
    <3> QED BY <2>7, <3>2, <3>3 DEF Read, Send
  <2>8. CASE SendDone BY <2>8, <1>1 DEF SendDone, bus
  <2>9. CASE Write BY <2>9, <1>1 DEF Write, bus
  <2>10. CASE Store BY <2>10, <1>1 DEF Store, bus
  <2>11. CASE ProcessStatus
    <3>1. UNCHANGED inPipe BY <2>11 DEF ProcessStatus, bus
    <3>2. PICK s, r : s \in Statuses /\ tosend' = <<Packet("csw", Short, [status |-> s, residue |-> r])>>
      <4>1. Status(cbw, "failed") \in Statuses /\ Status(cbw, "passed") \in Statuses
        BY DEF Status, Statuses
      <4>2. PICK s : s = Status(cbw, IF cbw.op = "prevent" THEN "failed" ELSE "passed") OBVIOUS
      <4>3. s \in Statuses BY <4>1, <4>2
      <4>4. tosend' = <<Packet("csw", Short, [status |-> s, residue |-> Residue(cbw)])>>
        BY <2>11, <4>2 DEF ProcessStatus, Send
      <4> QED BY <4>3, <4>4
    <3>3. PICK p : p = Packet("csw", Short, [status |-> s, residue |-> r]) OBVIOUS
    <3>4. Sendable(p)
      <4>1. p.kind = "csw" /\ p.len = Short /\ p.load = [status |-> s, residue |-> r] BY <3>3 DEF Packet
      <4>2. p.load.status = s BY <4>1
      <4> QED BY <3>2, <3>3, <4>1, <4>2 DEF Sendable
    <3>5. IsSeq(tosend') /\ Len(tosend') = 1 /\ tosend'[1] = p BY <3>2, <3>3, SeqOne
    <3>6. DOMAIN tosend' = 1 .. 1 BY <3>5, SeqLen
    <3> QED BY <3>1, <3>4, <3>5, <3>6, <1>0 DEF InShapes
  <2>12. CASE StatusDone BY <2>12, <1>1 DEF StatusDone, bus
  <2> QED BY <1>3, <2>1, <2>2, <2>3, <2>4, <2>5, <2>6, <2>7, <2>8, <2>9, <2>10, <2>11, <2>12 DEF Device
<1>4. CASE Host
  <2>1. CASE HostCommand BY <2>1, <1>1 DEF HostCommand, ToDevice, device
  <2>2. CASE HostPut BY <2>2, <1>1 DEF HostPut, ToDevice, device
  <2>3. CASE HostTake BY <2>3, <1>2 DEF HostTake, TakeIn, device
  <2>4. CASE HostStatus BY <2>4, <1>2 DEF HostStatus, TakeIn, device
  <2>5. CASE HostBad BY <2>5, <1>1 DEF HostBad, ToDevice, device
  <2>6. CASE HostStallIn BY <2>6, <1>1 DEF HostStallIn, bus
  <2>7. CASE HostStallOut BY <2>7, <1>1 DEF HostStallOut, bus
  <2>8. CASE Reset BY <2>8, <1>2 DEF Reset, device
  <2> QED BY <1>4, <2>1, <2>2, <2>3, <2>4, <2>5, <2>6, <2>7, <2>8 DEF Host
<1>5. CASE UNCHANGED mscVars BY <1>5, <1>1 DEF mscVars, device, bus
<1> QED BY <1>3, <1>4, <1>5 DEF MscNext

\* A device that sends nothing holds nothing back, and one that receives or stores
\* has blocks left.
LEMMA StagesKept ==
    ASSUME Values, Stages, [MscNext]_mscVars
    PROVE  Stages'
<1>0. /\ stage \in {"recv", "store"} => i < cbw.n
      /\ stage \notin {"send", "csw"} => tosend = << >> /\ busy = FALSE
  BY DEF Stages
<1>1. CASE UNCHANGED <<stage, i, cbw, tosend, busy>> BY <1>0, <1>1 DEF Stages
<1>2. CASE Device
  <2>1. CASE SeeReset BY <2>1, <1>1 DEF SeeReset
  <2>2. CASE PollPacket BY <2>2, <1>0 DEF PollPacket, Received, Stages
  <2>3. CASE Recv BY <2>3, <1>0 DEF Recv, Stages
  <2>4. CASE Put BY <2>4, <1>0 DEF Put, Stages
  <2>5. CASE Sent BY <2>5, <1>0 DEF Sent, Stages
  <2>6. CASE Command BY <2>6, <1>0 DEF Command, Send, Stages
  <2>7. CASE Read BY <2>7, <1>0 DEF Read, Send, Stages
  <2>8. CASE SendDone BY <2>8, <1>0 DEF SendDone, AllSent, Stages
  <2>9. CASE Write BY <2>9, <1>0 DEF Write, Stages
  <2>10. CASE Store BY <2>10, <1>0 DEF Store, Stages
  <2>11. CASE ProcessStatus BY <2>11, <1>0 DEF ProcessStatus, Send, Stages
  <2>12. CASE StatusDone BY <2>12, <1>0 DEF StatusDone, AllSent, Stages
  <2> QED BY <1>2, <2>1, <2>2, <2>3, <2>4, <2>5, <2>6, <2>7, <2>8, <2>9, <2>10, <2>11, <2>12 DEF Device
<1>3. CASE Host
  <2>1. CASE HostCommand BY <2>1, <1>1 DEF HostCommand, ToDevice, device
  <2>2. CASE HostPut BY <2>2, <1>1 DEF HostPut, ToDevice, device
  <2>3. CASE HostTake BY <2>3, <1>1 DEF HostTake, TakeIn, device
  <2>4. CASE HostStatus BY <2>4, <1>1 DEF HostStatus, TakeIn, device
  <2>5. CASE HostBad BY <2>5, <1>1 DEF HostBad, ToDevice, device
  <2>6. CASE HostStallIn BY <2>6, <1>0 DEF HostStallIn, Stages
  <2>7. CASE HostStallOut BY <2>7, <1>0 DEF HostStallOut, Stages
  <2>8. CASE Reset BY <2>8, <1>1 DEF Reset, device
  <2> QED BY <1>3, <2>1, <2>2, <2>3, <2>4, <2>5, <2>6, <2>7, <2>8 DEF Host
<1>4. CASE UNCHANGED mscVars BY <1>4, <1>1 DEF mscVars, device
<1> QED BY <1>2, <1>3, <1>4 DEF MscNext

\* What every host leaves true.
LEMMA AlwaysKept ==
    ASSUME Always, [MscNext]_mscVars
    PROVE  Always'
<1>1. Plain /\ Lists /\ Values /\ Shapes BY TypeSplit DEF Always
<1>2. Plain' /\ Lists' /\ Values' BY <1>1, PlainKept, ListsKept, ValuesKept
<1>3. Shapes' BY <1>1, OutShapesKept, InShapesKept, StagesKept DEF Shapes
<1>4. CardInv' BY CardKept DEF Always
<1>5. TypeInv' BY <1>2 DEF TypeInv, MscTypeOK, Plain, Lists, Values
<1> QED BY <1>3, <1>4, <1>5 DEF Always

-----------------------------------------------------------------------------
\* The three cases of the invariant: they are kept step by step below.
Where ==
    /\ Free => FreeInv
    /\ Stalled => StalledInv
    /\ Working => WorkInv

\* The types that the steps use.
LEMMA Types ==
    ASSUME IInv
    PROVE  /\ TypeInv /\ IsSeq(tosend) /\ IsSeq(buf) /\ IsSeq(outPipe) /\ IsSeq(got)
           /\ Len(tosend) \in Nat /\ Len(buf) \in Nat /\ Len(outPipe) \in Nat /\ Len(got) \in Nat
           /\ i \in Nat /\ cbw.n \in Nat /\ failed \in BOOLEAN
BY SeqLen DEF IInv, TypeInv

\* What a step keeps that leaves the parts of a conjunct alone; a failure of the
\* card only promises less.
LEMMA DueKept ==
    ASSUME NEW p, NEW k, Due(p, k), UNCHANGED <<cmd, disk, told>>, failed => failed'
    PROVE  Due(p, k)'
BY DEF Due, PacketOf

LEMMA TalkKept ==
    ASSUME Talk, UNCHANGED <<cmd, got, phase, disk, told>>, failed => failed'
    PROVE  Talk'
<1>1. ASSUME NEW k \in 1 .. Len(got) PROVE Due(got[k], k)'
  <2>1. PICK p : p = got[k] OBVIOUS
  <2>2. Due(p, k) BY <2>1 DEF Talk
  <2>3. Due(p, k)' BY <2>2, DueKept
  <2>4. p = got'[k] BY <2>1
  <2> QED BY <2>3, <2>4
<1> QED BY <1>1 DEF Talk

LEMMA OpenedKept ==
    ASSUME Opened, UNCHANGED <<cmd, got, phase, disk, told, outPipe, failed>>
    PROVE  Opened'
<1>1. Talk' BY TalkKept DEF Opened
<1>2. ASSUME NEW k \in 2 .. Len(outPipe) PROVE Queued(outPipe[k], k)'
  BY DEF Opened, Queued
<1> QED BY <1>1, <1>2 DEF Opened

LEMMA FreeKept ==
    ASSUME FreeInv, UNCHANGED <<tosend, inPipe, block, disk, failed, told, sense, phase, outPipe, cmd, got>>
    PROVE  FreeInv'
<1>1. Opened => Opened' BY OpenedKept
<1> QED BY <1>1 DEF FreeInv

LEMMA BlockKept ==
    ASSUME BlockInv, UNCHANGED <<block, disk, cmd, failed, i>>
    PROVE  BlockInv'
BY DEF BlockInv

LEMMA AtKept ==
    ASSUME UNCHANGED <<cbw, i, tosend, buf, remaining, inPipe, outPipe, cmd, got, told, disk, failed>>
    PROVE  /\ (AtCommand => AtCommand') /\ (AtRead => AtRead') /\ (AtSend => AtSend')
           /\ (AtWrite => AtWrite') /\ (AtRecv => AtRecv') /\ (AtStore => AtStore')
           /\ (AtStatus => AtStatus') /\ Csw' = Csw
<1>1. AtCommand => AtCommand' BY DEF AtCommand, Quiet
<1>2. AtRead => AtRead' BY DEF AtRead, Quiet
<1>3. AtSend => AtSend'
  <2> SUFFICES ASSUME AtSend PROVE AtSend' OBVIOUS
  <2>1. Handed' = Handed BY DEF Handed
  <2>3. ASSUME inPipe # None PROVE Due(inPipe, Len(got) + 1)'
    <3>1. PICK p, n : p = inPipe /\ n = Len(got) + 1 OBVIOUS
    <3>2. Due(p, n) BY <2>3, <3>1 DEF AtSend
    <3>3. Due(p, n)' BY <3>2, DueKept
    <3>4. p = inPipe' /\ n = Len(got') + 1 BY <3>1
    <3> QED BY <3>3, <3>4
  <2>4. ASSUME NEW k \in 1 .. Len(tosend) PROVE Due(tosend[k], Handed - Len(tosend) + k)'
    <3>1. PICK p, n : p = tosend[k] /\ n = Handed - Len(tosend) + k OBVIOUS
    <3>2. Due(p, n) BY <3>1 DEF AtSend
    <3>3. Due(p, n)' BY <3>2, DueKept
    <3>4. p = tosend'[k] /\ n = Handed' - Len(tosend') + k BY <3>1, <2>1
    <3> QED BY <3>3, <3>4
  <2> QED BY <2>1, <2>3, <2>4 DEF AtSend
<1>4. AtWrite => AtWrite' BY DEF AtWrite, Quiet
<1>5. AtRecv => AtRecv' BY DEF AtRecv, Quiet, Held, Pair
<1>6. AtStore => AtStore' BY DEF AtStore, Quiet, Held, Pair
<1>7. AtStatus => AtStatus' BY DEF AtStatus
<1>8. Csw' = Csw BY DEF Csw
<1> QED BY <1>1, <1>2, <1>3, <1>4, <1>5, <1>6, <1>7, <1>8

LEMMA StageKept ==
    ASSUME IInv, UNCHANGED <<stage, cbw, i, tosend, buf, remaining, sense, inPipe, outPipe, busReset,
                             phase, cmd, got, told, disk, block, failed>>
    PROVE  Where'
<1>1. (Free' <=> Free) /\ (Stalled' <=> Stalled) /\ (Working' <=> Working) BY DEF Free, Stalled, Working
<1>2. Free => FreeInv' BY Settled, FreeKept
<1>3. Stalled => StalledInv' BY Settled DEF StalledInv
<1>4. ASSUME Working PROVE WorkInv'
  <2>1. WorkInv BY <1>4, Settled
  <2>2. Talk' /\ BlockInv' BY <2>1, TalkKept, BlockKept DEF WorkInv
  <2>3. \A k \in 1 .. Len(outPipe) : Queued(outPipe[k], k)' BY <2>1 DEF WorkInv, Queued
  <2> QED BY <2>1, <2>2, <2>3, AtKept DEF WorkInv, Quiet
<1> QED BY <1>1, <1>2, <1>3, <1>4 DEF Where

-----------------------------------------------------------------------------
\* A host that waits for nothing has a device that is done.
LEMMA IdleFree ==
    ASSUME IInv, phase = "idle"
    PROVE  Free /\ FreeInv /\ outPipe = << >>
<1>1. ~Working BY Settled DEF WorkInv, Talk
<1>2. ~Stalled BY Settled DEF StalledInv
<1>3. Free /\ FreeInv BY <1>1, <1>2, Settled
<1> QED BY <1>3 DEF FreeInv, Opened, Talk

\* The device: usb_poll sees a reset.
LEMMA StageSeeReset == ASSUME IInv, SeeReset PROVE Where'
<1>1. phase = "idle" /\ stage = "main" BY DEF IInv, SeeReset
<1>2. FreeInv BY <1>1, IdleFree
<1>3. stage' = "main" BY <1>1 DEF SeeReset
<1>4. FreeInv' BY <1>2, FreeKept DEF SeeReset, host, cardVars
<1> QED BY <1>3, <1>4 DEF Where, Free, Stalled, Working

\* A command starts with nothing written.
LEMMA BlockStart ==
    ASSUME IInv, block = disk, ~failed, cmd \in Cbw, UNCHANGED <<block, disk, cmd, failed>>, i' = 0
    PROVE  BlockInv'
<1>1. \A b \in BlockNo : b \in Nat BY CardAssumption DEF BlockNo
<1>2. cmd.lba \in Nat BY DEF Cbw
<1>3. \A b \in BlockNo : ~(cmd.lba <= b /\ b < cmd.lba + 0) BY <1>1, <1>2
<1>4. disk = [b \in BlockNo |-> disk[b]] BY DEF IInv, TypeInv
<1>5. disk = [b \in BlockNo |-> IF cmd.lba <= b /\ b < cmd.lba + 0 THEN Contents(b, cmd.v) ELSE disk[b]]
  BY <1>3, <1>4
<1> QED BY <1>5 DEF BlockInv

\* The packets behind the one that is taken are still due.
LEMMA QueueShift ==
    ASSUME IInv, outPipe # << >>, \A k \in 2 .. Len(outPipe) : Queued(outPipe[k], k),
           outPipe' = Tail(outPipe), UNCHANGED <<cmd, got>>
    PROVE  \A k \in 1 .. Len(outPipe') : Queued(outPipe[k], k)'
<1>1. Len(outPipe') = Len(outPipe) - 1 /\ Len(outPipe) \in Nat \ {0}
      /\ \A k \in 1 .. Len(outPipe') : outPipe'[k] = outPipe[k + 1]
  BY SeqTail, Types
<1>2. ASSUME NEW k \in 1 .. Len(outPipe') PROVE Queued(outPipe[k], k)'
  <2>1. k + 1 \in 2 .. Len(outPipe) BY <1>1
  <2>2. Queued(outPipe[k + 1], k + 1) BY <2>1
  <2>3. Len(got) - Len(outPipe') + k = Len(got) - Len(outPipe) + (k + 1) BY <1>1, Types
  <2>4. outPipe'[k] = outPipe[k + 1] BY <1>1
  <2>5. PICK m : m = Len(got) - Len(outPipe) + (k + 1) OBVIOUS
  <2>6. cmd.op = "write" /\ outPipe[k + 1].kind = "data" /\ outPipe[k + 1].len = Full
        /\ outPipe[k + 1].load = Written(cmd, m)
    BY <2>2, <2>5 DEF Queued
  <2>7. Len(got') - Len(outPipe') + k = m BY <2>3, <2>5
  <2>8. outPipe'[k].load = Written(cmd', m) BY <2>6, <2>4
  <2> QED BY <2>6, <2>4, <2>7, <2>8 DEF Queued
<1> QED BY <1>2

\* A command is taken.
LEMMA StagePoll == ASSUME IInv, PollPacket PROVE Where'
<1>1. stage = "main" /\ Received /\ ~busReset BY DEF PollPacket
<1>2. Free /\ FreeInv BY <1>1, Settled
<1>3. UNCHANGED <<host, cardVars, tosend, inPipe, sense, busReset>> BY DEF PollPacket, Received
<1>4. UNCHANGED <<phase, cmd, got, told, disk, block, failed>> BY <1>3 DEF host, cardVars
<1>5. outPipe # << >> /\ outPipe' = Tail(outPipe) BY <1>1 DEF Received
<1>6. Len(outPipe') = Len(outPipe) - 1 /\ Len(outPipe) \in Nat \ {0} BY <1>5, SeqTail, Types
<1>7. CASE first.kind = "cbw" /\ first.load = cmd /\ Opened
  <2>1. stage' = "command" /\ cbw' = cmd /\ i' = 0 BY <1>7 DEF PollPacket
  <2>2. Talk' BY <1>4, <1>7, TalkKept DEF Opened
  <2>3. BlockInv' BY <1>2, <1>4, <1>7, <2>1, BlockStart DEF FreeInv, Opened, Talk
  <2>4. \A k \in 1 .. Len(outPipe') : Queued(outPipe[k], k)' BY <1>4, <1>5, <1>7, QueueShift DEF Opened
  <2>5. Len(got') = Len(outPipe') BY <1>4, <1>6, <1>7, Types DEF Opened
  <2>6. AtCommand' BY <2>1, <2>5, <1>2, <1>3 DEF AtCommand, Quiet, FreeInv
  <2>7. (told = "failed" => sense # "none")' BY <1>2, <1>3, <1>4 DEF FreeInv
  <2>8. WorkInv' BY <1>1, <1>3, <1>4, <2>1, <2>2, <2>3, <2>4, <2>6, <2>7 DEF WorkInv
  <2> QED BY <2>1, <2>8 DEF Where, Free, Stalled, Working
<1>8. CASE first.kind = "junk" /\ Len(outPipe) = 1 /\ phase = "badIn"
  <2>1. stage' = "stallIn" BY <1>8 DEF PollPacket
  <2>2. outPipe' = << >>
    <3>1. Len(outPipe') = 0 BY <1>8, <1>6
    <3>2. IsSeq(outPipe') BY <1>5, SeqTail, Types
    <3> QED BY <3>1, <3>2, SeqLen
  <2>3. StalledInv' BY <1>2, <1>3, <1>4, <1>8, <2>1, <2>2 DEF StalledInv, FreeInv
  <2> QED BY <2>1, <2>3 DEF Where, Free, Stalled, Working
<1> QED BY <1>1, <1>7, <1>8, FirstIs

\* A packet of a write is taken: it is the next of the data.
LEMMA StageRecv == ASSUME IInv, Recv PROVE Where'
<1>1. stage = "recv" /\ Received BY DEF Recv
<1>2. Working /\ WorkInv /\ AtRecv BY <1>1, Settled DEF WorkInv
<1>3. UNCHANGED <<host, cardVars, tosend, inPipe, sense, busReset, cbw, i>> BY DEF Recv, Received
<1>4. UNCHANGED <<phase, cmd, got, told, disk, block, failed>> BY <1>3 DEF host, cardVars
<1>5. outPipe # << >> /\ outPipe' = Tail(outPipe) BY <1>1 DEF Received
<1>6. Len(outPipe') = Len(outPipe) - 1 /\ Len(outPipe) \in Nat \ {0} BY <1>5, SeqTail, Types
<1>7. Talk' /\ BlockInv' BY <1>2, <1>3, <1>4, TalkKept, BlockKept DEF WorkInv
<1>8. \A k \in 1 .. Len(outPipe') : Queued(outPipe[k], k)' BY <1>4, <1>5, <1>2, QueueShift DEF WorkInv
<1>9. buf' = Append(buf, first.load) BY DEF Recv
<1>10. /\ Len(buf') = Len(buf) + 1 /\ buf'[Len(buf) + 1] = first.load
       /\ \A k \in 1 .. Len(buf) : buf'[k] = buf[k]
  BY <1>9, SeqAppend, Types
<1>11. Pair' = Pair /\ i' = i /\ cmd' = cmd BY <1>3, <1>4 DEF Pair
<1>12. Blocked(i) \in Nat /\ Blocked(Pair) \in Nat
  <2>1. i < cbw.n BY <1>2 DEF WorkInv, AtRecv
  <2>2. Pair \in Nat /\ i \in Nat BY <1>1, <2>1, PairFits
  <2> QED BY <2>2, BlockedNat
<1>13. Len(got) = Blocked(i) + Len(buf) + Len(outPipe) /\ Len(buf) < Blocked(Pair)
       /\ remaining = 2 * (Blocked(Pair) - Len(buf))
  BY <1>2 DEF AtRecv, Full
<1>14. first.len = 2 /\ first.load = Written(cmd, Len(got) - Len(outPipe) + 1)
  BY <1>1, FirstIs DEF Queued, Full
<1>15. Len(got) - Len(outPipe) + 1 = Blocked(i) + (Len(buf) + 1) BY <1>12, <1>13, Types, SMTT(30)
<1>16. Held(Len(buf))' 
  <2>1. ASSUME NEW k \in 1 .. Len(buf') PROVE buf'[k] = Written(cmd, Blocked(i) + k)
    <3>1. CASE k \in 1 .. Len(buf) BY <3>1, <1>10, <1>2 DEF AtRecv, Held
    <3>2. CASE k = Len(buf) + 1 BY <3>2, <1>10, <1>14, <1>15
    <3> QED BY <3>1, <3>2, <1>10, Types
  <2> QED BY <2>1, <1>11 DEF Held
<1>17. remaining' = 2 * (Blocked(Pair) - Len(buf'))
  <2>1. remaining' = remaining - Lesser(2, remaining) BY <1>14 DEF Recv
  <2>2. remaining >= 2 BY <1>12, <1>13, Types
  <2>3. Lesser(2, remaining) = 2 BY <2>2, <1>12, <1>13, Types DEF Lesser
  <2> QED BY <2>1, <2>3, <1>10, <1>12, <1>13, Types, SMTT(30)
<1>18. Len(got') = Blocked(i) + Len(buf') + Len(outPipe') BY <1>4, <1>6, <1>10, <1>12, <1>13, Types
<1>19. cmd.op = "write" /\ Quiet /\ i < cmd.n BY <1>2 DEF AtRecv
<1>20. Quiet' BY <1>19, <1>3 DEF Quiet
<1>21. CASE remaining' = 0
  <2>1. stage' = "store" BY <1>21 DEF Recv
  <2>2. Len(buf') = Blocked(Pair) BY <1>21, <1>17, <1>12, <1>10, Types
  <2>3. AtStore' BY <2>2, <1>16, <1>18, <1>19, <1>20, <1>11 DEF AtStore, Held
  <2>4. WorkInv' BY <1>1, <1>2, <1>3, <1>4, <1>7, <1>8, <2>1, <2>3 DEF WorkInv
  <2> QED BY <2>1, <2>4 DEF Where, Free, Stalled, Working
<1>22. CASE remaining' # 0
  <2>1. stage' = "recv" BY <1>22 DEF Recv
  <2>2. Len(buf') < Blocked(Pair) BY <1>22, <1>17, <1>13, <1>12, <1>10, Types, SMTT(30)
  <2>3. AtRecv' BY <2>2, <1>16, <1>17, <1>18, <1>19, <1>20, <1>11 DEF AtRecv, Full
  <2>4. WorkInv' BY <1>1, <1>2, <1>3, <1>4, <1>7, <1>8, <2>1, <2>3 DEF WorkInv
  <2> QED BY <2>1, <2>4 DEF Where, Free, Stalled, Working
<1> QED BY <1>21, <1>22

\* A packet goes into the FIFO, or the status does.
LEMMA StagePut == ASSUME IInv, Put PROVE Where'
<1>1. stage \in {"send", "csw"} /\ tosend # << >> /\ ~busy BY DEF Put
<1>2. inPipe' = tosend[1] /\ tosend' = Tail(tosend)
      /\ UNCHANGED <<stage, cbw, i, buf, sense, busReset, outPipe, host, cardVars>> BY DEF Put
<1>3. UNCHANGED <<phase, cmd, got, told, disk, block, failed>> BY <1>2 DEF host, cardVars
<1>4. tosend[1] # None /\ Working /\ WorkInv /\ Len(tosend) \in Nat \ {0} BY <1>1, FirstToSend, Settled
<1>5. inPipe = None BY <1>1 DEF IInv, Wire
<1>6. /\ IsSeq(tosend') /\ Len(tosend') = Len(tosend) - 1
      /\ \A k \in 1 .. Len(tosend') : tosend'[k] = tosend[k + 1]
  BY <1>1, <1>2, SeqTail, Types
<1>7. Talk' /\ BlockInv' BY <1>2, <1>3, <1>4, TalkKept, BlockKept DEF WorkInv
<1>8. \A k \in 1 .. Len(outPipe) : Queued(outPipe[k], k)' BY <1>2, <1>3, <1>4 DEF WorkInv, Queued
<1>9. CASE stage = "send"
  <2>1. AtSend BY <1>4, <1>9 DEF WorkInv
  <2>2. Handed = Len(got) + Len(tosend) BY <1>5, Types DEF Handed
  <2>3. Handed' = Handed BY <1>2, <1>3, <1>4, <1>6, <2>2, Types DEF Handed
  <2>4. Due(inPipe, Len(got) + 1)'
    <3>1. PICK p, n : p = tosend[1] /\ n = Handed - Len(tosend) + 1 OBVIOUS
    <3>2. Due(p, n) BY <2>1, <3>1, <1>4 DEF AtSend
    <3>3. Due(p, n)' BY <3>2, <1>3, DueKept
    <3>4. p = inPipe' /\ n = Len(got') + 1 BY <3>1, <1>2, <1>3, <2>2, Types
    <3> QED BY <3>3, <3>4
  <2>5. ASSUME NEW k \in 1 .. Len(tosend') PROVE Due(tosend[k], Handed - Len(tosend) + k)'
    <3>1. PICK p, n : p = tosend[k + 1] /\ n = Handed - Len(tosend) + (k + 1) OBVIOUS
    <3>0. k + 1 \in 1 .. Len(tosend) BY <1>4, <1>6
    <3>2. Due(p, n) BY <2>1, <3>0, <3>1 DEF AtSend
    <3>3. Due(p, n)' BY <3>2, <1>3, DueKept
    <3>4. p = tosend'[k] BY <3>1, <1>6
    <3>5. n = Handed' - Len(tosend') + k BY <3>1, <2>2, <2>3, <1>6, <1>4, Types
    <3> QED BY <3>3, <3>4, <3>5
  <2>6. AtSend' BY <2>1, <2>3, <2>4, <2>5, <1>2, <1>3 DEF AtSend
  <2>7. WorkInv' BY <1>2, <1>3, <1>4, <1>7, <1>8, <1>9, <2>6 DEF WorkInv
  <2> QED BY <1>2, <1>9, <2>7 DEF Where, Free, Stalled, Working
<1>10. CASE stage = "csw"
  <2>1. tosend = <<Csw>> BY <1>4, <1>5, <1>10 DEF WorkInv
  <2>2. inPipe' = Csw BY <1>2, <2>1
  <2>3. Csw' = Csw BY <1>3 DEF Csw
  <2>4. tosend' = << >>
    <3>1. Len(tosend) = 1 BY <2>1
    <3>2. Len(tosend') = 0 BY <3>1, <1>6
    <3> QED BY <3>2, <1>6, SeqLen
  <2>5. AtStatus' BY <1>2, <1>3, <1>4, <1>10 DEF AtStatus, WorkInv
  <2>6. inPipe' # None BY <1>2, <1>4
  <2>7. WorkInv' BY <1>2, <1>3, <1>4, <1>7, <1>8, <1>10, <2>2, <2>3, <2>4, <2>5, <2>6 DEF WorkInv
  <2> QED BY <1>2, <1>10, <2>6, <2>7 DEF Where, Free, Stalled, Working
<1> QED BY <1>1, <1>9, <1>10

\* The packet was taken.
LEMMA StageSent == ASSUME IInv, Sent PROVE Where'
BY StageKept DEF Sent, host, cardVars

\* No more is sent than the command is due.
LEMMA BlocksBound ==
    ASSUME IInv, Working, cmd.op \in {"read", "write"}
    PROVE  /\ i <= cmd.n /\ i \in Nat /\ cmd.n \in Nat /\ Whole(cmd) = Blocked(cmd.n)
           /\ Blocked(i) \in Nat /\ Blocked(cmd.n) \in Nat /\ Blocked(i) <= Whole(cmd)
           /\ cmd \in Cbw /\ Agrees(cmd) /\ cbw = cmd
<1>1. cbw = cmd /\ cmd \in Cbw /\ Agrees(cmd) BY Settled DEF WorkInv, Talk
<1>2. i \in 0 .. cmd.n /\ cmd.n \in Nat BY <1>1 DEF IInv, TypeInv, MscTypeOK
<1>3. Blocked(i) <= Blocked(cmd.n) BY <1>2, BlockedBelow
<1>4. Whole(cmd) = Blocked(cmd.n) BY <1>1, BlockLengths
<1> QED BY <1>1, <1>2, <1>3, <1>4, BlockedNat

\* All of an answer, or of a block, was taken.
LEMMA StageSendDone == ASSUME IInv, SendDone PROVE Where'
<1>1. stage = "send" /\ tosend = << >> /\ ~busy /\ stage' = (IF cbw.op = "read" THEN "read" ELSE "status")
      /\ UNCHANGED <<cbw, i, tosend, buf, sense, inPipe, outPipe, busReset, host, cardVars>>
  BY DEF SendDone, AllSent, bus
<1>2. UNCHANGED <<phase, cmd, got, told, disk, block, failed>> BY <1>1 DEF host, cardVars
<1>3. Working /\ WorkInv /\ AtSend BY <1>1, Settled DEF WorkInv
<1>4. inPipe = None /\ inPipe' = None BY <1>1 DEF IInv, Wire
<1>5. Quiet' BY <1>1, <1>4 DEF Quiet
<1>6. Talk' /\ BlockInv' BY <1>1, <1>2, <1>3, TalkKept, BlockKept DEF WorkInv
<1>7. \A k \in 1 .. Len(outPipe) : Queued(outPipe[k], k)' BY <1>1, <1>2, <1>3 DEF WorkInv, Queued
<1>8. Len(got) = Handed BY <1>1, <1>4, Types, SeqEmpty DEF Handed
<1>9. CASE cbw.op = "read"
  <2>1. cmd.op = "read" /\ cmd'.op = "read" BY <1>2, <1>3, <1>9 DEF WorkInv
  <2>2. AtRead' BY <2>1, <1>1, <1>2, <1>3, <1>5, <1>8 DEF AtRead, AtSend, Blocked
  <2>3. WorkInv' BY <1>1, <1>2, <1>3, <1>6, <1>7, <1>9, <2>2 DEF WorkInv
  <2> QED BY <1>1, <1>9, <2>3 DEF Where, Free, Stalled, Working
<1>10. CASE cbw.op # "read"
  <2>1. cmd.op # "read" /\ cmd.op # "write" BY <1>3, <1>10 DEF WorkInv, AtSend
  <2>2. AtStatus' BY <2>1, <1>1, <1>2, <1>3, <1>8 DEF AtStatus, AtSend
  <2>3. WorkInv' BY <1>1, <1>2, <1>3, <1>5, <1>6, <1>7, <1>10, <2>2 DEF WorkInv
  <2> QED BY <1>1, <1>10, <2>3 DEF Where, Free, Stalled, Working
<1> QED BY <1>9, <1>10

\* The answers, and the commands without data.
LEMMA StageCommand == ASSUME IInv, Command PROVE Where'
<1>1. stage = "command" /\ UNCHANGED <<cbw, i, buf, inPipe, outPipe, busReset, host, cardVars>> BY DEF Command, bus
<1>2. UNCHANGED <<phase, cmd, got, told, disk, block, failed>> BY <1>1 DEF host, cardVars
<1>3. Working /\ WorkInv /\ AtCommand BY <1>1, Settled DEF WorkInv
<1>4. cbw = cmd /\ cmd \in Cbw /\ Agrees(cmd) /\ cmd.n \in Nat BY <1>3 DEF WorkInv, Talk, Cbw
<1>5. Talk' /\ BlockInv' BY <1>1, <1>2, <1>3, TalkKept, BlockKept DEF WorkInv
<1>6. \A k \in 1 .. Len(outPipe) : Queued(outPipe[k], k)' BY <1>1, <1>2, <1>3 DEF WorkInv, Queued
<1>7. inPipe = None /\ tosend = << >> /\ i = 0 /\ Len(got) = Len(outPipe) BY <1>3 DEF AtCommand, Quiet
<1>8. told = "failed" => sense # "none" BY <1>1, <1>3 DEF WorkInv
<1>9. cmd.op # "write" => outPipe = << >>
  <2> SUFFICES ASSUME cmd.op # "write", outPipe # << >> PROVE FALSE OBVIOUS
  <2>1. Len(outPipe) \in Nat \ {0} BY Types, SeqLen
  <2>2. Queued(outPipe[1], 1) BY <2>1, <1>3 DEF WorkInv
  <2> QED BY <2>2 DEF Queued
<1>10. CASE cbw.op \in {"fixed", "inquiry", "sense"}
  <2>1. tosend' = Answer(cmd) /\ stage' = "send" /\ sense' = sense BY <1>4, <1>10 DEF Command, Send
  <2>2. /\ Len(tosend') = Whole(cmd) /\ Whole(cmd) \in Nat
        /\ \A k \in 1 .. Whole(cmd) :
                 /\ tosend'[k] = Packet("data", DueLen(cmd, k), tosend'[k].load)
                 /\ cmd.op = "sense" => tosend'[k].load = <<"sense", sense>>
    BY <2>1, <1>4, <1>10, AnswerSeq
  <2>3. outPipe = << >> /\ Len(got) = 0 BY <1>4, <1>9, <1>10, <1>7, SeqEmpty
  <2>4. Handed' = Whole(cmd) BY <1>1, <1>2, <1>7, <2>2, <2>3 DEF Handed
  <2>5. ASSUME NEW k \in 1 .. Len(tosend') PROVE Due(tosend[k], Handed - Len(tosend) + k)'
    <3>1. Handed' - Len(tosend') + k = k BY <2>2, <2>4
    <3>2. tosend'[k] = Packet("data", DueLen(cmd, k), tosend'[k].load) BY <2>2
    <3>3. cmd.op = "sense" /\ told = "failed" => tosend'[k].load[2] # "none"
      <4> SUFFICES ASSUME cmd.op = "sense", told = "failed" PROVE tosend'[k].load[2] # "none" OBVIOUS
      <4>1. tosend'[k].load = <<"sense", sense>> BY <2>2
      <4>2. sense # "none" BY <1>8
      <4> QED BY <4>1, <4>2
    <3>4. cmd.op # "read" BY <1>4, <1>10
    <3>5. cmd' = cmd /\ told' = told BY <1>2
    <3>6. Due(tosend[k], k)' BY <3>2, <3>3, <3>4, <3>5 DEF Due
    <3> QED BY <3>1, <3>6
  <2>6. AtSend' BY <1>1, <1>2, <1>4, <1>7, <1>10, <2>3, <2>4, <2>5 DEF AtSend
  <2>7. WorkInv' BY <1>1, <1>2, <1>3, <1>5, <1>6, <1>8, <2>1, <2>6 DEF WorkInv
  <2> QED BY <2>1, <2>7 DEF Where, Free, Stalled, Working
<1>11. CASE cbw.op \in {"read", "write"}
  <2>1. stage' = cbw.op /\ UNCHANGED <<tosend, sense>> BY <1>11 DEF Command
  <2>2. Blocked(0) = 0 /\ Blocked(i) = 0 /\ Blocked(i') = 0 BY <1>1, <1>7, BlockedNat
  <2>3. Quiet' BY <1>1, <1>7, <2>1 DEF Quiet
  <2>4. CASE cbw.op = "read"
    <3>1. outPipe = << >> /\ Len(got) = 0 BY <1>4, <1>9, <2>4, <1>7, SeqEmpty
    <3>2. AtRead' BY <1>1, <1>2, <1>4, <2>2, <2>3, <2>4, <3>1 DEF AtRead
    <3>3. WorkInv' BY <1>1, <1>2, <1>3, <1>5, <1>6, <1>8, <2>1, <2>4, <3>2 DEF WorkInv
    <3> QED BY <2>1, <2>4, <3>3 DEF Where, Free, Stalled, Working
  <2>5. CASE cbw.op = "write"
    <3>1. Len(got') = Blocked(i') + Len(outPipe') BY <1>1, <1>2, <1>7, <2>2, Types
    <3>2. AtWrite' BY <1>1, <1>2, <1>4, <2>3, <2>5, <3>1 DEF AtWrite
    <3>3. WorkInv' BY <1>1, <1>2, <1>3, <1>5, <1>6, <1>8, <2>1, <2>5, <3>2 DEF WorkInv
    <3> QED BY <2>1, <2>5, <3>3 DEF Where, Free, Stalled, Working
  <2> QED BY <1>11, <2>4, <2>5
<1>12. CASE cbw.op \in {"ready", "prevent", "unknown"}
  <2>1. stage' = "status" /\ tosend' = tosend /\ sense' = IF cbw.op = "ready" THEN sense ELSE "illegal"
    BY <1>12 DEF Command
  <2>2. outPipe = << >> /\ Len(got) = 0 BY <1>4, <1>9, <1>12, <1>7, SeqEmpty
  <2>3. Whole(cmd) = 0 BY <1>4, <1>12, Directions
  <2>4. AtStatus' BY <1>1, <1>2, <1>4, <1>12, <2>2, <2>3 DEF AtStatus
  <2>5. Quiet' BY <1>1, <1>7, <2>1 DEF Quiet
  <2>6. told' = "failed" => sense' # "none" BY <1>2, <1>8, <2>1
  <2>7. WorkInv' BY <1>1, <1>2, <1>3, <1>5, <1>6, <2>1, <2>4, <2>5, <2>6 DEF WorkInv
  <2> QED BY <2>1, <2>7 DEF Where, Free, Stalled, Working
<1> QED BY <1>10, <1>11, <1>12 DEF Command

\* A block is read, and its packets are those due next.
LEMMA StageRead == ASSUME IInv, Read PROVE Where'
<1>1. stage = "read" /\ UNCHANGED <<cbw, buf, sense, inPipe, outPipe, busReset, host>> BY DEF Read, bus
<1>2. UNCHANGED <<phase, cmd, got, told, disk>> BY <1>1 DEF host
<1>3. Working /\ WorkInv /\ AtRead BY <1>1, Settled DEF WorkInv
<1>4. cmd.op = "read" /\ tosend = << >> /\ inPipe = None /\ Len(got) = Blocked(i) /\ outPipe = << >>
  BY <1>3 DEF AtRead, Quiet
<1>5. /\ i <= cmd.n /\ i \in Nat /\ cmd.n \in Nat /\ Whole(cmd) = Blocked(cmd.n)
      /\ Blocked(i) \in Nat /\ Blocked(cmd.n) \in Nat /\ Blocked(i) <= Whole(cmd)
      /\ cmd \in Cbw /\ Agrees(cmd) /\ cbw = cmd
  BY <1>3, <1>4, BlocksBound
<1>6. block = disk BY <1>3, <1>4 DEF WorkInv, BlockInv
<1>7. told = "failed" => sense # "none" BY <1>1, <1>3 DEF WorkInv
<1>8. CASE i < cbw.n
  <2>1. PICK data \in {block[cbw.lba + i], Unknown} :
           /\ CardRead(cbw.lba + i, data)
           /\ Send([k \in 1 .. BlockPackets |-> Packet("data", Full, data[k])], "send")
           /\ i' = i + 1
    BY <1>8 DEF Read
  <2>2. tosend' = [k \in 1 .. BlockPackets |-> Packet("data", Full, data[k])] /\ stage' = "send" BY <2>1 DEF Send
  <2>3. block' = block /\ (failed => failed') /\ (~failed' => data = block[cmd.lba + i])
    <3>1. block' = block /\ ((data = block[cbw.lba + i] /\ UNCHANGED failed) \/ failed' = TRUE)
      BY <2>1 DEF CardRead
    <3>2. cbw.lba = cmd.lba BY <1>5
    <3> QED BY <3>1, <3>2
  <2>4. Talk' BY <1>2, <1>3, <2>3, TalkKept DEF WorkInv
  <2>5. BlockInv' BY <1>2, <1>4, <1>6, <2>3 DEF BlockInv
  <2>6. BlockPackets \in Nat \ {0} BY CardAssumption
  <2>7. Len(tosend') = BlockPackets
    <3>1. tosend' = [k \in 1 .. BlockPackets |-> tosend'[k]] BY <2>2
    <3> QED BY <3>1, <2>6, SeqOf
  <2>8. Blocked(i') = Blocked(i) + BlockPackets /\ Blocked(i') <= Whole(cmd)
    <3>1. i + 1 <= cmd.n BY <1>5, <1>8
    <3>2. Blocked(i + 1) <= Blocked(cmd.n) BY <3>1, <1>5, BlockedBelow
    <3> QED BY <3>2, <2>1, <1>5, BlockedNat
  <2>9. Handed' = Blocked(i') BY <1>1, <1>2, <1>4, <1>5, <2>6, <2>7, <2>8 DEF Handed
  <2>10. ASSUME NEW k \in 1 .. Len(tosend') PROVE Due(tosend[k], Handed - Len(tosend) + k)'
    <3>1. Handed' - Len(tosend') + k = Blocked(i) + k BY <2>7, <2>8, <2>9, <2>6, <1>5
    <3>2. k \in 1 .. BlockPackets BY <2>7
    <3>3. tosend'[k] = Packet("data", Full, data[k]) BY <2>2, <3>2
    <3>4. Blocked(i) + k \in 1 .. Whole(cmd) BY <3>2, <2>6, <2>8, <1>5
    <3>5. DueLen(cmd, Blocked(i) + k) = Full BY <3>4, <1>4, <1>5, LastPacket
    <3>6. ASSUME ~failed' PROVE data[k] = PacketOf(disk, cmd.lba, Blocked(i) + k)
      <4>1. cmd.lba \in Nat BY <1>5 DEF Cbw
      <4>2. PICK f, l, m : f = disk /\ l = cmd.lba /\ m = i OBVIOUS
      <4>4. l \in Nat /\ m \in Nat BY <4>1, <4>2, <1>5
      <4>3. PacketOf(f, l, Blocked(m) + k) = f[l + m][k] BY <4>4, <3>2, PacketPlace
      <4> QED BY <4>2, <4>3, <3>6, <2>3, <1>6
    <3>7. tosend'[k].load = data[k] BY <3>3 DEF Packet
    <3>8. PICK p, n : p = tosend'[k] /\ n = Blocked(i) + k OBVIOUS
    <3>9. /\ p = Packet("data", DueLen(cmd', n), p.load)
          /\ cmd'.op = "read" /\ ~failed' => p.load = PacketOf(disk', cmd'.lba, n)
          /\ cmd'.op # "sense"
      BY <3>8, <3>3, <3>5, <3>6, <3>7, <1>2, <1>4
    <3>10. Due(p, n)' BY <3>9 DEF Due
    <3> QED BY <3>10, <3>8, <3>1
  <2>11. AtSend' BY <1>1, <1>2, <1>4, <2>9, <2>10 DEF AtSend
  <2>12. \A k \in 1 .. Len(outPipe) : Queued(outPipe[k], k)' BY <1>1, <1>2, <1>3 DEF WorkInv, Queued
  <2>13. WorkInv' BY <1>1, <1>2, <1>3, <1>5, <1>7, <2>2, <2>4, <2>5, <2>11, <2>12 DEF WorkInv
  <2> QED BY <2>2, <2>13 DEF Where, Free, Stalled, Working
<1>9. CASE ~(i < cbw.n)
  <2>1. stage' = "status" /\ UNCHANGED <<i, tosend, cardVars>> BY <1>9 DEF Read
  <2>2. UNCHANGED <<block, failed>> BY <2>1 DEF cardVars
  <2>3. i = cmd.n BY <1>5, <1>9
  <2>4. AtStatus' BY <1>1, <1>2, <1>4, <1>5, <2>3 DEF AtStatus
  <2>5. Talk' /\ BlockInv' BY <1>2, <1>3, <2>1, <2>2, TalkKept, BlockKept DEF WorkInv
  <2>6. Quiet' BY <1>1, <1>4, <2>1 DEF Quiet
  <2>7. \A k \in 1 .. Len(outPipe) : Queued(outPipe[k], k)' BY <1>1, <1>2, <1>3 DEF WorkInv, Queued
  <2>8. WorkInv' BY <1>1, <1>2, <1>3, <1>5, <1>7, <2>1, <2>4, <2>5, <2>6, <2>7 DEF WorkInv
  <2> QED BY <2>1, <2>8 DEF Where, Free, Stalled, Working
<1> QED BY <1>8, <1>9

\* The next pair of blocks is to be received, or all are done.
LEMMA StageWrite == ASSUME IInv, Write PROVE Where'
<1>1. stage = "write" /\ UNCHANGED <<cbw, i, tosend, sense, inPipe, outPipe, busReset, host, cardVars>>
  BY DEF Write, bus
<1>2. UNCHANGED <<phase, cmd, got, told, disk, block, failed>> BY <1>1 DEF host, cardVars
<1>3. Working /\ WorkInv /\ AtWrite BY <1>1, Settled DEF WorkInv
<1>4. cmd.op = "write" /\ Quiet /\ Len(got) = Blocked(i) + Len(outPipe) BY <1>3 DEF AtWrite
<1>5. /\ i <= cmd.n /\ i \in Nat /\ cmd.n \in Nat /\ Whole(cmd) = Blocked(cmd.n)
      /\ Blocked(i) \in Nat /\ Blocked(cmd.n) \in Nat /\ Blocked(i) <= Whole(cmd)
      /\ cmd \in Cbw /\ Agrees(cmd) /\ cbw = cmd
  BY <1>3, <1>4, BlocksBound
<1>6. Talk' /\ BlockInv' BY <1>1, <1>2, <1>3, TalkKept, BlockKept DEF WorkInv
<1>7. \A k \in 1 .. Len(outPipe) : Queued(outPipe[k], k)' BY <1>1, <1>2, <1>3 DEF WorkInv, Queued
<1>8. Quiet' BY <1>1, <1>4 DEF Quiet
<1>9. told = "failed" => sense # "none" BY <1>1, <1>3 DEF WorkInv
<1>10. CASE i < cbw.n
  <2>1. stage' = "recv" /\ buf' = << >> /\ remaining' = Pair * BlockLen BY <1>10 DEF Write
  <2>2. Pair \in 1 .. 2 BY <1>1, <1>10, PairFits
  <2>3. Pair' = Pair /\ i' = i BY <1>1 DEF Pair
  <2>4. Blocked(Pair) \in Nat /\ Blocked(Pair) > 0 BY <2>2, BlockedNat
  <2>5. Len(buf') = 0 BY <2>1, SeqEmpty
  <2>6. remaining' = 2 * (Blocked(Pair) - 0) BY <2>1, <2>2, <2>4, TwiceBlocked
  <2>7. Held(Len(buf))' BY <2>5 DEF Held
  <2>8. Len(got') = Blocked(i') + Len(buf') + Len(outPipe') BY <1>1, <1>2, <1>4, <1>5, <2>3, <2>5, Types
  <2>9. AtRecv' BY <1>1, <1>2, <1>4, <1>5, <1>8, <1>10, <2>3, <2>4, <2>5, <2>6, <2>7, <2>8 DEF AtRecv, Full
  <2>10. WorkInv' BY <1>1, <1>2, <1>3, <1>5, <1>6, <1>7, <1>9, <2>1, <2>9 DEF WorkInv
  <2> QED BY <2>1, <2>10 DEF Where, Free, Stalled, Working
<1>11. CASE ~(i < cbw.n)
  <2>1. stage' = "status" BY <1>11 DEF Write
  <2>2. i = cmd.n BY <1>5, <1>11
  <2>3. Len(got) <= Whole(cmd) BY <1>3 DEF WorkInv, Talk
  <2>4. Len(outPipe) = 0 BY <2>2, <2>3, <1>4, <1>5, Types
  <2>5. outPipe = << >> BY <2>4, Types, SeqLen
  <2>6. Len(got) = Whole(cmd) BY <2>2, <2>4, <1>4, <1>5, Types
  <2>7. AtStatus' BY <1>1, <1>2, <2>2, <2>5, <2>6 DEF AtStatus
  <2>8. WorkInv' BY <1>1, <1>2, <1>3, <1>5, <1>6, <1>7, <1>8, <1>9, <2>1, <2>7 DEF WorkInv
  <2> QED BY <2>1, <2>8 DEF Where, Free, Stalled, Working
<1> QED BY <1>10, <1>11

\* Parts of a list.
LEMMA SeqPart ==
    ASSUME NEW s, IsSeq(s), NEW a \in Nat, NEW l \in Nat, a + l <= Len(s)
    PROVE  SubSeq(s, a + 1, a + l) = [k \in 1 .. l |-> s[a + k]]
<1>1. PICK S : s \in Seq(S) BY DEF IsSeq
<1>2. Len(s) \in Nat BY <1>1
<1>3. \A k \in (a + 1) .. (a + l) : s[k] \in S BY <1>1, <1>2
<1>4. SubSeq(s, a + 1, a + l) = [k \in 1 .. (a + l) - (a + 1) + 1 |-> s[k + (a + 1) - 1]]
  BY <1>1, <1>2, SMTT(30)
<1>5. (a + l) - (a + 1) + 1 = l OBVIOUS
<1>6. \A k \in 1 .. l : k + (a + 1) - 1 = a + k OBVIOUS
<1> QED BY <1>4, <1>5, <1>6

\* The blocks that usb_recv has gathered are those the host sends.
LEMMA BlocksHeld ==
    ASSUME IInv, stage = "store", NEW j \in 1 .. Pair, cmd.lba + i + (j - 1) \in BlockNo
    PROVE  SubSeq(buf, (j - 1) * BlockPackets + 1, j * BlockPackets) = Contents(cmd.lba + i + (j - 1), cmd.v)
<1>1. Working /\ WorkInv /\ AtStore /\ Held(Blocked(Pair)) /\ i < cbw.n BY Settled DEF WorkInv, AtStore
<1>2. Pair \in 1 .. 2 /\ i \in Nat BY <1>1, PairFits
<1>3. j \in Nat /\ j >= 1 /\ j - 1 \in Nat BY <1>2
<1>4. Blocked(j) = Blocked(j - 1) + BlockPackets /\ Blocked(j - 1) \in Nat /\ BlockPackets \in Nat
  <2>1. j = (j - 1) + 1 BY <1>3
  <2> QED BY <2>1, <1>3, BlockedNat, CardAssumption
<1>5. Blocked(j) <= Len(buf) BY <1>1, <1>2, <1>3, BlockedBelow DEF Held
<1>6. SubSeq(buf, Blocked(j - 1) + 1, Blocked(j - 1) + BlockPackets)
         = [k \in 1 .. BlockPackets |-> buf[Blocked(j - 1) + k]]
  <2>1. PICK a, l : a = Blocked(j - 1) /\ l = BlockPackets OBVIOUS
  <2>2. a \in Nat /\ l \in Nat BY <1>4, <2>1
  <2>3. a + l <= Len(buf) BY <1>4, <1>5, <2>1
  <2>4. IsSeq(buf) BY Types
  <2>5. SubSeq(buf, a + 1, a + l) = [k \in 1 .. l |-> buf[a + k]] BY <2>2, <2>3, <2>4, SeqPart
  <2> QED BY <2>1, <2>5
<1>7. ASSUME NEW k \in 1 .. BlockPackets
      PROVE  buf[Blocked(j - 1) + k] = <<"data", cmd.lba + i + (j - 1), k, cmd.v>>
  <2>1. Blocked(j - 1) + k \in 1 .. Len(buf) BY <1>4, <1>5, Types
  <2>2. buf[Blocked(j - 1) + k] = Written(cmd, Blocked(i) + (Blocked(j - 1) + k)) BY <2>1, <1>1 DEF Held
  <2>3. Blocked(i) + (Blocked(j - 1) + k) = Blocked(i + (j - 1)) + k
    BY <1>2, <1>3, <1>4, BlockedSum, BlockedNat
  <2>4. cmd.lba \in Nat BY <1>1 DEF WorkInv, Talk, Cbw
  <2>5. i + (j - 1) \in Nat BY <1>2, <1>3
  <2>6. PICK f, l, m : f = [b \in BlockNo |-> Contents(b, cmd.v)] /\ l = cmd.lba /\ m = i + (j - 1) OBVIOUS
  <2>11. l \in Nat /\ m \in Nat BY <2>4, <2>5, <2>6
  <2>7. PacketOf(f, l, Blocked(m) + k) = f[l + m][k] BY <2>11, PacketPlace
  <2>8. l + m = cmd.lba + i + (j - 1) BY <2>4, <2>6, <1>2, <1>3
  <2>9. f[l + m] = Contents(l + m, cmd.v) BY <2>6, <2>8
  <2>10. Contents(l + m, cmd.v)[k] = <<"data", l + m, k, cmd.v>> BY DEF Contents
  <2> QED BY <2>2, <2>3, <2>6, <2>7, <2>8, <2>9, <2>10 DEF Written
<1>8. (j - 1) * BlockPackets = Blocked(j - 1) /\ j * BlockPackets = Blocked(j - 1) + BlockPackets BY <1>4 DEF Blocked
<1> QED BY <1>6, <1>7, <1>8 DEF Contents

LEMMA SeqCut ==
    ASSUME NEW s, IsSeq(s), NEW m \in 0 .. Len(s), NEW e
    PROVE  DOMAIN Append(SubSeq(s, 1, m), e) = 1 .. m + 1
<1>0. Len(s) \in Nat BY SeqLen
<1>1. SubSeq(s, 0 + 1, 0 + m) = [k \in 1 .. m |-> s[0 + k]] BY <1>0, SeqPart
<1>2. SubSeq(s, 1, m) = [k \in 1 .. m |-> s[k]] BY <1>0, <1>1
<1>3. IsSeq(SubSeq(s, 1, m)) /\ Len(SubSeq(s, 1, m)) = m
  <2>1. PICK f : f = SubSeq(s, 1, m) OBVIOUS
  <2>2. f = [k \in 1 .. m |-> f[k]] BY <1>2, <2>1
  <2>3. m \in Nat BY <1>0
  <2>4. IsSeq(f) /\ Len(f) = m BY <2>2, <2>3, SeqOf
  <2> QED BY <2>1, <2>4
<1>4. IsSeq(Append(SubSeq(s, 1, m), e)) /\ Len(Append(SubSeq(s, 1, m), e)) = m + 1 BY <1>3, SeqAppend
<1> QED BY <1>4, SeqLen

LEMMA RangeIs ==
    ASSUME NEW c \in Cbw, NEW x \in BlockNo
    PROVE  (x \in Range(c) <=> c.lba <= x /\ x < c.lba + c.n) /\ x \in Nat /\ c.lba \in Nat /\ c.n \in Nat
<1>1. x \in Nat BY CardAssumption DEF BlockNo
<1>2. c.lba \in Nat /\ c.n \in Nat BY DEF Cbw
<1> QED BY <1>1, <1>2 DEF Range

\* The pair is stored where the host wanted it.
LEMMA StageStore == ASSUME IInv, Store PROVE Where'
<1>1. stage = "store" /\ stage' = "write" /\ UNCHANGED <<cbw, tosend, buf, sense, inPipe, outPipe, busReset, host>>
  BY DEF Store, bus
<1>2. UNCHANGED <<phase, cmd, got, told, disk>> BY <1>1 DEF host
<1>3. Working /\ WorkInv /\ AtStore BY <1>1, Settled DEF WorkInv
<1>4. cmd.op = "write" /\ Quiet /\ i < cmd.n /\ Len(buf) = Blocked(Pair)
      /\ Len(got) = Blocked(i) + Len(buf) + Len(outPipe)
  BY <1>3 DEF AtStore, Held
<1>5. /\ i <= cmd.n /\ i \in Nat /\ cmd.n \in Nat /\ Whole(cmd) = Blocked(cmd.n)
      /\ Blocked(i) \in Nat /\ Blocked(cmd.n) \in Nat /\ Blocked(i) <= Whole(cmd)
      /\ cmd \in Cbw /\ Agrees(cmd) /\ cbw = cmd
  BY <1>3, <1>4, BlocksBound
<1>6. Pair \in 1 .. 2 /\ i + Pair <= cmd.n BY <1>1, <1>4, <1>5, PairFits
<1>7. i' = i + Pair BY DEF Store
<1> DEFINE data == [j \in 1 .. Pair |-> SubSeq(buf, (j - 1) * BlockPackets + 1, j * BlockPackets)]
<1>8. CardWrite(cmd.lba + i, data) BY <1>5 DEF Store
<1>9. data = [j \in 1 .. Pair |-> data[j]] /\ DOMAIN data = 1 .. Pair
      /\ \A j \in 1 .. Pair : data[j] = SubSeq(buf, (j - 1) * BlockPackets + 1, j * BlockPackets)
  OBVIOUS
<1> HIDE DEF data
<1>10. IsSeq(data) /\ Len(data) = Pair BY <1>6, <1>9, SeqOf
<1>11. \/ block' = Stored(cmd.lba + i, data) /\ failed' = failed
       \/ failed' = TRUE /\ \E part : DOMAIN part \subseteq 1 .. Pair /\ block' = Stored(cmd.lba + i, part)
  <2>1. CASE block' = Stored(cmd.lba + i, data) /\ failed' = failed BY <2>1
  <2>2. CASE ~(block' = Stored(cmd.lba + i, data) /\ failed' = failed)
    <3>1. failed' = TRUE BY <1>8, <2>2 DEF CardWrite
    <3>2. \E k \in 1 .. Len(data) : \E d : block' = Stored(cmd.lba + i, Append(SubSeq(data, 1, k - 1), d))
      BY <1>8, <2>2 DEF CardWrite
    <3>30. PICK k \in 1 .. Len(data) : \E d : block' = Stored(cmd.lba + i, Append(SubSeq(data, 1, k - 1), d))
      BY <3>2
    <3>3. PICK d : block' = Stored(cmd.lba + i, Append(SubSeq(data, 1, k - 1), d))
      BY <3>30
    <3>4. k - 1 \in 0 .. Len(data) BY <1>6, <1>10
    <3>5. DOMAIN Append(SubSeq(data, 1, k - 1), d) = 1 .. (k - 1) + 1 BY <3>4, <1>10, SeqCut
    <3>6. 1 .. (k - 1) + 1 \subseteq 1 .. Pair BY <1>6, <1>10
    <3> QED BY <3>1, <3>3, <3>5, <3>6
  <2> QED BY <2>1, <2>2
<1>12. PICK part : DOMAIN part \subseteq 1 .. Pair /\ block' = Stored(cmd.lba + i, part)
                /\ (~failed' => ~failed /\ part = data)
  <2>1. CASE block' = Stored(cmd.lba + i, data) /\ failed' = failed BY <2>1, <1>9
  <2>2. CASE failed' = TRUE /\ \E part : DOMAIN part \subseteq 1 .. Pair /\ block' = Stored(cmd.lba + i, part) BY <2>2
  <2> QED BY <1>11, <2>1, <2>2
<1>13. failed => failed' BY <1>12
<1>14. Talk' BY <1>2, <1>3, <1>13, TalkKept DEF WorkInv
<1>15. BlockInv /\ cmd.lba \in Nat BY <1>3, <1>5 DEF WorkInv, Cbw
<1>16. ASSUME failed', NEW b \in BlockNo, b \notin Range(cmd) PROVE block'[b] = disk[b]
  <2>1. ~(cmd.lba <= b /\ b < cmd.lba + cmd.n) /\ b \in Nat BY <1>5, <1>16, RangeIs
  <2>2. Stored(cmd.lba + i, part)[b] = block[b]
    <3>1. PICK l, n, p, q : l = cmd.lba /\ n = cmd.n /\ p = Pair /\ q = i OBVIOUS
    <3>2. l \in Nat /\ n \in Nat /\ p \in Nat /\ q \in Nat /\ q + p <= n BY <3>1, <1>5, <1>6, <1>15
    <3>3. DOMAIN part \subseteq 1 .. p /\ ~(l <= b /\ b < l + n) BY <3>1, <2>1, <1>12
    <3>4. l \in Nat /\ n \in Nat /\ p \in Nat /\ q \in Nat BY <3>2
    <3>5. q + p <= n BY <3>2
    <3>6. DOMAIN part \subseteq 1 .. p BY <3>3
    <3>7. ~(l <= b /\ b < l + n) BY <3>3
    <3>9. b - (l + q) + 1 \notin 1 .. p BY <2>1, <3>4, <3>5, <3>7
    <3>10. b - (l + q) + 1 \notin DOMAIN part BY <3>6, <3>9
    <3>8. Stored(l + q, part)[b] = block[b] BY <3>10 DEF Stored
    <3> QED BY <3>1, <3>8
  <2>3. block[b] = disk[b]
    <3>1. CASE failed BY <3>1, <1>4, <1>15, <1>16 DEF BlockInv
    <3>2. CASE ~failed
      <4>1. ~(cmd.lba <= b /\ b < cmd.lba + i) BY <2>1, <1>5, <1>15
      <4> QED BY <3>2, <4>1, <1>4, <1>15 DEF BlockInv
    <3> QED BY <3>1, <3>2
  <2> QED BY <2>2, <2>3, <1>12
<1>17. ASSUME ~failed', NEW b \in BlockNo
       PROVE  block'[b] = IF cmd.lba <= b /\ b < cmd.lba + i' THEN Contents(b, cmd.v) ELSE disk[b]
  <2>0. block' = Stored(cmd.lba + i, data) /\ ~failed BY <1>12, <1>17
  <2>1. b \in Nat BY <1>5, RangeIs
  <2>2. block[b] = IF cmd.lba <= b /\ b < cmd.lba + i THEN Contents(b, cmd.v) ELSE disk[b]
    BY <2>0, <1>4, <1>15 DEF BlockInv
  <2>3. CASE cmd.lba + i <= b /\ b < cmd.lba + i + Pair
    <3>1. PICK j : j = b - (cmd.lba + i) + 1 OBVIOUS
    <3>2. j \in 1 .. Pair /\ cmd.lba + i + (j - 1) = b BY <2>1, <2>3, <3>1, <1>5, <1>6, <1>15
    <3>3. data[j] = Contents(b, cmd.v) BY <3>2, <1>1, <1>9, BlocksHeld
    <3>4. block'[b] = data[j] BY <2>0, <3>1, <3>2, <1>9 DEF Stored
    <3>5. cmd.lba <= b /\ b < cmd.lba + i' BY <2>1, <2>3, <1>5, <1>6, <1>7, <1>15
    <3> QED BY <3>3, <3>4, <3>5
  <2>4. CASE ~(cmd.lba + i <= b /\ b < cmd.lba + i + Pair)
    <3>1. b - (cmd.lba + i) + 1 \notin 1 .. Pair BY <2>1, <2>4, <1>5, <1>6, <1>15
    <3>2. block'[b] = block[b] BY <2>0, <3>1, <1>9 DEF Stored
    <3>3. (cmd.lba <= b /\ b < cmd.lba + i') <=> (cmd.lba <= b /\ b < cmd.lba + i)
      BY <2>1, <2>4, <1>5, <1>6, <1>7, <1>15
    <3> QED BY <2>2, <3>2, <3>3
  <2> QED BY <2>3, <2>4
<1>18. block' = [b \in BlockNo |-> block'[b]] BY <1>12 DEF Stored
<1>19. BlockInv'
  <2>1. ~failed' => block' = [b \in BlockNo |-> IF cmd.lba <= b /\ b < cmd.lba + i' THEN Contents(b, cmd.v)
                                                ELSE disk[b]]
    BY <1>17, <1>18
  <2> QED BY <2>1, <1>16, <1>4, <1>2 DEF BlockInv, Range
<1>20. \A k \in 1 .. Len(outPipe) : Queued(outPipe[k], k)' BY <1>1, <1>2, <1>3 DEF WorkInv, Queued
<1>21. Quiet' BY <1>1, <1>4 DEF Quiet
<1>22. Blocked(i') = Blocked(i) + Blocked(Pair) BY <1>5, <1>6, <1>7, BlockedSum
<1>23. Len(got') = Blocked(i') + Len(outPipe') BY <1>1, <1>2, <1>4, <1>5, <1>22, Types
<1>24. AtWrite' BY <1>2, <1>4, <1>21, <1>23 DEF AtWrite
<1>25. told = "failed" => sense # "none" BY <1>1, <1>3 DEF WorkInv
<1>26. WorkInv' BY <1>1, <1>2, <1>3, <1>5, <1>14, <1>19, <1>20, <1>24, <1>25 DEF WorkInv
<1> QED BY <1>1, <1>26 DEF Where, Free, Stalled, Working

\* The status is the right one, for the 13 cases that the commands leave.
LEMMA StageProcessStatus == ASSUME IInv, ProcessStatus PROVE Where'
<1>1. stage = "status" /\ UNCHANGED <<cbw, i, buf, inPipe, outPipe, busReset, host, cardVars>>
  BY DEF ProcessStatus, bus
<1>2. UNCHANGED <<phase, cmd, got, told, disk, block, failed>> BY <1>1 DEF host, cardVars
<1>3. Working /\ WorkInv /\ AtStatus /\ Quiet BY <1>1, Settled DEF WorkInv
<1>4. cbw = cmd /\ cmd \in Cbw /\ Agrees(cmd) BY <1>3 DEF WorkInv, Talk
<1>5. Talk' /\ BlockInv' BY <1>1, <1>2, <1>3, TalkKept, BlockKept DEF WorkInv
<1>6. \A k \in 1 .. Len(outPipe) : Queued(outPipe[k], k)' BY <1>1, <1>2, <1>3 DEF WorkInv, Queued
<1>7. PICK r : r = IF cmd.op = "prevent" THEN "failed" ELSE "passed" OBVIOUS
<1>8. Status(cmd, r) = IF cmd.op \in {"prevent", "unknown"} THEN "failed" ELSE "passed"
  <2>1. HostWants(cmd) = DeviceWants(cmd) BY <1>4 DEF Agrees
  <2>2. cmd.host >= DeviceLength(cmd) BY <1>4, Directions
  <2>3. Status(cmd, r) = IF cmd.op = "unknown" THEN "failed" ELSE r BY <2>1, <2>2 DEF Status
  <2> QED BY <2>3, <1>7
<1>9. /\ tosend' = <<Packet("csw", Short, [status |-> Status(cmd, r), residue |-> Residue(cmd)])>> /\ stage' = "csw"
      /\ sense' = IF Status(cmd, r) # "failed" THEN "none" ELSE IF sense = "none" THEN "recovered" ELSE sense
  BY <1>4, <1>7 DEF ProcessStatus, Send
<1>10. tosend' = <<Csw>> BY <1>8, <1>9 DEF Csw
<1>11. Csw' = Csw BY <1>2 DEF Csw
<1>12. Csw.load.status = Status(cmd, r) BY <1>8 DEF Csw, Packet
<1>13. Csw.load.status = "failed" => sense' # "none" BY <1>9, <1>12
<1>14. AtStatus' BY <1>1, <1>2, <1>3 DEF AtStatus
<1>15. inPipe' = None BY <1>1, <1>3 DEF Quiet
<1>16. tosend' # << >> BY <1>10
<1>17. WorkInv' BY <1>1, <1>2, <1>3, <1>4, <1>5, <1>6, <1>9, <1>10, <1>11, <1>13, <1>14, <1>15 DEF WorkInv
<1> QED BY <1>9, <1>16, <1>17 DEF Where, Free, Stalled, Working

\* The status was taken.
LEMMA StageStatusDone == ASSUME IInv, StatusDone PROVE Where'
<1>1. stage = "csw" /\ tosend = << >> /\ ~busy /\ stage' = "main"
      /\ UNCHANGED <<tosend, sense, inPipe, outPipe, host, cardVars>>
  BY DEF StatusDone, AllSent, bus
<1>2. UNCHANGED <<phase, cmd, got, told, disk, block, failed>> BY <1>1 DEF host, cardVars
<1>3. inPipe = None BY <1>1 DEF IInv, Wire
<1>4. FreeInv BY <1>1, <1>3, Settled DEF Free
<1>5. FreeInv' BY <1>1, <1>2, <1>4, FreeKept
<1> QED BY <1>1, <1>5 DEF Where, Free, Stalled, Working

-----------------------------------------------------------------------------
(* The host.                                                                 *)
\* A command that agrees begins with no data moved.
LEMMA CommandFits ==
    ASSUME NEW c \in Commands, NEW v \in {0, 1}, NEW d, Agrees(d),
           d = [op |-> c.op, lba |-> c.lba, n |-> c.n, host |-> c.host, in |-> c.in, v |-> v]
    PROVE  /\ d \in Cbw
           /\ (IF c.host = 0 THEN "status" ELSE IF c.in THEN "dataIn" ELSE "dataOut")
                = IF 0 >= Whole(d) THEN "status" ELSE IF d.in THEN "dataIn" ELSE "dataOut"
<1>1. c \in [op : Op, lba : Nat, n : Nat, host : Nat, in : BOOLEAN] BY HostAssumption
<1>2. d \in Cbw BY <1>1 DEF Cbw
<1>3. d.host = c.host /\ d.in = c.in OBVIOUS
<1>4. Whole(d) \in Nat BY <1>2, Lengths
<1>5. Whole(d) = 0 <=> d.host = 0 BY <1>2, <1>4, Directions
<1> QED BY <1>2, <1>3, <1>4, <1>5

\* The host sends a command.
LEMMA StageHostCommand == ASSUME IInv, ~astray', HostCommand PROVE Where'
<1>1. phase = "idle" BY DEF HostCommand, Begins
<1>2. Free /\ FreeInv /\ outPipe = << >> BY <1>1, IdleFree
<1>3. PICK c \in Commands, v \in {0, 1} :
          /\ cmd' = [op |-> c.op, lba |-> c.lba, n |-> c.n, host |-> c.host, in |-> c.in, v |-> v]
          /\ ToDevice("cbw", Short, cmd')
          /\ phase' = IF c.host = 0 THEN "status" ELSE IF c.in THEN "dataIn" ELSE "dataOut"
  BY DEF HostCommand
<1>4. got' = << >> /\ UNCHANGED <<told, disk>> BY DEF HostCommand
<1>5. UNCHANGED <<stage, tosend, sense, inPipe, block, failed>> BY <1>3 DEF ToDevice, device, cardVars
<1>6. Len(got') = 0 BY <1>4, SeqEmpty
<1>7. Talk'
  <2>1. PICK d : d = cmd' OBVIOUS
  <2>2. d \in Cbw /\ Agrees(d) /\ phase' = (IF 0 >= Whole(d) THEN "status" ELSE IF d.in THEN "dataIn" ELSE "dataOut")
    <3>1. Agrees(d) BY <2>1 DEF HostCommand
    <3> QED BY <1>3, <2>1, <3>1, CommandFits
  <2>3. Whole(d) \in Nat BY <2>2, Lengths
  <2> QED BY <1>6, <2>1, <2>2, <2>3 DEF Talk
<1>8. outPipe' = Append(outPipe, [kind |-> "cbw", len |-> Short, load |-> cmd', bank |-> fillbank])
  BY <1>3 DEF ToDevice
<1>9. /\ outPipe' # << >> /\ Len(outPipe') = 1 /\ outPipe'[1].kind = "cbw" /\ outPipe'[1].load = cmd'
  <2>1. PICK e : e = [kind |-> "cbw", len |-> Short, load |-> cmd', bank |-> fillbank] OBVIOUS
  <2>2. outPipe' = Append(<< >>, e) BY <1>2, <1>8, <2>1
  <2>3. outPipe' # << >> /\ Len(outPipe') = 1 /\ outPipe'[1] = e BY <2>2, SeqAppend, SeqEmpty
  <2> QED BY <2>1, <2>3
<1>10. Opened' BY <1>6, <1>7, <1>9 DEF Opened
<1>11. FreeInv' BY <1>2, <1>4, <1>5, <1>10 DEF FreeInv
<1>12. Free' BY <1>2, <1>5 DEF Free
<1> QED BY <1>11, <1>12, <1>5, <1>2 DEF Where, Free, Stalled, Working

\* The host sends what is no command.
LEMMA StageHostBad == ASSUME IInv, HostBad PROVE Where'
<1>1. phase = "idle" /\ phase' = "badIn" /\ ToDevice("junk", Short, << >>) /\ UNCHANGED <<cmd, got, told, disk>>
  BY DEF HostBad, Begins
<1>2. Free /\ FreeInv /\ outPipe = << >> BY <1>1, IdleFree
<1>3. UNCHANGED <<stage, tosend, sense, inPipe, block, failed>> BY <1>1 DEF ToDevice, device, cardVars
<1>4. Len(outPipe') = 1 /\ outPipe'[1].kind = "junk"
  <2>1. PICK e : e = [kind |-> "junk", len |-> Short, load |-> << >>, bank |-> fillbank] OBVIOUS
  <2>2. outPipe' = Append(<< >>, e) BY <1>1, <1>2, <2>1 DEF ToDevice
  <2>3. Len(outPipe') = 1 /\ outPipe'[1] = e BY <2>2, SeqAppend, SeqEmpty
  <2> QED BY <2>1, <2>3
<1>5. FreeInv' BY <1>1, <1>2, <1>3, <1>4 DEF FreeInv
<1> QED BY <1>2, <1>3, <1>5 DEF Where, Free, Stalled, Working

\* It meets the two stalls.
LEMMA StageStalls == ASSUME IInv, ~astray', HostStallIn \/ HostStallOut PROVE Where'
<1>1. UNCHANGED <<tosend, sense, inPipe, outPipe, cmd, got, told, disk, block, failed>>
  BY DEF HostStallIn, HostStallOut, bus, cardVars
<1>2. StalledInv BY Settled DEF HostStallIn, HostStallOut, Stalled
<1>3. CASE HostStallIn
  <2>1. stage' = "stallOut" /\ phase' = "badOut" BY <1>3 DEF HostStallIn
  <2>2. StalledInv' BY <1>1, <1>2, <2>1 DEF StalledInv
  <2> QED BY <2>1, <2>2 DEF Where, Free, Stalled, Working
<1>4. CASE HostStallOut
  <2>1. stage' = "main" /\ phase' = "idle" BY <1>4 DEF HostStallOut
  <2>2. FreeInv' BY <1>1, <1>2, <2>1 DEF StalledInv, FreeInv
  <2> QED BY <2>1, <2>2 DEF Where, Free, Stalled, Working
<1> QED BY <1>3, <1>4

\* Between commands a reset leaves the pipes empty, as they were.
LEMMA StageReset == ASSUME IInv, ~astray, ~astray', Reset PROVE Where'
<1>1. stage = "main" /\ phase' = "idle" /\ outPipe' = << >> /\ inPipe' = None /\ disk' = block /\ failed' = FALSE
      /\ UNCHANGED <<device, cmd, got, told, block>>
  BY DEF Reset
<1>2. UNCHANGED <<stage, tosend, sense>> BY <1>1 DEF device
<1>3. FreeInv BY <1>1, Settled
<1>4. FreeInv' BY <1>1, <1>2, <1>3 DEF FreeInv
<1> QED BY <1>1, <1>2, <1>4 DEF Where, Free, Stalled, Working

\* At the end of a command the card holds what the host expects.
LEMMA KnownIsBlock ==
    ASSUME IInv, Working, WorkInv, AtStatus
    PROVE  HostKnows(cmd) = block
<1>1. BlockInv /\ cmd \in Cbw BY DEF WorkInv, Talk
<1>2. block = [b \in BlockNo |-> block[b]] /\ disk = [b \in BlockNo |-> disk[b]] BY DEF IInv, TypeInv
<1>3. CASE failed BY <1>3 DEF HostKnows
<1>4. CASE ~failed /\ cmd.op # "write"
  <2>1. block = disk BY <1>1, <1>4 DEF BlockInv
  <2>2. HostKnows(cmd) = [b \in BlockNo |-> disk[b]] BY <1>4 DEF HostKnows
  <2> QED BY <1>2, <2>1, <2>2
<1>5. CASE ~failed /\ cmd.op = "write"
  <2>1. i = cmd.n BY <1>5 DEF AtStatus
  <2>2. block = [b \in BlockNo |-> IF cmd.lba <= b /\ b < cmd.lba + cmd.n THEN Contents(b, cmd.v) ELSE disk[b]]
    BY <1>1, <1>5, <2>1 DEF BlockInv
  <2>3. \A b \in BlockNo : b \in Range(cmd) <=> cmd.lba <= b /\ b < cmd.lba + cmd.n BY <1>1, RangeIs
  <2>4. HostKnows(cmd) = [b \in BlockNo |-> IF b \in Range(cmd) THEN Contents(b, cmd.v) ELSE disk[b]]
    BY <1>5 DEF HostKnows
  <2> QED BY <2>2, <2>3, <2>4
<1> QED BY <1>3, <1>4, <1>5

\* The host takes the status.
LEMMA StageHostStatus == ASSUME IInv, HostStatus PROVE Where'
<1>1. phase = "status" /\ TakeIn /\ phase' = "idle" /\ failed' = FALSE /\ disk' = HostKnows(cmd)
      /\ told' = (IF inPipe.kind = "csw" THEN inPipe.load.status ELSE "garbled")
      /\ UNCHANGED <<cmd, got, block>>
  BY DEF HostStatus
<1>2. inPipe # None /\ inPipe' = None /\ UNCHANGED <<outPipe, device>> BY <1>1 DEF TakeIn
<1>3. UNCHANGED <<stage, tosend, sense, i>> BY <1>2 DEF device
<1>4. inPipe = Csw /\ stage = "csw" /\ Working /\ WorkInv BY <1>1, <1>2, CsWait
<1>5. tosend = << >> /\ AtStatus /\ (Csw.load.status = "failed" => sense # "none") BY <1>2, <1>4 DEF WorkInv
<1>6. outPipe = << >> BY <1>5 DEF AtStatus
<1>7. told' = Csw.load.status BY <1>1, <1>4, CswShape
<1>8. disk' = block' BY <1>1, <1>4, <1>5, KnownIsBlock
<1>9. FreeInv' BY <1>1, <1>2, <1>3, <1>5, <1>6, <1>7, <1>8 DEF FreeInv
<1> QED BY <1>2, <1>3, <1>4, <1>5, <1>9 DEF Where, Free, Stalled, Working

\* The host's next packet of a write.
LEMMA StageHostPut == ASSUME IInv, HostPut PROVE Where'
<1>1. phase = "dataOut" /\ ToDevice("data", Full, Written(cmd, Len(got) + 1))
      /\ got' = Append(got, Packet("data", Full, Written(cmd, Len(got) + 1)))
      /\ phase' = (IF Full * Len(got') >= cmd.host THEN "status" ELSE "dataOut")
      /\ UNCHANGED <<cmd, told, disk>>
  BY DEF HostPut
<1>2. UNCHANGED <<stage, cbw, i, tosend, buf, remaining, sense, inPipe, busReset, block, failed>> /\ ~busReset
  BY <1>1 DEF ToDevice, device, cardVars
<1>3. (Free /\ FreeInv /\ Opened) \/ (Working /\ WorkInv) BY <1>1, Settled DEF FreeInv, StalledInv
<1>4. Talk BY <1>3 DEF Opened, WorkInv
<1>5. cmd \in Cbw /\ Agrees(cmd) /\ Len(got) < Whole(cmd) /\ ~cmd.in /\ Whole(cmd) \in Nat
  <2>1. cmd \in Cbw /\ Agrees(cmd) BY <1>4 DEF Talk
  <2>2. Whole(cmd) \in Nat BY <2>1, Lengths
  <2>3. ~(Len(got) >= Whole(cmd)) /\ ~cmd.in BY <1>1, <1>4 DEF Talk
  <2> QED BY <2>1, <2>2, <2>3, Types
<1>6. cmd.op = "write" BY <1>5, Directions, Types
<1>7. PICK n : n = Len(got) + 1 OBVIOUS
<1>8. n \in 1 .. Whole(cmd) BY <1>5, <1>7, Types
<1>9. DueLen(cmd, n) = Full /\ (Full * n >= cmd.host <=> n >= Whole(cmd)) BY <1>5, <1>6, <1>8, LastPacket
<1>10. /\ Len(got') = n /\ got'[n] = Packet("data", Full, Written(cmd, n))
       /\ \A k \in 1 .. Len(got) : got'[k] = got[k]
  <2>1. PICK e : e = Packet("data", Full, Written(cmd, n)) OBVIOUS
  <2>2. got' = Append(got, e) BY <1>1, <1>7, <2>1
  <2> QED BY <2>1, <2>2, <1>7, SeqAppend, Types
<1>11. ASSUME NEW k \in 1 .. Len(got') PROVE Due(got[k], k)'
  <2>1. CASE k = n
    <3>1. got'[k].load = Written(cmd, n) BY <1>10, <2>1 DEF Packet
    <3>2. got'[k] = Packet("data", DueLen(cmd, k), got'[k].load) BY <1>9, <1>10, <2>1, <3>1
    <3> QED BY <3>2, <1>1, <1>6 DEF Due
  <2>2. CASE k # n
    <3>1. k \in 1 .. Len(got) BY <2>2, <1>7, <1>10, Types
    <3>2. PICK p : p = got[k] OBVIOUS
    <3>3. Due(p, k) BY <3>1, <3>2, <1>4 DEF Talk
    <3>4. Due(p, k)' BY <3>3, <1>1, <1>2, DueKept
    <3>5. p = got'[k] BY <3>1, <3>2, <1>10
    <3> QED BY <3>4, <3>5
  <2> QED BY <2>1, <2>2
<1>12. phase' = IF Len(got') >= Whole(cmd) THEN "status" ELSE IF cmd.in THEN "dataIn" ELSE "dataOut"
  BY <1>1, <1>5, <1>9, <1>10
<1>13. Len(got') <= Whole(cmd) BY <1>8, <1>10
<1>14. Talk' BY <1>1, <1>5, <1>11, <1>12, <1>13 DEF Talk
<1>15. /\ Len(outPipe') = Len(outPipe) + 1 /\ outPipe' # << >>
       /\ outPipe'[Len(outPipe) + 1].kind = "data" /\ outPipe'[Len(outPipe) + 1].len = Full
       /\ outPipe'[Len(outPipe) + 1].load = Written(cmd, n)
       /\ \A k \in 1 .. Len(outPipe) : outPipe'[k] = outPipe[k]
  <2>1. PICK e : e = [kind |-> "data", len |-> Full, load |-> Written(cmd, n), bank |-> fillbank] OBVIOUS
  <2>2. outPipe' = Append(outPipe, e) BY <1>1, <1>7, <2>1 DEF ToDevice
  <2>3. Len(outPipe') = Len(outPipe) + 1 /\ outPipe' # << >> /\ outPipe'[Len(outPipe) + 1] = e
        /\ \A k \in 1 .. Len(outPipe) : outPipe'[k] = outPipe[k]
    BY <2>2, SeqAppend, Types
  <2> QED BY <2>1, <2>3
<1>16. ASSUME NEW k \in 1 .. Len(outPipe'), k # Len(outPipe) + 1 => Queued(outPipe[k], k)
       PROVE  Queued(outPipe[k], k)'
  <2>1. Len(got') - Len(outPipe') + k = Len(got) - Len(outPipe) + k BY <1>7, <1>10, <1>15, Types
  <2>2. PICK m : m = Len(got) - Len(outPipe) + k OBVIOUS
  <2>3. outPipe'[k].kind = "data" /\ outPipe'[k].len = Full /\ outPipe'[k].load = Written(cmd, m)
    <3>1. CASE k = Len(outPipe) + 1
      <4>1. m = n BY <3>1, <2>2, <1>7, Types
      <4> QED BY <3>1, <4>1, <1>15
    <3>2. CASE k # Len(outPipe) + 1
      <4>1. k \in 1 .. Len(outPipe) BY <3>2, <1>15, Types
      <4>2. outPipe[k].kind = "data" /\ outPipe[k].len = Full /\ outPipe[k].load = Written(cmd, m)
        BY <1>16, <3>2, <2>2 DEF Queued
      <4> QED BY <4>1, <4>2, <1>15
    <3> QED BY <3>1, <3>2
  <2>4. Len(got') - Len(outPipe') + k = m BY <2>1, <2>2
  <2>5. outPipe'[k].load = Written(cmd', m) BY <2>3, <1>1
  <2> QED BY <2>3, <2>4, <2>5, <1>1, <1>6 DEF Queued
<1>17. CASE Free /\ FreeInv /\ Opened
  <2>1. Len(outPipe) \in Nat \ {0} BY <1>17, SeqLen, Types DEF Opened
  <2>2. \A k \in 2 .. Len(outPipe') : Queued(outPipe[k], k)'
    <3> TAKE k \in 2 .. Len(outPipe')
    <3>1. k \in 1 .. Len(outPipe') BY <1>15, <2>1
    <3>2. k # Len(outPipe) + 1 => Queued(outPipe[k], k) BY <1>15, <1>17, <2>1 DEF Opened
    <3> QED BY <3>1, <3>2, <1>16
  <2>3. outPipe'[1] = outPipe[1] BY <1>15, <2>1
  <2>4. Len(outPipe') = Len(got') + 1 BY <1>7, <1>10, <1>15, <1>17 DEF Opened
  <2>5. outPipe'[1].kind = "cbw" /\ outPipe'[1].load = cmd' BY <2>3, <1>1, <1>17 DEF Opened
  <2>6. Opened' BY <2>2, <2>4, <2>5, <1>14, <1>15 DEF Opened
  <2>7. block = disk /\ ~failed BY <1>17 DEF FreeInv
  <2>8. FreeInv' BY <1>1, <1>2, <1>17, <2>6, <2>7 DEF FreeInv
  <2> QED BY <1>2, <1>17, <2>8 DEF Where, Free, Stalled, Working
<1>18. CASE Working /\ WorkInv
  <2>1. \A k \in 1 .. Len(outPipe') : Queued(outPipe[k], k)'
    <3> TAKE k \in 1 .. Len(outPipe')
    <3>1. k # Len(outPipe) + 1 => Queued(outPipe[k], k) BY <1>15, <1>18, Types DEF WorkInv
    <3> QED BY <3>1, <1>16
  <2>2. BlockInv' BY <1>1, <1>2, <1>18, BlockKept DEF WorkInv
  <2>3. stage \notin {"read", "send", "status", "csw"} 
    <3>1. stage \notin {"read", "send"} BY <1>6, <1>18 DEF WorkInv, AtRead, AtSend
    <3>2. ASSUME stage \in {"status", "csw"} PROVE FALSE
      <4>1. AtStatus BY <1>18, <3>2 DEF WorkInv
      <4> QED BY <4>1, <1>5 DEF AtStatus
    <3> QED BY <3>1, <3>2
  <2>4. Quiet => Quiet' BY <1>2 DEF Quiet
  <2>5. stage = "command" => AtCommand' BY <1>2, <1>7, <1>10, <1>15, <1>18, <2>4 DEF WorkInv, AtCommand
  <2>6. Blocked(i) \in Nat /\ i' = i BY <1>2, Types, BlockedNat
  <2>7. Len(got') = Len(got) + 1 /\ Len(outPipe') = Len(outPipe) + 1 BY <1>7, <1>10, <1>15
  <2>8. stage = "write" => AtWrite'
    <3> SUFFICES ASSUME stage = "write" PROVE AtWrite' OBVIOUS
    <3>1. Quiet /\ Len(got) = Blocked(i) + Len(outPipe) BY <1>18 DEF WorkInv, AtWrite
    <3>2. Len(got') = Blocked(i') + Len(outPipe') BY <3>1, <2>6, <2>7, Types
    <3> QED BY <3>1, <3>2, <2>4, <1>1, <1>6 DEF AtWrite
  <2>9. Pair' = Pair /\ cmd' = cmd /\ buf' = buf /\ remaining' = remaining BY <1>1, <1>2 DEF Pair
  <2>10. stage = "recv" => AtRecv'
    <3> SUFFICES ASSUME stage = "recv" PROVE AtRecv' OBVIOUS
    <3>1. AtRecv BY <1>18 DEF WorkInv
    <3>2. Len(got) = Blocked(i) + Len(buf) + Len(outPipe) BY <3>1 DEF AtRecv
    <3>3. Len(got') = Blocked(i') + Len(buf') + Len(outPipe') BY <3>2, <2>6, <2>7, <2>9, Types
    <3> QED BY <3>1, <3>3, <2>4, <2>6, <2>9 DEF AtRecv, Held
  <2>11. stage = "store" => AtStore'
    <3> SUFFICES ASSUME stage = "store" PROVE AtStore' OBVIOUS
    <3>1. AtStore BY <1>18 DEF WorkInv
    <3>2. Len(got) = Blocked(i) + Len(buf) + Len(outPipe) BY <3>1 DEF AtStore
    <3>3. Len(got') = Blocked(i') + Len(buf') + Len(outPipe') BY <3>2, <2>6, <2>7, <2>9, Types
    <3> QED BY <3>1, <3>3, <2>4, <2>6, <2>9 DEF AtStore, Held
  <2>12. cbw' = cmd' /\ ~busReset' /\ (told' = "failed" => sense' # "none")
    BY <1>1, <1>2, <1>18, <2>3 DEF WorkInv
  <2>13. WorkInv' BY <1>2, <1>14, <2>1, <2>2, <2>3, <2>5, <2>8, <2>10, <2>11, <2>12 DEF WorkInv
  <2> QED BY <1>2, <1>18, <2>13 DEF Where, Free, Stalled, Working
<1> QED BY <1>3, <1>17, <1>18

\* The host takes a packet of data: the last one when the device thinks so.
LEMMA StageHostTake == ASSUME IInv, HostTake PROVE Where'
<1>1. phase = "dataIn" /\ TakeIn /\ got' = Append(got, inPipe)
      /\ phase' = (IF inPipe.len = Short \/ Full * Len(got') >= cmd.host THEN "status" ELSE "dataIn")
      /\ UNCHANGED <<cmd, told, disk, cardVars>>
  BY DEF HostTake
<1>2. inPipe # None /\ inPipe' = None
      /\ UNCHANGED <<stage, cbw, i, tosend, buf, remaining, sense, outPipe, busReset, block, failed>>
  BY <1>1 DEF TakeIn, device, cardVars
<1>3. stage \in {"send", "csw"} /\ Working /\ WorkInv
  <2>1. stage \in {"send", "csw"} BY <1>2 DEF IInv, Wire
  <2>2. Working BY <1>2, <2>1 DEF Working, Free, Stalled
  <2> QED BY <2>1, <2>2, Settled
<1>4. cmd \in Cbw /\ Agrees(cmd) /\ Len(got) < Whole(cmd) /\ cmd.in /\ Whole(cmd) \in Nat
  <2>1. cmd \in Cbw /\ Agrees(cmd) BY <1>3 DEF WorkInv, Talk
  <2>2. Whole(cmd) \in Nat BY <2>1, Lengths
  <2>3. cmd.in \in BOOLEAN BY <2>1, Directions
  <2>4. ~(Len(got) >= Whole(cmd)) /\ cmd.in BY <1>1, <1>3, <2>3 DEF WorkInv, Talk
  <2> QED BY <2>1, <2>2, <2>4, Types
<1>5. stage = "send" /\ AtSend
  <2>1. stage # "csw"
    <3> SUFFICES ASSUME stage = "csw" PROVE FALSE OBVIOUS
    <3>1. Len(got) = Whole(cmd) BY <1>3 DEF WorkInv, AtStatus
    <3> QED BY <3>1, <1>4
  <2> QED BY <2>1, <1>3 DEF WorkInv
<1>6. PICK n : n = Len(got) + 1 OBVIOUS
<1>7. n \in 1 .. Whole(cmd) BY <1>4, <1>6, Types
<1>8. Due(inPipe, n) BY <1>2, <1>5, <1>6 DEF AtSend
<1>9. inPipe.len = DueLen(cmd, n) BY <1>8 DEF Due, Packet
<1>10. inPipe.len = Short \/ Full * n >= cmd.host <=> n >= Whole(cmd) BY <1>4, <1>7, <1>9, LastPacket
<1>11. Len(got') = n /\ got'[n] = inPipe /\ \A k \in 1 .. Len(got) : got'[k] = got[k]
  <2>1. PICK e : e = inPipe OBVIOUS
  <2>2. got' = Append(got, e) BY <1>1, <2>1
  <2> QED BY <2>1, <2>2, <1>6, SeqAppend, Types
<1>12. ASSUME NEW k \in 1 .. Len(got') PROVE Due(got[k], k)'
  <2>1. PICK p : p = got'[k] OBVIOUS
  <2>2. Due(p, k)
    <3>1. CASE k = n BY <3>1, <2>1, <1>8, <1>11
    <3>2. CASE k # n
      <4>1. k \in 1 .. Len(got) BY <3>2, <1>6, <1>11, Types
      <4>2. p = got[k] BY <4>1, <2>1, <1>11
      <4> QED BY <4>1, <4>2, <1>3 DEF WorkInv, Talk
    <3> QED BY <3>1, <3>2
  <2>3. Due(p, k)' BY <2>2, <1>1, <1>2, DueKept
  <2> QED BY <2>1, <2>3
<1>13. phase' = IF Len(got') >= Whole(cmd) THEN "status" ELSE IF cmd.in THEN "dataIn" ELSE "dataOut"
  BY <1>1, <1>4, <1>10, <1>11
<1>14. Talk' BY <1>1, <1>4, <1>7, <1>11, <1>12, <1>13 DEF Talk
<1>15. BlockInv' BY <1>1, <1>2, <1>3, BlockKept DEF WorkInv
<1>16. outPipe' = << >> /\ Len(outPipe') = 0 BY <1>2, <1>5, SeqEmpty DEF AtSend
<1>17. Handed' = Handed BY <1>2, <1>6, <1>11, Types DEF Handed
<1>18. ASSUME NEW k \in 1 .. Len(tosend) PROVE Due(tosend[k], Handed - Len(tosend) + k)'
  <2>1. PICK p, m : p = tosend[k] /\ m = Handed - Len(tosend) + k OBVIOUS
  <2>2. Due(p, m) BY <2>1, <1>5 DEF AtSend
  <2>3. Due(p, m)' BY <2>2, <1>1, <1>2, DueKept
  <2>4. p = tosend'[k] /\ m = Handed' - Len(tosend') + k BY <2>1, <1>2, <1>17
  <2> QED BY <2>3, <2>4
<1>19. AtSend' BY <1>1, <1>2, <1>5, <1>16, <1>17, <1>18 DEF AtSend
<1>20. WorkInv' BY <1>1, <1>2, <1>3, <1>5, <1>14, <1>15, <1>16, <1>19 DEF WorkInv
<1> QED BY <1>2, <1>5, <1>20 DEF Where, Free, Stalled, Working

-----------------------------------------------------------------------------
\* The invariant holds first, and every step keeps it.
LEMMA InitInv == MscInit => IInv
<1> SUFFICES ASSUME MscInit PROVE IInv OBVIOUS
<1>1. TypeInv
  <2>1. Plain
    <3>1. disk = [b \in BlockNo |-> disk[b]] BY DEF MscInit
    <3>2. block = disk BY DEF MscInit, CardInit
    <3>3. block = [b \in BlockNo |-> block[b]] BY <3>1, <3>2
    <3>4. failed = FALSE BY DEF MscInit, CardInit
    <3> QED BY <3>1, <3>3, <3>4 DEF MscInit, Plain
  <2>2. Lists BY SeqEmpty DEF MscInit, Lists
  <2>3. Values BY DEF MscInit, Values, NoCommand, Op, None, Packet
  <2> QED BY <2>1, <2>2, <2>3, TypeSplit
<1>2. CardInv BY DEF MscInit, CardInit, CardInv, FillBetween
<1>3. Wire BY DEF MscInit, Wire
<1>4. FreeInv BY DEF MscInit, CardInit, FreeInv
<1>5. Free /\ ~Stalled /\ ~Working BY DEF MscInit, Free, Stalled, Working
<1>6. (busReset => stage = "main" /\ phase = "idle") /\ phase # "clear" BY DEF MscInit
<1> QED BY <1>1, <1>2, <1>3, <1>4, <1>5, <1>6 DEF IInv

LEMMA InitAlways == MscInit => Always
<1> SUFFICES ASSUME MscInit PROVE Always OBVIOUS
<1>1. TypeInv /\ CardInv BY InitInv DEF IInv
<1>2. InShapes
  <2>1. DOMAIN tosend = {} BY SeqEmpty, SeqLen DEF MscInit
  <2> QED BY <2>1, NoneSendable DEF MscInit, InShapes
<1>3. OutShapes
  <2>1. DOMAIN outPipe = {} BY SeqEmpty, SeqLen DEF MscInit
  <2> QED BY <2>1 DEF OutShapes
<1>4. Stages BY DEF MscInit, Stages
<1> QED BY <1>1, <1>2, <1>3, <1>4 DEF Always, Shapes

LEMMA NextInv ==
    ASSUME Always, IInv, ~astray, [MscNext]_mscVars, ~astray'
    PROVE  IInv'
<1>1. TypeInv' /\ CardInv' BY AlwaysKept DEF Always
<1>2. (phase # "clear")' BY ClearKept
<1>3. Wire' BY WireKept
<1>4. (busReset => stage = "main" /\ phase = "idle")' BY ResetKept
<1>5. Where'
  <2>1. CASE UNCHANGED mscVars BY <2>1, StageKept DEF mscVars, device, bus, host, cardVars
  <2>2. CASE Device
    BY <2>2, StageSeeReset, StagePoll, StageRecv, StagePut, StageSent, StageCommand, StageRead, StageSendDone,
       StageWrite, StageStore, StageProcessStatus, StageStatusDone DEF Device
  <2>3. CASE Host
    BY <2>3, StageHostCommand, StageHostPut, StageHostTake, StageHostStatus, StageHostBad, StageStalls, StageReset
    DEF Host
  <2> QED BY <2>1, <2>2, <2>3 DEF MscNext
<1> QED BY <1>1, <1>2, <1>3, <1>4, <1>5 DEF IInv, Where

\* A reset between commands brings them together again, wherever the host was.
LEMMA Recovers ==
    ASSUME Always, astray, [MscNext]_mscVars, ~astray'
    PROVE  IInv'
<1>1. Reset
  <2>1. ~UNCHANGED astray BY Zenon
  <2>2. ~UNCHANGED mscVars BY <2>1, Zenon DEF mscVars, host
  <2>3. ~Device
    BY <2>1 DEF Device, SeeReset, PollPacket, Recv, Received, Put, Sent, Command, Read, SendDone, Write, Store,
                ProcessStatus, StatusDone, host
  <2>4. ~HostCommand /\ ~HostStallIn BY DEF HostCommand, HostStallIn
  <2>5. ~HostPut /\ ~HostTake /\ ~HostStatus /\ ~HostBad /\ ~HostStallOut
    BY <2>1 DEF HostPut, HostTake, HostStatus, HostBad, HostStallOut
  <2> QED BY <2>2, <2>3, <2>4, <2>5 DEF MscNext, Host
<1>2. /\ stage = "main" /\ phase' = "idle" /\ told' = "passed" /\ inPipe' = None /\ txcomp' = FALSE
      /\ outPipe' = << >> /\ disk' = block /\ failed' = FALSE /\ UNCHANGED <<device, block>>
  BY <1>1 DEF Reset
<1>3. stage' = "main" /\ tosend' = << >> /\ busy' = FALSE
  BY <1>2 DEF Always, Shapes, Stages, device
<1>4. FreeInv' BY <1>2, <1>3 DEF FreeInv
<1>5. Free' /\ ~Stalled' /\ ~Working' BY <1>3 DEF Free, Stalled, Working
<1>6. Wire' BY <1>2, <1>3 DEF Wire
<1>7. TypeInv' /\ CardInv' BY AlwaysKept DEF Always
<1> QED BY <1>2, <1>3, <1>4, <1>5, <1>6, <1>7 DEF IInv

\* The invariant says what the run checks.
LEMMA InStepHolds == IInv => InStep
<1> SUFFICES ASSUME IInv PROVE InStep OBVIOUS
<1>1. inPipe.kind # "none" => inPipe # None BY DEF None
<1>2. ASSUME inPipe.kind = "data" PROVE phase = "dataIn"
  <2>1. inPipe # None BY <1>1, <1>2
  <2>2. stage \in {"send", "csw"} BY <2>1 DEF IInv, Wire
  <2>3. Working /\ WorkInv BY <2>1, <2>2, Settled DEF Working, Free, Stalled
  <2>4. phase # "status" BY <1>2, <2>1, CsWait, CswShape
  <2>5. stage = "send" BY <1>2, <2>1, <2>2, <2>3, CswShape DEF WorkInv
  <2>6. cmd.op \in Ins /\ cmd \in Cbw /\ Agrees(cmd) /\ Talk BY <2>3, <2>5 DEF WorkInv, AtSend, Ins, Talk
  <2>7. cmd.in BY <2>6, Directions
  <2> QED BY <2>4, <2>6, <2>7 DEF Talk
<1>3. ASSUME inPipe.kind = "csw" PROVE phase = "status"
  <2>1. inPipe # None BY <1>1, <1>3
  <2>2. stage \in {"send", "csw"} BY <2>1 DEF IInv, Wire
  <2>3. Working /\ WorkInv BY <2>1, <2>2, Settled DEF Working, Free, Stalled
  <2>4. stage # "send"
    <3> SUFFICES ASSUME stage = "send" PROVE FALSE OBVIOUS
    <3>1. Due(inPipe, Len(got) + 1) BY <2>1, <2>3 DEF WorkInv, AtSend
    <3> QED BY <3>1, <1>3 DEF Due, Packet
  <2>5. Talk /\ Len(got) = Whole(cmd) /\ cmd \in Cbw BY <2>2, <2>3, <2>4 DEF WorkInv, AtStatus, Talk
  <2>6. Whole(cmd) \in Nat BY <2>5, Lengths
  <2> QED BY <2>5, <2>6 DEF Talk
<1>4. stage = "stallIn" => phase = "badIn" BY Settled DEF Stalled, StalledInv
<1>5. ASSUME stage = "recv", NEW k \in DOMAIN outPipe PROVE outPipe[k].kind = "data"
  <2>1. k \in 1 .. Len(outPipe) BY Types, SeqLen
  <2> QED BY <1>5, <2>1, Settled DEF WorkInv, Queued
<1>6. ASSUME stage = "main", NEW k \in DOMAIN outPipe, k = 1 PROVE outPipe[k].kind # "data"
  <2>1. outPipe # << >> BY <1>6, SeqEmpty, Types, SeqLen
  <2> QED BY <1>6, <2>1, Settled DEF FreeInv, Opened
<1> QED BY <1>2, <1>3, <1>4, <1>5, <1>6 DEF InStep

LEMMA DataHolds == IInv => DataFine
<1> SUFFICES ASSUME IInv PROVE DataFine OBVIOUS
<1>1. ASSUME NEW b \in BlockNo
      PROVE  block[b] = disk[b] \/ (phase # "idle" /\ cmd.op = "write" /\ b \in Range(cmd))
  <2>1. CASE ~Working
    <3>1. block = disk BY <2>1, Settled DEF FreeInv, StalledInv
    <3> QED BY <3>1
  <2>2. CASE Working
    <3>1. Talk /\ BlockInv /\ cmd \in Cbw /\ phase # "idle" BY <2>2, Settled DEF WorkInv, Talk
    <3>2. CASE cmd.op # "write" BY <3>1, <3>2 DEF BlockInv
    <3>3. CASE cmd.op = "write" /\ failed BY <3>1, <3>3 DEF BlockInv
    <3>4. CASE cmd.op = "write" /\ ~failed
      <4>1. b \in Range(cmd) <=> cmd.lba <= b /\ b < cmd.lba + cmd.n BY <3>1, RangeIs
      <4>2. i <= cmd.n /\ i \in Nat /\ cmd.n \in Nat BY <2>2, <3>4, BlocksBound
      <4>3. b \in Nat /\ cmd.lba \in Nat BY <3>1, RangeIs
      <4>4. (cmd.lba <= b /\ b < cmd.lba + i) => b \in Range(cmd) BY <4>1, <4>2, <4>3
      <4> QED BY <3>1, <3>4, <4>4 DEF BlockInv
    <3> QED BY <3>1, <3>2, <3>3, <3>4 DEF IInv, TypeInv
  <2> QED BY <2>1, <2>2
<1>2. ASSUME inPipe.kind = "csw", phase = "status"
      PROVE  /\ inPipe.load.status = IF cmd.op \in {"prevent", "unknown"} THEN "failed" ELSE "passed"
             /\ inPipe.load.residue = cmd.host - Moved
             /\ cmd.op = "read" /\ ~failed =>
                   got = [k \in 1 .. cmd.n * BlockPackets |->
                             Packet("data", Full, PacketOf(disk, cmd.lba, k))]
             /\ cmd.op = "write" /\ ~failed => block = HostKnows(cmd)
             /\ cmd.op = "sense" /\ told = "failed" => got[1].load[2] # "none"
  <2>1. inPipe # None BY <1>2 DEF None
  <2>2. inPipe = Csw /\ stage = "csw" /\ Working /\ WorkInv BY <1>2, <2>1, CsWait
  <2>3. Talk /\ AtStatus /\ cmd \in Cbw /\ Agrees(cmd) /\ Len(got) = Whole(cmd) BY <2>2 DEF WorkInv, AtStatus, Talk
  <2>4. \A k \in 1 .. Len(got) : Due(got[k], k) BY <2>3 DEF Talk
  <2>5. inPipe.load.status = IF cmd.op \in {"prevent", "unknown"} THEN "failed" ELSE "passed"
    BY <2>2 DEF Csw, Packet
  <2>6. inPipe.load.residue = cmd.host - Moved
    <3>1. ASSUME NEW k \in 1 .. Len(got) PROVE got[k].len = DueLen(cmd, k)
      <4>1. got[k] = Packet("data", DueLen(cmd, k), got[k].load) BY <2>4 DEF Due
      <4> QED BY <4>1 DEF Packet
    <3>2. PICK c : c = cmd OBVIOUS
    <3>3. Residue(c) = c.host - Moved BY <2>3, <3>1, <3>2, Types, AllMoved
    <3>4. inPipe.load.residue = Residue(cmd) BY <2>2 DEF Csw, Packet
    <3> QED BY <3>2, <3>3, <3>4
  <2>7. ASSUME cmd.op = "read", ~failed
        PROVE  got = [k \in 1 .. cmd.n * BlockPackets |-> Packet("data", Full, PacketOf(disk, cmd.lba, k))]
    <3>1. Whole(cmd) = cmd.n * BlockPackets /\ Whole(cmd) \in Nat
      BY <2>3, <2>7, BlockLengths, Lengths DEF Blocked
    <3>2. ASSUME NEW k \in 1 .. Len(got) PROVE got[k] = Packet("data", Full, PacketOf(disk, cmd.lba, k))
      <4>1. got[k] = Packet("data", DueLen(cmd, k), got[k].load) /\ got[k].load = PacketOf(disk, cmd.lba, k)
        BY <2>4, <2>7 DEF Due
      <4>2. DueLen(cmd, k) = Full BY <2>3, <2>7, LastPacket
      <4> QED BY <4>1, <4>2
    <3>3. PICK g : g = [k \in 1 .. Len(got) |-> Packet("data", Full, PacketOf(disk, cmd.lba, k))] OBVIOUS
    <3>4. \A k \in 1 .. Len(got) : g[k] = got[k] BY <3>2, <3>3
    <3>5. g = [k \in 1 .. Len(got) |-> g[k]] BY <3>3
    <3>6. IsSeq(g) /\ Len(g) = Len(got) BY <3>5, SeqOf, Types
    <3>7. got = g BY <3>4, <3>6, SeqEqual, Types
    <3> QED BY <3>1, <3>3, <3>7, <2>3
  <2>8. cmd.op = "write" /\ ~failed => block = HostKnows(cmd) BY <2>2, <2>3, KnownIsBlock
  <2>9. ASSUME cmd.op = "sense", told = "failed" PROVE got[1].load[2] # "none"
    <3>1. Whole(cmd) > 0 BY <2>3, <2>9, Directions DEF Ins
    <3>2. 1 \in 1 .. Len(got) BY <2>3, <3>1, Types
    <3> QED BY <3>2, <2>4, <2>9 DEF Due
  <2> QED BY <2>5, <2>6, <2>7, <2>8, <2>9
<1> QED BY <1>1, <1>2 DEF DataFine

\* The inductive invariant of MscSpec.
LEMMA MscInductive == MscSpec => [](Always /\ (astray \/ IInv))
<1>1. MscInit => Always /\ (astray \/ IInv)
  BY InitInv, InitAlways
<1>2. Always /\ (astray \/ IInv) /\ [MscNext]_mscVars => (Always /\ (astray \/ IInv))'
  <2> SUFFICES ASSUME Always, astray \/ IInv, [MscNext]_mscVars
               PROVE  Always' /\ (astray' \/ IInv')
    OBVIOUS
  <2>1. Always' BY AlwaysKept
  <2>2. astray' \/ IInv' BY NextInv, Recovers
  <2> QED BY <2>1, <2>2
<1> QED BY <1>1, <1>2, PTL DEF MscSpec

\* Whatever a host does, the card is never read right after a write (card.c);
\* and until the host sends a command whose length or direction the device does
\* not expect, resets the bus in mid-command or clears a halt, and again from its
\* next reset between commands on, host and device are in step: no status is taken
\* for data and no data for a command (msc.c, usb_hardware.c).
THEOREM MassStorageCorrect == MscSpec => []MscInv
<1>1. Always /\ (astray \/ IInv) => MscInv
  BY InStepHolds DEF MscInv, Always, TypeInv, CardInv
<1> QED BY <1>1, MscInductive, PTL

\* In the same times a host that only watches the status reads what is on the card
\* and finds what it wrote where it wrote it and nowhere else, unless the card
\* failed; the residue is what was not moved, and sense data tells a failure (msc.c).
THEOREM HostFindsItsData == MscSpec => []DataRight
<1>1. Always /\ (astray \/ IInv) => DataRight
  BY DataHolds DEF DataRight
<1> QED BY <1>1, MscInductive, PTL
=============================================================================
