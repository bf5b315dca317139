------------------------------ MODULE Channels ------------------------------
(***************************************************************************)
(* A file channel under the driver that the ini file chose for it          *)
(* (FileIO_FCh_Process, FileIO_FCh_SetDriver, fileio.c): the tape or the   *)
(* floppy driver.  When another core is loaded all drives are ejected and  *)
(* the driver may change; what the drivers keep in static variables stays. *)
(***************************************************************************)
EXTENDS Tape, Floppy

VARIABLE fch_driver

vars == <<lineVars, tapeVars, floppyVars, fch_driver>>

NoRequest == [dir |-> "none"]

Init ==
    /\ LineInit(NoRequest)
    /\ TapeInit /\ FloppyInit
    /\ fch_driver \in {1, 2}

Ejected ==
    /\ \A d \in TapeDrive : tape[d].format = "none"
    /\ \A d \in FloppyDrive : disk[d].format = "none"

\* The next core: its channels begin anew, its ini file sets the driver.
SetDriver ==
    /\ pc = "idle" /\ Ejected
    /\ fch_driver' = 3 - fch_driver
    /\ phase' = "idle" /\ req' = NoRequest /\ answer' = "none" /\ moved' = << >>
    /\ stream' = [c \in Channel |-> << >>] /\ writing' = [c \in Channel |-> Nothing]
    /\ walk' = NoWalk /\ addr' = 0 /\ left' = 0 /\ n' = 0
    /\ UNCHANGED <<pc, tape, cursor, disk, writeState>>

FloppyStep == fch_driver = 1 /\ FloppyNext /\ UNCHANGED <<tapeVars, fch_driver>>
TapeStep == fch_driver = 2 /\ TapeNext /\ UNCHANGED <<floppyVars, fch_driver>>
Next == FloppyStep \/ TapeStep \/ SetDriver

Spec == Init /\ [][Next]_vars

Driver ==
    \/ fch_driver = 1 /\ FloppyDriver /\ UNCHANGED <<tapeVars, fch_driver>>
    \/ fch_driver = 2 /\ TapeDriver /\ UNCHANGED <<floppyVars, fch_driver>>

\* FileIO_FCh_Process: the driver takes a request.
Process ==
    \/ fch_driver = 1 /\ FloppyTakes /\ UNCHANGED <<tapeVars, fch_driver>>
    \/ fch_driver = 2 /\ TapeTakes /\ UNCHANGED <<floppyVars, fch_driver>>

\* Every call of a driver returns; and every turn of main_update polls the
\* channels, however often the menu changes the disks in between.
FairSpec == Spec /\ WF_vars(Driver) /\ SF_vars(Process)

-----------------------------------------------------------------------------
(* Properties.                                                              *)

\* What both drivers keep: types, the tape's cursor, the place on a flux track.
Inv == TapeTypeOK /\ FloppyTypeOK /\ CursorRight /\ FluxRight

\* A request is answered, except a write to a tape or a flux image and a request
\* for a tape without a format.
Unanswered ==
    \/ req.dir = "write" /\ (fch_driver = 2 \/ disk[req.drive].format = "scp")
    \/ fch_driver = 2 /\ tape[req.drive].format = "xxx"
Answered == phase = "req" ~> phase = "idle" \/ (phase # "idle" /\ Unanswered)

\* "signal transfer done": the same without the exceptions.
AlwaysAnswered == phase = "req" ~> phase = "idle"
=============================================================================
