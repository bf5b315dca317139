------------------------------- MODULE Floppy -------------------------------
(***************************************************************************)
(* The floppy driver (Replay_Boot/fileio_drv01_floppy.c): a core's disk    *)
(* controller reads the sectors of a track in turn, and writes a stream of *)
(* MFM words in which the driver finds sectors.  What it remembers of that *)
(* stream between two requests, write_state and write_drive, is shared by  *)
(* all drives of both channels.                                            *)
(***************************************************************************)
EXTENDS FluxTrack, DriveRequest, SequencesExt

CONSTANTS
    FloppyDrive,    \* pairs <<channel, drive number>>
    Tracks,         \* total_tracks of a sector image (ADF)
    LastSector,     \* LAST_SECTOR
    Images,         \* sectors a core may write, see ImageAssumption
    Streams,        \* what it writes at a time: [track, images]
    HeadTracks,     \* where its head may be for a read
    BodyWords,      \* DRV01_ADF_WRITE_LEN
    Level           \* words that must be in the FIFO before the core asks

\* A written sector: sync words before it, and of the words that follow how many
\* are there, whether its checksums are right, the track and sector its header
\* claims, and its data.
ASSUME ImageAssumption ==
    /\ Tracks \in Nat \ {0} /\ LastSector \in Nat
    /\ BodyWords \in Nat \ {0} /\ Level \in Nat \ {0}
    /\ Images \subseteq [syncs : {1, 2}, words : 0 .. BodyWords, good : BOOLEAN,
                         track : Nat, sector : Nat, data : STRING]
    /\ Streams \subseteq [track : Nat, images : Seq(Images)] /\ HeadTracks \subseteq Nat
ASSUME DriveAssumption == FloppyDrive \subseteq Nat \X Nat

VARIABLES
    disk,           \* of each drive: [format, prot, cur_sector, data, scp]
    stream,         \* of each channel: words the core still has to hand over
    writing,        \* what they are: [drive, track, images, clean]
    write_state, write_drive

floppyVars == <<disk, stream, writing, write_state, write_drive>>
writeState == <<write_state, write_drive>>

Channel == {d[1] : d \in FloppyDrive}
Sector == (0 .. Tracks - 1) \X (0 .. LastSector)
NoDisk == [format |-> "none", prot |-> FALSE, cur_sector |-> 0]
Nothing == [drive |-> <<0, 0>>, track |-> 0, images |-> << >>, clean |-> TRUE]

FloppyInit ==
    /\ disk = [d \in FloppyDrive |-> NoDisk]
    /\ stream = [c \in Channel |-> << >>]
    /\ writing = [c \in Channel |-> Nothing]
    /\ write_state = 0 /\ write_drive = 0

-----------------------------------------------------------------------------
(* The menu, between two calls of FileIO_FCh_Process.                       *)

\* What a core is writing to the drive is not expected to arrive any more.
Disturbed(d) ==
    writing' = [c \in Channel |->
        IF writing[c].drive # d THEN writing[c]
        ELSE IF stream[c] = << >> THEN Nothing ELSE [writing[c] EXCEPT !.clean = FALSE]]

\* FileIO_Drv01_InsertInit (a file that is neither, or a bad SCP, is refused).
InsertDisk(d) ==
    /\ pc = "idle" /\ disk[d].format = "none"
    /\ \/ \E p \in BOOLEAN :
             disk' = [disk EXCEPT ![d] =
                 [format |-> "adf", prot |-> p, cur_sector |-> 0,
                  data |-> [x \in Sector |-> "old"]]]
       \/ \E k \in FluxDisks :
             disk' = [disk EXCEPT ![d] =
                 [format |-> "scp", prot |-> TRUE, cur_sector |-> 0, scp |-> ScpInserted(k)]]
    /\ Disturbed(d)
    /\ UNCHANGED <<lineVars, stream, writeState>>

EjectDisk(d) ==
    /\ pc = "idle" /\ disk[d].format # "none"
    /\ disk' = [disk EXCEPT ![d] = NoDisk]
    /\ Disturbed(d)
    /\ UNCHANGED <<lineVars, stream, writeState>>

ProtectDisk(d) ==
    /\ pc = "idle" /\ disk[d].format = "adf"
    /\ disk' = [disk EXCEPT ![d].prot = ~@]
    /\ Disturbed(d)
    /\ UNCHANGED <<lineVars, stream, writeState>>

-----------------------------------------------------------------------------
(* The core.                                                                *)

Gap == <<"gap">>
Sync == <<"sync">>
Words(im) ==
    <<Gap>> \o [i \in 1 .. im.syncs |-> Sync] \o [i \in 1 .. im.words |-> <<"body", im, i>>]

StreamOf(ims) == FlattenSeq([i \in 1 .. Len(ims) |-> Words(ims[i])])

\* It starts to write a track.
CoreWrites(d) ==
    /\ phase = "idle" /\ stream[d[1]] = << >>
    /\ \E w \in Streams :
          /\ writing' = [writing EXCEPT ![d[1]] =
                            [drive |-> d, track |-> w.track, images |-> w.images,
                             clean |-> disk[d].format = "adf" /\ ~disk[d].prot]]
          /\ stream' = [stream EXCEPT ![d[1]] = StreamOf(w.images)]
    /\ UNCHANGED <<lineVars, disk, writeState>>

\* It stops before the end.
CoreStops(c) ==
    /\ phase = "idle" /\ stream[c] # << >>
    /\ stream' = [stream EXCEPT ![c] = << >>]
    /\ writing' = [writing EXCEPT ![c] = Nothing]
    /\ UNCHANGED <<lineVars, disk, writeState>>

\* It asks to be rid of what is in its FIFO: Level words at least, or the rest.
AskWrite(c) ==
    /\ stream[c] # << >>
    /\ \E k \in 1 .. Len(stream[c]) :
          /\ k >= Level \/ k = Len(stream[c])
          /\ Raise([dir |-> "write", drive |-> writing[c].drive,
                    track |-> writing[c].track, size |-> k])
    /\ UNCHANGED floppyVars

AskRead(d) ==
    /\ stream[d[1]] = << >>
    /\ \E t \in HeadTracks : Raise([dir |-> "read", drive |-> d, track |-> t, size |-> 0])
    /\ writing' = [writing EXCEPT ![d[1]] = Nothing]
    /\ UNCHANGED <<disk, stream, writeState>>
-----------------------------------------------------------------------------
(* FileIO_Drv01_Process.  What is written to a flux image is left in the    *)
(* FIFO, and the request is not even acknowledged: the core goes on asking. *)

drive == req.drive
channel == drive[1]
this == disk[drive]

DiskMissing ==
    /\ Accept("nodisk") /\ this.format = "none"
    /\ UNCHANGED floppyVars

\* Mutant: the driver returns without an acknowledge.
DiskAbortSilent ==
    /\ pc = "nodisk" /\ ReturnUnanswered
    /\ UNCHANGED floppyVars

DiskAbort ==
    /\ pc = "nodisk" /\ Return("abort")
    /\ UNCHANGED <<moved, floppyVars>>

\* A write to another drive begins anew.
Selected == IF drive[2] # write_drive THEN 0 ELSE write_state

WriteToScp ==
    /\ pc = "idle" /\ phase = "req" /\ req.dir = "write" /\ this.format = "scp"
    /\ write_state' = Selected /\ write_drive' = drive[2]
    /\ UNCHANGED <<lineVars, disk, stream, writing>>

DiskBegin ==
    /\ \/ /\ req.dir = "write" /\ this.format = "adf" /\ Accept("write")
          /\ write_state' = Selected /\ write_drive' = drive[2]
       \/ /\ req.dir = "read" /\ this.format \in {"adf", "scp"} /\ Accept(this.format)
          /\ UNCHANGED writeState
    /\ UNCHANGED <<disk, stream, writing>>

\* FileIO_Drv01_ADF_Read: whatever the track, the next sector, and the gap behind
\* the last one.
AdfRead ==
    /\ pc = "adf"
    /\ LET track == IF req.track >= Tracks THEN Tracks - 1 ELSE req.track
           sector == this.cur_sector
       IN \/ /\ Return("ok")
             /\ moved' = <<[track |-> track, sector |-> sector, gap |-> sector = LastSector]>>
          \/ Return("seek") /\ UNCHANGED moved
    /\ disk' = [disk EXCEPT ![drive].cur_sector = IF @ = LastSector THEN 0 ELSE @ + 1]
    /\ write_state' = 0
    /\ UNCHANGED <<stream, writing, write_drive>>

\* FileIO_Drv01_SCP_Read: the step, then the words.
ScpStep ==
    /\ pc = "scp" /\ pc' = "flux"
    /\ \E fails \in BOOLEAN : disk' = [disk EXCEPT ![drive].scp = Stepped(@, req.track, fails)]
    /\ UNCHANGED <<phase, req, answer, moved, stream, writing, writeState>>

ScpRead ==
    /\ pc = "flux"
    /\ disk' = [disk EXCEPT ![drive].scp = Turned(@)] /\ moved' = FluxOf(this.scp)
    /\ Return("ok") /\ write_state' = 0
    /\ UNCHANGED <<stream, writing, write_drive>>

-----------------------------------------------------------------------------
(* FileIO_Drv01_ADF_Write.                                                  *)

words == stream[channel]
Consume(k) == stream' = [stream EXCEPT ![channel] = SubSeq(words, k + 1, Len(words))]

\* State 0: up to and with the first sync word.
FindSync ==
    /\ pc = "write" /\ write_state = 0 /\ Return("ok")
    /\ LET found == {k \in 1 .. req.size : words[k] = Sync}
       IN IF found = {} THEN Consume(req.size) /\ UNCHANGED write_state
          ELSE /\ write_state' = 1
               /\ Consume(CHOOSE k \in found : \A j \in found : k <= j)
    /\ UNCHANGED <<moved, disk, writing, write_drive>>

\* State 1, and not enough words for a sector.
Underrun ==
    /\ pc = "write" /\ write_state = 1 /\ req.size < BodyWords
    /\ Return("ok") /\ write_state' = 0
    /\ UNCHANGED <<moved, disk, stream, writing, write_drive>>

\* Mutant: the search is not begun anew.
NoSecondSyncKeeps ==
    /\ pc = "write" /\ write_state = 1 /\ req.size >= BodyWords /\ words[1] # Sync
    /\ Return("ok") /\ Consume(1)
    /\ UNCHANGED <<moved, disk, writing, writeState>>

NoSecondSync ==
    /\ pc = "write" /\ write_state = 1 /\ req.size >= BodyWords /\ words[1] # Sync
    /\ Return("ok") /\ Consume(1) /\ write_state' = 0
    /\ UNCHANGED <<moved, disk, writing, write_drive>>

\* Mutant: the track of the header may be another than the head's.
IntactAnyTrack(im, t) ==
    /\ im.words = BodyWords /\ im.good
    /\ im.track < Tracks /\ im.sector <= LastSector

\* What was read is one sector, with the checks that the driver makes.
Intact(im, t) ==
    /\ im.words = BodyWords /\ im.good
    /\ im.track < Tracks /\ im.sector <= LastSector /\ im.track = t
IsBody(w) ==
    Len(w) = BodyWords /\ \E im \in Images : w = [i \in 1 .. BodyWords |-> <<"body", im, i>>]

\* The sector is written, or an error of the card leaves it as it is or spoils it.
WriteSector(im) ==
    \/ disk' = [disk EXCEPT ![drive].data[<<im.track, im.sector>>] = im.data] /\ UNCHANGED writing
    \/ /\ \E x \in {this.data[<<im.track, im.sector>>], "spoilt"} :
              disk' = [disk EXCEPT ![drive].data[<<im.track, im.sector>>] = x]
       /\ Disturbed(drive)

\* The second sync word and a sector.  The words that were announced are there,
\* perhaps more of those to come; in place of a word that is not there anything
\* is read.
ReadBody ==
    /\ pc = "write" /\ write_state = 1 /\ req.size >= BodyWords /\ words[1] = Sync
    /\ \E there \in req.size .. Len(words) :
          LET k == IF there > BodyWords THEN BodyWords + 1 ELSE there
              w == SubSeq(words, 2, k)
          IN /\ Consume(k)
             /\ IF IsBody(w) /\ Intact(w[1][2], req.track) /\ ~this.prot
                THEN WriteSector(w[1][2]) ELSE UNCHANGED <<disk, writing>>
    /\ Return("ok") /\ write_state' = 0
    /\ UNCHANGED <<moved, write_drive>>

FloppyTakes == DiskMissing \/ DiskBegin

FloppyDriver ==
    \/ FloppyTakes \/ DiskAbort \/ WriteToScp
    \/ AdfRead \/ ScpStep \/ ScpRead
    \/ FindSync \/ Underrun \/ NoSecondSync \/ ReadBody

FloppyNext ==
    \/ \E x \in FloppyDrive :
          InsertDisk(x) \/ EjectDisk(x) \/ ProtectDisk(x) \/ CoreWrites(x) \/ AskRead(x)
    \/ \E x \in Channel : CoreStops(x) \/ AskWrite(x)
    \/ FloppyDriver

-----------------------------------------------------------------------------
(* Properties.                                                              *)

FloppyTypeOK ==
    /\ \A x \in FloppyDrive :
          /\ disk[x].format \in {"none", "adf", "scp"} /\ disk[x].prot \in BOOLEAN
          /\ disk[x].cur_sector \in 0 .. LastSector
          /\ disk[x].format = "adf" => DOMAIN disk[x].data = Sector
    /\ write_state \in {0, 1} /\ write_drive \in Nat

\* Every flux image is read as module FluxTrack wants it, on whatever track the
\* head has come to and at whatever place.
FluxRight ==
    \A x \in FloppyDrive : disk[x].format = "scp" => FluxInside(disk[x].scp)

\* When the core has handed over all its words, every intact sector among them
\* is on the disk, whatever there was between them or before them: sectors that
\* are broken (but not short by more than a word), words of a write that was given
\* up, reads of other drives.
WholeSectors ==
    \A x \in Channel :
        phase = "idle" /\ stream[x] = << >> /\ writing[x].clean =>
            LET w == writing[x]
                Good(i) == w.images[i].syncs = 2 /\ Intact(w.images[i], w.track)
                At(i) == <<w.images[i].track, w.images[i].sector>>
            IN \A i \in DOMAIN w.images :
                  Good(i) /\ (\A j \in DOMAIN w.images : j > i /\ Good(j) => At(i) # At(j))
                      => disk[w.drive].data[At(i)] = w.images[i].data

\* A disk changes only where an intact sector, written with the head on its
\* track, belongs, and never while it is protected.
OnlyWritten ==
    [][\A x \in FloppyDrive :
          disk[x].format = "adf" /\ disk'[x].format = "adf" =>
              \A p \in Sector : disk'[x].data[p] # disk[x].data[p] =>
                  /\ ~disk[x].prot /\ writing[x[1]].drive = x
                  /\ \E i \in DOMAIN writing[x[1]].images :
                        LET im == writing[x[1]].images[i]
                        IN /\ p = <<im.track, im.sector>> /\ im.track = writing[x[1]].track
                           /\ im.good /\ disk'[x].data[p] \in {im.data, "spoilt"}]_disk
=============================================================================
