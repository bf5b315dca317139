------------------------------ MODULE RomMenu ------------------------------
(***************************************************************************)
(* The file browser and the uploads it starts: a ROM file chosen in it     *)
(* (menu.c, the items `load' and `rom') is uploaded by RomLoader, other    *)
(* calls come from the lines of an ini file and the item `store'.  A call  *)
(* blocks the main loop, so that neither keys nor the delayed scan are     *)
(* handled before it returns.                                              *)
(***************************************************************************)
EXTENDS FileSel, RomLoader

CONSTANT Length     \* of the files in the directories

allVars == <<selVars, uploadVars>>

RomInit == SelInit /\ UploadInit

Browse == stage = "idle" /\ SelNext /\ UNCHANGED uploadVars

\* A file is chosen.  The browser is left, and what it held is forgotten: it is
\* opened with a scan.
ChooseRom ==
    /\ browsing /\ path = "set" /\ Selected # Blank
    /\ \E j \in Jobs : /\ j.format \in {"plain", "prg", "crt"}
                       /\ j.len = Length[Selected]
                       /\ Begin(j)
    /\ browsing' = FALSE
    /\ filter' = <<Names(dir)>> /\ prev' = << >> /\ ref' = Blank /\ refc' = FALSE
    /\ next' = << >> /\ offset' = 0 /\ sel' = 0
    /\ UNCHANGED <<path, dir, delayed, astray>>

\* A line of the ini file or an item of the menu.  Bound: before the browser is
\* used for the first time, and of an empty directory.
RunJob ==
    /\ path = "unset" /\ ~delayed /\ filter = <<Names(dir)>> /\ dir = << >>
    /\ \E j \in Jobs : Begin(j)
    /\ UNCHANGED selVars

RomNext == Browse \/ ChooseRom \/ RunJob \/ (UploadStep /\ UNCHANGED selVars)

RomSpec == RomInit /\ [][RomNext]_allVars /\ UploadFairness
=============================================================================
