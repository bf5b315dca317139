------------------------------ MODULE FileSel ------------------------------
(***************************************************************************)
(* The file browser (Replay_Boot/filesel.c and the browser keys of menu.c) *)
(* of a firmware without the memory for a directory listing: it keeps only *)
(* the Height names before and behind a reference name, and scans the      *)
(* whole directory again, in the order the card has it, when the cursor    *)
(* leaves the window or the user types a letter of a filter.               *)
(*                                                                         *)
(* A name is its rank in the order of CompareDirEntries.  A filter text is *)
(* what it lets through, and a longer text lets through less: filter is    *)
(* the sequence of the sets of names that its prefixes let through, the    *)
(* names with the right extension first.  The indices offset and sel are   *)
(* relative to 128, where the reference name is; without one ref is blank. *)
(***************************************************************************)
EXTENDS Integers, Sequences, SequencesExt

CONSTANTS
    Height,         \* MAXDIRENTRIES and MENU_HEIGHT, the lines of the window
    MaxFilter,      \* letters of a filter text
    Directory,      \* the directories, each as the sequence of its names
    Pattern         \* what a letter or a list of extensions may let through

ASSUME HeightAssumption == Height \in Nat /\ Height > 2
ASSUME FilterAssumption == MaxFilter \in Nat \ {0}
ASSUME DirectoryAssumption ==
    /\ Directory \subseteq Seq(Nat \ {0}) /\ \A d \in Directory : IsInjective(d)
    /\ \A p \in Pattern : p \subseteq Nat

Blank == 0          \* the entry GetEntry makes up where there is none

VARIABLES
    path,           \* "none": no dir_scan, "unset": no pPath in it, "set"
    browsing,       \* menu_state is FILE_BROWSER
    dir, filter,    \* the directory, and the filter text
    prev, ref, refc, next,      \* dPrev, dRef, refc and dNext
    offset, sel,    \* the first line of the window, and the cursor
    delayed,        \* delayed_filescan
    astray          \* history: a directory was scanned without a path

window == <<prev, ref, refc, next, offset, sel>>
selVars == <<path, browsing, dir, filter, window, delayed, astray>>

Names(d) == Range(d)
Shown == filter[Len(filter)]

SelTypeOK ==
    /\ path \in {"none", "unset", "set"}
    /\ <<browsing, refc, delayed, astray>> \in BOOLEAN \X BOOLEAN \X BOOLEAN \X BOOLEAN
    /\ dir \in Directory /\ Len(filter) \in 1 .. MaxFilter + 1
    /\ Len(prev) <= Height /\ Len(next) <= Height
    /\ offset \in -Height .. 0 /\ sel \in -Height .. Height

SelInit ==
    /\ path = "unset" /\ browsing = FALSE /\ astray = FALSE /\ delayed = FALSE
    /\ dir \in Directory /\ filter = <<Names(dir)>>
    /\ prev = << >> /\ ref = Blank /\ refc = FALSE /\ next = << >>
    /\ offset = 0 /\ sel = 0

-----------------------------------------------------------------------------
(* Scanning.  dNext is in ascending order, dPrev in descending order.       *)

Before(a, b, down) == IF down THEN a > b ELSE a < b

\* Mutant: a full window takes no further name.
PlaceFirst(list, name, down) ==
    LET stops == {k \in 1 .. Len(list) : list[k] = name \/ Before(name, list[k], down)}
        k == CHOOSE k \in stops : \A j \in stops : k <= j
    IN IF Len(list) = Height THEN list
       ELSE IF stops = {} THEN Append(list, name)
       ELSE IF list[k] = name THEN list ELSE InsertAt(list, k, name)

\* Mutant: the last name does not fall off.
PlaceAll(list, name, down) ==
    LET stops == {k \in 1 .. Len(list) : list[k] = name \/ Before(name, list[k], down)}
        k == CHOOSE k \in stops : \A j \in stops : k <= j
    IN IF stops = {} THEN Append(list, name)
       ELSE IF list[k] = name THEN list ELSE InsertAt(list, k, name)

\* A name is put into its place; the last one may fall off.
Place(list, name, down) ==
    LET stops == {k \in 1 .. Len(list) : list[k] = name \/ Before(name, list[k], down)}
        k == CHOOSE k \in stops : \A j \in stops : k <= j
    IN IF stops = {} THEN IF Len(list) < Height THEN Append(list, name) ELSE list
       ELSE IF list[k] = name THEN list
       ELSE IF Len(list) < Height THEN InsertAt(list, k, name)
       ELSE Front(InsertAt(list, k, name))

\* What a scan of d collects of the names in set, in that order.
Scan(d, set, down) ==
    LET Kept[k \in 0 .. Len(d)] ==     \* after the first k entries of d
            IF k = 0 THEN << >>
            ELSE IF d[k] \in set THEN Place(Kept[k - 1], d[k], down) ELSE Kept[k - 1]
    IN Kept[Len(d)]

\* Filesel_ScanFirst on directory d with the names `shown'.
ScanFirst(d, shown) ==
    /\ prev' = << >> /\ ref' = Blank /\ refc' = FALSE
    /\ next' = Scan(d, shown, FALSE)
    /\ offset' = 0 /\ sel' = 1

\* Mutant: only the names behind it are kept.
ScanUpdateForward(name) ==
    /\ ref' = name /\ refc' = TRUE
    /\ prev' = << >>
    /\ next' = Scan(dir, {n \in Shown : n > name}, FALSE)

\* Filesel_ScanUpdate around name.
ScanUpdate(name) ==
    /\ ref' = name /\ refc' = TRUE
    /\ prev' = Scan(dir, {n \in Shown : n < name}, TRUE)
    /\ next' = Scan(dir, {n \in Shown : n > name}, FALSE)

-----------------------------------------------------------------------------
(* Indices.                                                                 *)

CheckIndex(n) ==
    \/ n = 0 /\ refc
    \/ n < 0 /\ -n <= Len(prev)
    \/ n > 0 /\ n <= Len(next)

GetEntry(n) ==
    IF ~CheckIndex(n) THEN Blank
    ELSE IF n = 0 THEN ref ELSE IF n < 0 THEN prev[-n] ELSE next[n]

\* The line of the cursor.
Current == sel - offset

Selected == GetEntry(sel)

\* What the window shows.
Lines == {GetEntry(offset + k) : k \in 0 .. Height - 1} \ {Blank}

-----------------------------------------------------------------------------
(* The keys.                                                                *)

InBrowser == browsing /\ path = "set" /\ UNCHANGED <<path, browsing, astray>>
Keep == UNCHANGED <<dir, filter, delayed>>

\* Mutant: the window is scrolled one line too late.
NextLate ==
    /\ InBrowser /\ Keep /\ CheckIndex(sel + 1)
    /\ IF Current >= Height
       THEN ScanUpdate(Selected) /\ offset' = 0 /\ sel' = 1
       ELSE sel' = sel + 1 /\ UNCHANGED <<prev, ref, refc, next, offset>>

\* SCAN_NEXT
Next1 ==
    /\ InBrowser /\ Keep /\ CheckIndex(sel + 1)
    /\ IF Current >= Height - 1
       THEN ScanUpdate(Selected) /\ offset' = 0 /\ sel' = 1
       ELSE sel' = sel + 1 /\ UNCHANGED <<prev, ref, refc, next, offset>>

\* Mutant: the cursor is left on the reference name.
PrevStays ==
    /\ InBrowser /\ Keep /\ CheckIndex(sel - 1)
    /\ IF Current <= 1
       THEN ScanUpdate(Selected) /\ offset' = 1 - Height /\ sel' = 0
       ELSE sel' = sel - 1 /\ UNCHANGED <<prev, ref, refc, next, offset>>

\* SCAN_PREV
Prev1 ==
    /\ InBrowser /\ Keep /\ CheckIndex(sel - 1)
    /\ IF Current <= 1
       THEN ScanUpdate(Selected) /\ offset' = -Height /\ sel' = -1
       ELSE sel' = sel - 1 /\ UNCHANGED <<prev, ref, refc, next, offset>>

\* Mutant: a page is one line too long.
NextPageLong ==
    /\ InBrowser /\ Keep
    /\ \E n \in offset .. offset + Height + 1 :
          /\ CheckIndex(n) /\ \A m \in n + 1 .. offset + Height + 1 : ~CheckIndex(m)
          /\ ScanUpdate(GetEntry(n))
          /\ offset' = IF n - offset >= Height THEN n - offset - Height - 1 ELSE offset - n
    /\ sel' = 0

\* SCAN_NEXT_PAGE, from the last line that is visible or would be next.
NextPage ==
    /\ InBrowser /\ Keep
    /\ \E n \in offset .. offset + Height :
          /\ CheckIndex(n) /\ \A m \in n + 1 .. offset + Height : ~CheckIndex(m)
          /\ ScanUpdate(GetEntry(n))
          /\ offset' = IF n - offset = Height THEN -1 ELSE offset - n
    /\ sel' = 0

\* SCAN_PREV_PAGE, from the first line that is visible.
PrevPage ==
    /\ InBrowser /\ Keep
    /\ \E n \in offset .. offset + Height :
          /\ CheckIndex(n) /\ \A m \in offset .. n - 1 : ~CheckIndex(m)
          /\ ScanUpdate(GetEntry(n))
          /\ offset' = IF n = offset THEN 1 - Height ELSE offset - n
    /\ sel' = 0

\* ENTER on a directory, and HOME: the filter is dropped.
EnterDir(d) ==
    /\ InBrowser
    /\ dir' = d /\ filter' = <<IF d = dir THEN filter[1] ELSE Names(d)>>
    /\ ScanFirst(d, filter'[1])
    /\ UNCHANGED delayed

\* The window is empty until the delayed scan.
Typed ==
    /\ InBrowser
    /\ prev' = << >> /\ ref' = Blank /\ refc' = FALSE /\ next' = << >>
    /\ offset' = 0 /\ sel' = 0
    /\ delayed' = TRUE /\ UNCHANGED dir

\* Filesel_AddFilterChar: a full filter text takes no further letter.
AddFilterChar ==
    /\ Typed
    /\ IF Len(filter) <= MaxFilter
       THEN \E p \in Pattern : filter' = Append(filter, Shown \cap p)
       ELSE UNCHANGED filter

DelFilterChar ==
    /\ Typed
    /\ filter' = IF Len(filter) > 1 THEN Front(filter) ELSE filter

-----------------------------------------------------------------------------
(* The menu around the browser.                                             *)

\* An item that lets the user choose a file, with the extensions it accepts.
Open(d) ==
    /\ ~browsing /\ browsing' = TRUE
    /\ path # "none" /\ path' = "set"
    /\ dir' = d /\ \E p \in Pattern : filter' = <<Names(d) \cap p>>
    /\ ScanFirst(d, filter'[1])
    /\ UNCHANGED <<delayed, astray>>

\* A file is chosen, ESC, the MENU key or the OSD timeout.
Close ==
    /\ browsing /\ browsing' = FALSE
    /\ UNCHANGED <<path, dir, filter, window, delayed, astray>>

\* CFG_free_menu, and the new dir_scan of CFG_init; the embedded core has none.
Reload ==
    /\ browsing' = FALSE /\ path' \in {"none", "unset"}
    /\ prev' = << >> /\ ref' = Blank /\ refc' = FALSE /\ next' = << >>
    /\ offset' = 0 /\ sel' = 0
    /\ UNCHANGED <<dir, filter, delayed, astray>>

\* The 250 ms after a letter are over.  Nothing else ends the delay.
DelayedScan ==
    /\ delayed /\ delayed' = FALSE
    /\ IF path = "set" THEN ScanFirst(dir, Shown) /\ UNCHANGED astray
       ELSE astray' = TRUE /\ UNCHANGED window
    /\ UNCHANGED <<path, browsing, dir, filter>>

SelNext ==
    \/ Next1 \/ Prev1 \/ NextPage \/ PrevPage
    \/ \E d \in Directory : EnterDir(d) \/ Open(d)
    \/ AddFilterChar \/ DelFilterChar
    \/ Close \/ Reload \/ DelayedScan

SelSpec == SelInit /\ [][SelNext]_selVars

-----------------------------------------------------------------------------
(* Properties.                                                              *)

\* Of the names around the cursor none is missing and none is twice: whatever
\* the order of the directory on the card, what is kept are the neighbours of
\* the reference name among the names that the filter lets through.
WindowComplete ==
    LET kept == {GetEntry(n) : n \in -Len(prev) .. Len(next)} \ {Blank}
    IN /\ kept \subseteq Shown
       /\ \A a, b \in kept, n \in Shown : a < n /\ n < b => n \in kept
       /\ \A m, n \in -Len(prev) .. Len(next) :
             m < n /\ GetEntry(m) # Blank => GetEntry(m) < GetEntry(n)

\* While there is a name to choose, the cursor is on one, in a line of the window
\* (ENTER would act on an empty name), unless a scan is still to come.
CursorOnName ==
    browsing /\ Shown # {} /\ ~delayed =>
        Selected \in Shown /\ Current \in 0 .. Height - 1

\* UP and DOWN move the cursor to the neighbouring name, over rescans too, and
\* a page forwards or backwards skips no name: all names between those that are
\* visible before and after were visible before or are after.
NothingSkipped ==
    [][/\ Next1 => /\ Selected < Selected'
                   /\ ~\E n \in Shown : Selected < n /\ n < Selected'
       /\ Prev1 => /\ Selected' < Selected
                   /\ ~\E n \in Shown : Selected' < n /\ n < Selected
       /\ NextPage \/ PrevPage =>
             \A a, b \in Lines \cup Lines', n \in Shown :
                 a < n /\ n < b => n \in Lines \cup Lines']_selVars

\* Where UP or DOWN does nothing there is nothing further: names behind the ends
\* of the window can always be reached.
EndsAreEnds ==
    browsing /\ Shown # {} /\ ~delayed =>
        /\ CheckIndex(sel + 1) \/ \A n \in Shown : n <= Selected
        /\ CheckIndex(sel - 1) \/ \A n \in Shown : n >= Selected

\* What the browser holds after any sequence of keys and scans: a complete
\* stretch of the directory with the cursor on one of its names, and
\* every name within reach of it.
SelInv == SelTypeOK /\ WindowComplete /\ CursorOnName /\ EndsAreEnds

\* A delayed scan is of "the directory" that the letter was typed in.
ScanHasDirectory == ~astray
=============================================================================
