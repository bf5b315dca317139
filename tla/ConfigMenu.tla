----------------------------- MODULE ConfigMenu -----------------------------
(***************************************************************************)
(* The menu tree that an ini file builds and its life on the C heap        *)
(* (Replay_Boot/config.c): CFG_alloc_menu_and_set_active appends menus to  *)
(* a doubly linked list, CFG_add_default appends the Replay Menu and moves *)
(* the ROMs menu in front of it, the keys of menu.c walk the list, and     *)
(* CFG_free_menu frees it before the next core is loaded.                  *)
(*                                                                         *)
(* The items and options of a menu hang off it alone and live and die with *)
(* it; they are part of its heap object.  The pointer menu_top is the next *)
(* field of a pseudo-node TOP, so that a menu_t** is the node whose next   *)
(* field it points to, as in the loop of CFG_add_default.                  *)
(***************************************************************************)
EXTENDS Naturals, FiniteSets

CONSTANTS
    Node,           \* heap objects
    NULL, TOP,
    Title,          \* titles of the ini file's menus, besides ROMs
    IniLine,        \* the kinds of ini lines: title, rom, cfg, recfg, target
    RomsLast        \* may the ROMs menu be the last menu of an ini file?

ASSUME NodeAssumption ==
    IsFiniteSet(Node) /\ NULL \notin Node /\ TOP \notin Node /\ NULL # TOP
ASSUME LineAssumption == IniLine \subseteq {"title", "rom", "cfg", "recfg", "target"}
ASSUME LastAssumption == RomsLast \in BOOLEAN

VARIABLES
    pc,             \* where main() is
    heap,           \* what lives at each heap object
    title, next, last,      \* the fields of menu_t
    menu_act,       \* the active menu
    ext,            \* fileio_cha_ext
    dir_scan,
    embedded        \* the core is the embedded one

cfgVars == <<pc, heap, title, next, last, menu_act, ext, dir_scan, embedded>>
menus == <<title, next, last, menu_act>>

PC == {"free", "assert", "load", "ini", "default", "use"}
Kind == {"free", "menu", "ext", "dir", "target"}
Titles == Title \cup {"ROMs", "Replay Menu"}

CfgTypeOK ==
    /\ pc \in PC
    /\ heap \in [Node -> Kind]
    /\ title \in [Node -> Titles \cup {NULL}]
    /\ next \in [Node \cup {TOP} -> Node \cup {NULL}]
    /\ last \in [Node -> Node \cup {NULL}]
    /\ menu_act \in Node \cup {NULL}
    /\ ext \in Node \cup {NULL} /\ dir_scan \in Node \cup {NULL}
    /\ embedded \in BOOLEAN

CfgInit ==
    /\ pc = "free"
    /\ heap = [n \in Node |-> "free"]
    /\ title = [n \in Node |-> NULL] /\ last = [n \in Node |-> NULL]
    /\ next = [n \in Node \cup {TOP} |-> NULL]
    /\ menu_act = NULL /\ ext = NULL /\ dir_scan = NULL
    /\ embedded = FALSE

FreeNodes == {n \in Node : heap[n] = "free"}

\* The k-th menu that a walk along the list nx meets behind the node `from'.
Walk(nx, from) ==
    LET At[k \in 0 .. Cardinality(Node)] ==
            IF k = 0 THEN from ELSE IF At[k - 1] = NULL THEN NULL ELSE nx[At[k - 1]]
    IN At

\* The menus that a walk from menu_top meets.
Listed(nx) == {Walk(nx, TOP)[k] : k \in 1 .. Cardinality(Node)} \ {NULL}

\* The menu_t** through which the list nx points to n.
Link(nx, n) == CHOOSE m \in Listed(nx) \cup {TOP} : nx[m] = n

\* Is n the last menu with title t on the list, the one that a search that
\* does not stop finds?
LastTitled(nx, ti, n, t) ==
    /\ n \in Listed(nx) /\ ti[n] = t
    /\ \A k \in 1 .. Cardinality(Node) :
          Walk(nx, n)[k] # NULL => ti[Walk(nx, n)[k]] # t

-----------------------------------------------------------------------------
\* Mutant: the next field keeps what malloc returned.
AllocMenuGarbage(n, t) ==
    /\ heap' = [heap EXCEPT ![n] = "menu"]
    /\ title' = [title EXCEPT ![n] = t]
    /\ next' = IF next[TOP] = NULL THEN [next EXCEPT ![n] = TOP, ![TOP] = n]
               ELSE [next EXCEPT ![n] = TOP, ![menu_act] = n]
    /\ last' = [last EXCEPT ![n] = IF next[TOP] = NULL THEN NULL ELSE menu_act]
    /\ menu_act' = n

\* CFG_alloc_menu_and_set_active at the node n that malloc returned.
AllocMenu(n, t) ==
    /\ heap' = [heap EXCEPT ![n] = "menu"]
    /\ title' = [title EXCEPT ![n] = t]
    /\ next' = IF next[TOP] = NULL THEN [next EXCEPT ![n] = NULL, ![TOP] = n]
               ELSE [next EXCEPT ![n] = NULL, ![menu_act] = n]
    /\ last' = [last EXCEPT ![n] = IF next[TOP] = NULL THEN NULL ELSE menu_act]
    /\ menu_act' = n

\* Bounds: an ini file leaves nodes for a last menu and the Replay Menu, and at
\* most one object is lost.
Room == Cardinality(FreeNodes) > 2
Lost == {n \in Node : heap[n] = "target" \/ (heap[n] = "ext" /\ n # ext)}

\* A title line of the menu section.
MenuTitle ==
    /\ pc = "ini" /\ Cardinality(FreeNodes) > 1 /\ "title" \in IniLine
    /\ \E n \in FreeNodes, t \in Title : AllocMenu(n, t)
    /\ UNCHANGED <<pc, ext, dir_scan, embedded>>

\* A rom line: a further item of the ROMs menu, or a new ROMs menu if another
\* menu was begun since.
UploadRom ==
    /\ pc = "ini" /\ Room /\ "rom" \in IniLine /\ ~embedded
    /\ menu_act # NULL => title[menu_act] # "ROMs"
    /\ \E n \in FreeNodes : AllocMenu(n, "ROMs")
    /\ UNCHANGED <<pc, ext, dir_scan, embedded>>

\* A cha_cfg line with extensions.  "recfg": one that follows another, whose
\* list of extensions is forgotten.
ChaCfg ==
    /\ pc = "ini" /\ Room
    /\ IF ext = NULL THEN "cfg" \in IniLine ELSE "recfg" \in IniLine /\ Lost = {}
    /\ \E n \in FreeNodes : ext' = n /\ heap' = [heap EXCEPT ![n] = "ext"]
    /\ UNCHANGED <<pc, menus, dir_scan, embedded>>

\* A target line.
Target ==
    /\ pc = "ini" /\ Room /\ "target" \in IniLine /\ Lost = {}
    /\ \E n \in FreeNodes : heap' = [heap EXCEPT ![n] = "target"]
    /\ UNCHANGED <<pc, menus, ext, dir_scan, embedded>>

\* The ini file ends, or is abandoned at a line with an error.
IniEnds ==
    /\ pc = "ini"
    /\ menu_act # NULL /\ title[menu_act] = "ROMs" => RomsLast
    /\ pc' = IF embedded THEN "use" ELSE "default"
    /\ UNCHANGED <<heap, menus, ext, dir_scan, embedded>>

\* Mutant: the menu that follows keeps its back link.
MoveHalfLinked(r, w, nx, la) ==
    LET rp == Link(nx, r)
        wp == Link(nx, w)
        n1 == [nx EXCEPT ![rp] = nx[r]]
        n2 == [n1 EXCEPT ![r] = n1[wp]]
    IN /\ next' = [n2 EXCEPT ![wp] = r]
       /\ last' = [la EXCEPT ![r] = la[w], ![w] = r]

\* Mutant: the menu is unlinked and not linked again.
MoveUnlinked(r, w, nx, la) ==
    /\ next' = [nx EXCEPT ![Link(nx, r)] = nx[r]]
    /\ last' = [la EXCEPT ![nx[r]] = la[r]]

\* Mutant: the menu stays where the ini file put it.
MoveNothing(r, w, nx, la) == next' = nx /\ last' = la

\* The end of CFG_add_default, statement by statement: r is unlinked from
\* where it is and linked in front of w.  wp may be r itself.
Move(r, w, nx, la) ==
    LET rp == Link(nx, r)
        wp == Link(nx, w)
        n1 == [nx EXCEPT ![rp] = nx[r]]                 \* unlink
        l1 == [la EXCEPT ![nx[r]] = la[r]]
        n2 == [n1 EXCEPT ![r] = n1[wp]]                 \* relink
        n3 == [n2 EXCEPT ![wp] = r]
        l2 == [l1 EXCEPT ![r] = l1[n3[r]]]
    IN /\ next' = n3
       /\ last' = [l2 EXCEPT ![n3[r]] = r]

\* CFG_add_default: append the Replay Menu, then find ROMs and link it right
\* before the Replay Menu.
AddDefault ==
    /\ pc = "default" /\ pc' = "use"
    /\ \E n \in FreeNodes :
          LET nx == IF next[TOP] = NULL THEN [next EXCEPT ![n] = NULL, ![TOP] = n]
                    ELSE [next EXCEPT ![n] = NULL, ![menu_act] = n]
              la == [last EXCEPT ![n] = IF next[TOP] = NULL THEN NULL ELSE menu_act]
              ti == [title EXCEPT ![n] = "Replay Menu"]
              roms == {r \in Node : LastTitled(nx, ti, r, "ROMs")}
          IN /\ heap' = [heap EXCEPT ![n] = "menu"]
             /\ title' = ti /\ menu_act' = n
             /\ IF roms = {} THEN next' = nx /\ last' = la
                ELSE \E r \in roms : Move(r, n, nx, la)
    /\ UNCHANGED <<ext, dir_scan, embedded>>

\* The keys of menu.c: one menu to the left or right, or to either end when
\* the menu is entered from the status page.
WalkMenus ==
    /\ pc = "use" /\ menu_act # NULL
    /\ \/ next[menu_act] # NULL /\ menu_act' = next[menu_act]
       \/ last[menu_act] # NULL /\ menu_act' = last[menu_act]
    /\ UNCHANGED <<pc, heap, title, next, last, ext, dir_scan, embedded>>

LeaveCore ==
    /\ pc = "use" /\ pc' = "free"
    /\ UNCHANGED <<heap, menus, ext, dir_scan, embedded>>

\* CFG_free_menu.  The fields of freed menus are left as they are; they are
\* NULL here because nothing may read them.
FreeMenu ==
    /\ pc = "free" /\ pc' = "assert"
    /\ LET dead == Listed(next) \cup ({ext, dir_scan} \ {NULL})
       IN /\ heap' = [n \in Node |-> IF n \in dead THEN "free" ELSE heap[n]]
          /\ title' = [n \in Node |-> IF n \in dead THEN NULL ELSE title[n]]
          /\ last' = [n \in Node |-> IF n \in dead THEN NULL ELSE last[n]]
          /\ next' = [n \in Node \cup {TOP} |->
                         IF n \in dead \cup {TOP} THEN NULL ELSE next[n]]
    /\ menu_act' = NULL /\ ext' = NULL /\ dir_scan' = NULL
    /\ UNCHANGED embedded

\* Assert(!mallinfo().uordblks), which a release build leaves out.
Asserted ==
    /\ pc = "assert" /\ pc' = "load"
    /\ UNCHANGED <<heap, menus, ext, dir_scan, embedded>>

\* init_core.  CFG_init allocates dir_scan unless the core does not answer;
\* then, and if there is no ini file, no line is parsed.  The embedded core
\* has its own ini file and no dir_scan.
LoadCore ==
    /\ pc = "load"
    /\ \/ /\ pc' = "ini" /\ embedded' = FALSE
          /\ \E n \in FreeNodes :
                dir_scan' = n /\ heap' = [heap EXCEPT ![n] = "dir"]
       \/ /\ pc' = "default" /\ embedded' = FALSE
          /\ UNCHANGED <<dir_scan, heap>>
       \/ /\ pc' = "ini" /\ embedded' = TRUE
          /\ UNCHANGED <<dir_scan, heap>>
    /\ UNCHANGED <<menus, ext>>

CfgNext ==
    \/ MenuTitle \/ UploadRom \/ ChaCfg \/ Target
    \/ IniEnds \/ AddDefault
    \/ WalkMenus \/ LeaveCore
    \/ FreeMenu \/ Asserted \/ LoadCore

CfgSpec == CfgInit /\ [][CfgNext]_cfgVars

-----------------------------------------------------------------------------
(* Properties.                                                              *)

\* While the menu is used, next and last are inverse to each other on the
\* list, which starts at menu_top and ends; the keys can walk it both ways,
\* and the active menu is on it.
WellLinked ==
    pc = "use" =>
        /\ \A n \in Listed(next) :
              /\ heap[n] = "menu"
              /\ next[n] # NULL => last[next[n]] = n
              /\ last[n] # NULL => next[last[n]] = n
              /\ last[n] = NULL <=> next[TOP] = n
        /\ menu_act # NULL => menu_act \in Listed(next)

\* Every menu that was built can be reached with the keys and will be freed:
\* moving the ROMs menu loses none.
NoMenuLost == \A n \in Node : heap[n] = "menu" => n \in Listed(next)

\* The heap is a menu tree: types, the links as every handler finds them, and
\* every menu on the list.
CfgInv == CfgTypeOK /\ WellLinked /\ NoMenuLost

\* After CFG_free_menu all dynamically allocated memory is free.
AllFree == pc = "assert" => FreeNodes = Node

\* The ROMs menu is right before the Replay Menu.
RomsBeforeReplay ==
    pc = "use" /\ ~embedded =>
        \A n \in Node : heap[n] = "menu" /\ title[n] = "ROMs" =>
            \E r, w \in Listed(next) : /\ title[r] = "ROMs" /\ next[r] = w
                                       /\ title[w] = "Replay Menu"
=============================================================================
