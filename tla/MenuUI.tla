------------------------------- MODULE MenuUI -------------------------------
(***************************************************************************)
(* The on-screen menu (Replay_Boot/menu.c): the screen that is shown, the  *)
(* popups that ask before something drastic is done, the USB lock and the  *)
(* OSD timeout.                                                            *)
(*                                                                         *)
(* The menu is one record, ui, the part of current_status that menu.c      *)
(* works on.  Each key handler is an operator from such a record to the    *)
(* record it leaves; one call of MENU_handle_ui, with everything it calls, *)
(* is one step.  Which menu entry the cursor is on, whether a file can be  *)
(* loaded and when timers run out are left open.                           *)
(***************************************************************************)
EXTENDS Naturals

CONSTANTS
    OsdTimeouts,    \* the values of osd_timeout the ini files give
    HalfTimeout     \* osd_timeout_cnt for an OSD that opens by itself (15)

ASSUME TimeoutAssumption == OsdTimeouts \subseteq Nat /\ HalfTimeout \in Nat

VARIABLES
    ui,             \* the menu's part of current_status
    osd_timeout,    \* ticks until the OSD is hidden, 0 = disabled
    running,        \* a core runs (fpga_load_ok # NO_CORE)
    answer          \* history: the last question answered with yes, what was done

vars == <<ui, osd_timeout, running, answer>>

State == {"NO_MENU", "SHOW_STATUS", "SHOW_MENU", "FILE_BROWSER",
          "POPUP_MENU", "USB_STATUS"}

\* What a popup can ask, and what a yes to it can do.
Deed == {"none", "reset", "reboot", "usb", "sync", "flash"}

Flag == {"do_reboot", "toggle_usb", "sync_rdb", "flash_fw", "verify_flash_fw"}

\* The actions of menu items; "option" is an item without one.
Item == {"option", "drive", "iniselect", "iniload", "loadselect", "storeselect",
         "backup", "reset", "reboot", "mountmsc", "syncrdb", "flashfw", "rom"}

\* "char" is any other key a table knows: P, letters, BACK, HOME.
Key == {"none", "MENU", "LEFT", "RIGHT", "UP", "DOWN", "ENTER", "ESC", "char"}

\* The tick counter never passes the limit it is compared with.
Tick == UNION {0 .. n : n \in OsdTimeouts \cup {HalfTimeout}}

\* The menu's part of current_status, and the local update of MENU_handle_ui.
Menu == [state  : State,          \* menu_state
         usb    : BOOLEAN,        \* usb_mounted
         flags  : SUBSET Flag,    \* what _MENU_update is to do
         asked  : Deed,           \* popup_msg
         sel    : BOOLEAN,        \* selected: the cursor is on yes
         moved  : BOOLEAN,        \* history: it was moved in this popup
         item   : Item \cup {"NULL"},     \* menu_item_act, in the item list
         update : BOOLEAN,        \* update: redraw at the next call
         draw   : BOOLEAN,        \* the local update of MENU_handle_ui
         cnt    : Tick,           \* osd_timeout_cnt
         osd    : BOOLEAN]        \* OSD on, keyboard taken from the core

TypeOK ==
    /\ ui \in Menu
    /\ osd_timeout \in OsdTimeouts
    /\ running \in BOOLEAN
    /\ answer \in [asked : Deed, did : Deed]

\* After memset(&current_status, 0).
Boot == [state |-> "NO_MENU", usb |-> FALSE, flags |-> {}, asked |-> "none",
         sel |-> FALSE, moved |-> FALSE, item |-> "NULL", update |-> FALSE,
         draw |-> FALSE, cnt |-> 0, osd |-> FALSE]

Init ==
    /\ ui = Boot
    /\ osd_timeout \in OsdTimeouts
    /\ running = FALSE
    /\ answer = [asked |-> "none", did |-> "none"]

-----------------------------------------------------------------------------
\* Mutant: USB mass storage does not lock the menu.
SetStateFree(u, s) == [u EXCEPT !.state = s]

\* MENU_set_state: with the card lent to a USB host there is no other screen
\* than none, a popup or the USB status.
SetState(u, s) ==
    [u EXCEPT !.state = IF u.usb /\ s \notin {"NO_MENU", "POPUP_MENU"}
                        THEN "USB_STATUS" ELSE s]

\* Mutant: the OSD is switched off only by the key that opened it.
HideKeepsOsd(u) == [SetState(u, "NO_MENU") EXCEPT !.draw = FALSE]

\* MENU_set_state(NO_MENU) and OSD_Disable, always together.
Hide(u) == [SetState(u, "NO_MENU") EXCEPT !.draw = FALSE, !.osd = FALSE]

\* A popup opens with the cursor on no.
Ask(u, question, set, clear) ==
    [SetState(u, "POPUP_MENU") EXCEPT
        !.asked = question, !.flags = (@ \ clear) \cup set,
        !.sel = FALSE, !.moved = FALSE, !.draw = TRUE]

\* ... and asks to be redrawn by the next call too.
AskAgain(u, question, set, clear) ==
    [Ask(u, question, set, clear) EXCEPT !.update = TRUE]

\* What _MENU_update does for a set of flags, in the order it tests them.
DoneFor(flags) ==
    CASE "do_reboot" \in flags -> "reboot"
      [] "do_reboot" \notin flags /\ "toggle_usb" \in flags -> "usb"
      [] flags \cap {"do_reboot", "toggle_usb"} = {} /\ "sync_rdb" \in flags -> "sync"
      [] flags \cap {"do_reboot", "toggle_usb", "sync_rdb"} = {}
            /\ "flash_fw" \in flags -> "flash"
      [] OTHER -> "reset"

\* The result of one handler: the record, and whether the core is reloaded.
Stay(u) == [ui |-> u, reload |-> FALSE]
Reload(u) == [ui |-> u, reload |-> TRUE]

ToStatus(u) == [SetState(u, "SHOW_STATUS") EXCEPT !.update = TRUE, !.draw = TRUE]

\* _MENU_update: a reboot starts over; a flash reboots too, unless it fails.
MenuUpdate(u) ==
    CASE DoneFor(u.flags) = "reboot" -> {Reload(Boot)}
      [] DoneFor(u.flags) = "usb" ->
            {Stay(ToStatus([u EXCEPT !.usb = ~@, !.flags = @ \ {"toggle_usb"}]))}
      [] DoneFor(u.flags) = "sync" ->
            {Stay(ToStatus([u EXCEPT !.flags = @ \ {"sync_rdb"}]))}
      [] DoneFor(u.flags) = "flash" ->
            {Reload(Boot), Reload([u EXCEPT !.flags = @ \ {"flash_fw"}, !.update = TRUE])}
      [] OTHER -> {Stay(ToStatus(u))}

-----------------------------------------------------------------------------
(* The key tables, one operator for each screen.  A result with draw set is *)
(* redrawn at the end of the call.                                          *)

Drawn(u) == [u EXCEPT !.draw = TRUE]

PopupKey(u, key) ==
    CASE key \in {"LEFT", "RIGHT"} ->
            {Stay(Drawn([u EXCEPT !.sel = ~@, !.moved = TRUE]))}
      [] key = "ENTER" ->
            IF u.sel THEN MenuUpdate(Hide(u))
                     ELSE {Stay([Hide(u) EXCEPT !.flags = {}])}
      [] key = "ESC" -> {Stay(Drawn(SetState(u, "SHOW_MENU")))}
      [] OTHER -> {Stay(u)}

\* Mutant: the cursor stays where the popup before left it.
UsbKeySelected(u, key) ==
    IF key = "ESC"
    THEN {Stay([AskAgain(u, "usb", {"toggle_usb"}, {}) EXCEPT !.sel = u.sel])}
    ELSE {Stay(u)}

\* key_action_usb_esc: "Make sure USB is ejected! Continue?"
UsbKey(u, key) ==
    IF key = "ESC" THEN {Stay(AskAgain(u, "usb", {"toggle_usb"}, {}))} ELSE {Stay(u)}

\* A core without a menu has no screen besides the status.
StatusKey(u, key) ==
    IF key \in {"LEFT", "RIGHT"} THEN {Stay(u), Stay(Drawn(SetState(u, "SHOW_MENU")))}
    ELSE {Stay(u)}

Browse(u) == Drawn(SetState(u, "FILE_BROWSER"))

\* _MENU_action_menu_execute.  A drive that is inserted is ejected or, when
\* it is fixed, left alone.
MenuExecute(u) ==
    CASE u.item \in {"iniselect", "flashfw", "rom"} -> {Stay(Browse(u))}
      [] u.item = "drive" -> {Stay(Browse(u)), Stay(Drawn(u)), Stay(u)}
      [] u.item = "loadselect" -> {Stay(Browse(u)), Stay(u)}
      [] u.item = "iniload" -> {Reload(Hide(u))}
      [] u.item = "storeselect" -> {Stay(Drawn(Hide(u))), Stay(u)}
      [] u.item = "backup" -> {Stay([Drawn(u) EXCEPT !.update = TRUE])}
      [] u.item = "reset" -> {Stay(AskAgain(u, "reset", {}, {"do_reboot"}))}
      [] u.item = "reboot" -> {Stay(AskAgain(u, "reboot", {"do_reboot"}, {}))}
      [] u.item = "mountmsc" -> {Stay(AskAgain(u, "usb", {"toggle_usb"}, {"do_reboot"}))}
      [] u.item = "syncrdb" -> {Stay(AskAgain(u, "sync", {"sync_rdb"}, {"do_reboot"}))}
      [] OTHER -> {Stay(u)}

MenuKey(u, key) ==
    CASE key \in {"LEFT", "RIGHT"} ->
            IF u.item # "NULL" THEN {Stay(Drawn(u))}
            ELSE {Stay(Drawn(u)), Stay(Drawn(SetState(u, "SHOW_STATUS")))}
      [] key = "UP" ->
            IF u.item # "NULL"
            THEN {Stay(Drawn([u EXCEPT !.item = i])) : i \in Item \cup {"NULL"}}
            ELSE {Stay(Drawn(u))}
      [] key = "DOWN" -> {Stay(Drawn([u EXCEPT !.item = i])) : i \in Item \cup {u.item}}
      [] key = "ENTER" -> MenuExecute(u)
      [] key = "ESC" ->
            IF u.item # "NULL" THEN {Stay(Drawn([u EXCEPT !.item = "NULL"]))}
            ELSE {Stay(Ask(u, "reset", {}, {"do_reboot"}))}
      [] key = "char" -> {Stay(Drawn(u)), Stay(u)}      \* key_action_menu_protect
      [] OTHER -> {Stay(u)}

\* A firmware image was chosen, and perhaps can be verified; a ROM was loaded.
Chosen(u, verify, line) == [ToStatus(u) EXCEPT !.flags = @ \cup verify, !.update = line]
Loaded(u, draw, line) == [SetState(u, "SHOW_MENU") EXCEPT !.draw = draw, !.update = line]

\* _MENU_action_browser_execute on a file.  INFO and WARNING set update,
\* unless the line is there already.
BrowserExecute(u) ==
    CASE u.item = "drive" -> {Stay(Drawn(SetState(u, "SHOW_MENU")))}
      [] u.item = "iniselect" -> {Reload(Hide(u))}
      [] u.item = "loadselect" -> {Stay(Drawn(Hide(u)))}
      [] u.item = "flashfw" ->
            {Stay(Chosen(u, v, w)) : v \in {{}, {"verify_flash_fw"}}, w \in BOOLEAN}
      [] u.item = "rom" -> {Stay(Loaded(u, d, w)) : d \in BOOLEAN, w \in BOOLEAN}
      [] OTHER -> {Stay(u)}

BrowserKey(u, key) ==
    CASE key = "ENTER" -> BrowserExecute(u) \cup {Stay(Drawn(u)), Stay(u)}
      [] key = "ESC" -> {Stay(Drawn(SetState(u, "SHOW_MENU")))}
      [] key = "char" -> {Stay(u), Stay(Drawn(u))}      \* a letter or BACK, HOME
      [] key = "none" -> {Stay(u)}
      [] OTHER -> {Stay(Drawn(u))}

-----------------------------------------------------------------------------
(* MENU_handle_ui.                                                          *)

Visible(u) == u.state # "NO_MENU"

\* Mutant: the tick counter is never compared with osd_timeout.
PreludeNeverHides(u, key, expired) ==
    IF Visible(u) /\ osd_timeout # 0
    THEN IF key # "none" \/ u.draw THEN {[u EXCEPT !.cnt = 0]}
         ELSE IF expired THEN {[u EXCEPT !.cnt = @ + 1]} ELSE {u}
    ELSE {u}

\* Mutant: every call restarts the count, not only one with a key or update.
PreludeNeverCounts(u, key, expired) ==
    IF Visible(u) /\ osd_timeout # 0 THEN {[u EXCEPT !.cnt = 0]}
    ELSE IF u.draw THEN {[SetState(u, "SHOW_STATUS") EXCEPT !.cnt = HalfTimeout]}
    ELSE {u}

\* The first part: the OSD timeout, and an OSD that opens by itself.  An
\* empty set: the OSD is hidden and the call returns.
Prelude(u, key, expired) ==
    IF Visible(u) /\ osd_timeout # 0
    THEN IF key # "none" \/ u.draw THEN {[u EXCEPT !.cnt = 0]}
         ELSE IF ~expired THEN {u}
         ELSE IF u.cnt < osd_timeout THEN {[u EXCEPT !.cnt = @ + 1]} ELSE {}
    ELSE IF u.draw THEN {[SetState(u, "SHOW_STATUS") EXCEPT !.cnt = HalfTimeout]}
    ELSE {u}

\* The chosen firmware image is verified, and flashing it is asked for.
Verified(u) ==
    IF "verify_flash_fw" \notin u.flags THEN {u}
    ELSE LET v == [u EXCEPT !.flags = @ \ {"verify_flash_fw"}]
         IN {v, [v EXCEPT !.update = TRUE],     \* WARNING
             [AskAgain(v, "flash", {"flash_fw"}, {}) EXCEPT !.draw = u.draw]}

KeyMenu(u) ==
    IF Visible(u) THEN {Stay(Hide(u))}
    ELSE {Stay([SetState(u, "SHOW_STATUS") EXCEPT !.draw = TRUE, !.cnt = 0])}

Dispatch(u, key) ==
    CASE key = "MENU" -> KeyMenu(u)
      [] key # "MENU" /\ u.state = "POPUP_MENU" -> PopupKey(u, key)
      [] key # "MENU" /\ u.state = "FILE_BROWSER" -> BrowserKey(u, key)
      [] key # "MENU" /\ u.state = "SHOW_STATUS" -> StatusKey(u, key)
      [] key # "MENU" /\ u.state = "SHOW_MENU" -> MenuKey(u, key)
      [] key # "MENU" /\ u.state = "USB_STATUS" -> UsbKey(u, key)
      [] OTHER -> {Stay(u)}

\* The last part: redraw, and switch the OSD on if a screen is shown.  A delayed
\* file scan or a new refresh rate (again) may ask for it too.
Redraw(u, again) ==
    [u EXCEPT !.osd = @ \/ ((u.draw \/ again) /\ Visible(u)), !.draw = FALSE]

\* Was this call a yes to a popup?
Confirms(u, key) == key = "ENTER" /\ u.state = "POPUP_MENU" /\ u.sel

Entered == [ui EXCEPT !.update = FALSE, !.draw = ui.update]

HandleUi(key, expired) ==
    /\ running
    /\ \E u \in Prelude(Entered, key, expired) : \E v \in Verified(u) :
       \E r \in Dispatch(v, key), again \in BOOLEAN :
          /\ ui' = Redraw(r.ui, again)
          /\ running' = ~r.reload
          /\ answer' = IF Confirms(v, key)
                       THEN [asked |-> v.asked, did |-> DoneFor(v.flags)]
                       ELSE answer
    /\ UNCHANGED osd_timeout

\* The OSD times out.
HandleTimeout ==
    /\ running
    /\ Prelude(Entered, "none", TRUE) = {}
    /\ ui' = Hide(Entered)
    /\ UNCHANGED <<osd_timeout, running, answer>>

-----------------------------------------------------------------------------
(* What the rest of the firmware does to the menu.                          *)

\* MSG_output puts a line on the status screen.
Message ==
    /\ running
    /\ ui' = [ui EXCEPT !.update = TRUE]
    /\ UNCHANGED <<osd_timeout, running, answer>>

\* main.c: the card was removed.
CardRemoved ==
    /\ running
    /\ ui' = [SetState(ui, "SHOW_STATUS") EXCEPT !.update = TRUE]
    /\ UNCHANGED <<osd_timeout, running, answer>>

\* F12, KEY_FLASH or a programmer: the core is reloaded.
CoreLost ==
    /\ running /\ running' = FALSE
    /\ UNCHANGED <<ui, osd_timeout, answer>>

\* init_core: a new FPGA image (its OSD off), the ini file's osd_timeout, and
\* the status screen unless osd_init says otherwise.
InitCore ==
    /\ ~running /\ running' = TRUE
    /\ osd_timeout' \in OsdTimeouts
    /\ LET u == [SetState(ui, "NO_MENU") EXCEPT !.item = "NULL", !.osd = FALSE]
       IN ui' \in {[u EXCEPT !.update = FALSE],
                   [SetState(u, "SHOW_STATUS") EXCEPT !.update = TRUE, !.osd = TRUE]}
    /\ UNCHANGED answer

\* A turn of the main loop without a key.
Quiet == HandleTimeout \/ \E expired \in BOOLEAN : HandleUi("none", expired)

Next ==
    \/ Quiet
    \/ \E key \in Key \ {"none"} : HandleUi(key, FALSE)
    \/ Message \/ CardRemoved \/ CoreLost \/ InitCore

Spec == Init /\ [][Next]_vars

\* The main loop turns for ever, timers run out, and a core that was lost is
\* loaded again.
FairSpec ==
    /\ Spec
    /\ WF_vars(HandleTimeout \/ HandleUi("none", TRUE))
    /\ WF_vars(InitCore)

-----------------------------------------------------------------------------
(* Properties.                                                              *)

\* While the card is lent to a USB host no screen is reachable from which a
\* file can be opened, whatever keys, messages, card changes and reloads come.
UsbLocksMenu == ui.usb => ui.state \in {"NO_MENU", "POPUP_MENU", "USB_STATUS"}

\* The keyboard belongs to the menu exactly while a screen is shown (a screen
\* that is about to be drawn excepted, which the browser never is): the core never loses its keyboard to
\* a menu that was hidden by a timeout, a popup or a reload.
OsdFollowsMenu ==
    running => /\ ui.state = "NO_MENU" => ~ui.osd
               /\ Visible(ui) /\ ~ui.update => ui.osd
               /\ ui.state = "FILE_BROWSER" => ui.osd

\* Screen, timeout counter and OSD agree after every handler.
Inv == TypeOK /\ OsdFollowsMenu

\* A popup can only be confirmed after the cursor was moved to yes in that
\* very popup; a yes left over from an earlier one does not count.
NoAccidentalYes == ui.state = "POPUP_MENU" /\ ui.sel => ui.moved

\* The OSD timeout: when keys and messages stop, the menu is hidden for good
\* (osd_timeout # 0), from every screen.
MenuGoesAway ==
    <>[][Quiet]_vars => <>[](osd_timeout # 0 /\ running => ui.state = "NO_MENU")

\* A yes does what the popup asked.
YesDoesWhatWasAsked == answer.did = answer.asked

\* With the OSD timeout disabled (0), a popup stays until a key is pressed.
PopupWaits ==
    [][ui.state = "POPUP_MENU" /\ osd_timeout = 0 /\ Quiet
        => ui'.state = "POPUP_MENU"]_vars
=============================================================================
