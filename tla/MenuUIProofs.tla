---------------------------- MODULE MenuUIProofs ----------------------------
(***************************************************************************)
(* For any OSD timeouts: what the menu keeps through every key, message,   *)
(* card change and reload.  For any ini files and any size of the heap:    *)
(* the list of menus.                                                      *)
(***************************************************************************)
EXTENDS MenuUI, ConfigMenu, Integers, FiniteSetTheorems, WellFoundedInduction, TLAPS

-----------------------------------------------------------------------------
(* The invariant, of one record: handlers are operators on records, and     *)
(* several of them run in one step.                                         *)

Locked(u) == u.usb => u.state \in {"NO_MENU", "POPUP_MENU", "USB_STATUS"}

Deliberate(u) == u.state = "POPUP_MENU" /\ u.sel => u.moved

\* Within a call, a screen that is shown is on the OSD or about to be drawn.
Shown(u) ==
    /\ u.state = "NO_MENU" => ~u.osd
    /\ u.state # "NO_MENU" => u.osd \/ u.draw \/ u.update
    /\ u.state = "FILE_BROWSER" => u.osd \/ u.draw

Good(u) == u \in Menu /\ Locked(u) /\ Deliberate(u) /\ Shown(u)

\* What a key handler may rely on.
Ready(u) == Good(u) /\ (u.state = "FILE_BROWSER" => u.osd)

AllGood(results) == \A x \in results : Good(x.ui) /\ x.reload \in BOOLEAN

-----------------------------------------------------------------------------
(* The steps handlers are made of.                                          *)

LEMMA SetStateGood ==
    ASSUME NEW u \in Menu, NEW s \in State
    PROVE  /\ SetState(u, s) \in Menu /\ Locked(SetState(u, s))
           /\ SetState(u, s).state \in {s, "USB_STATUS"}
           /\ s \in {"NO_MENU", "POPUP_MENU"} => SetState(u, s).state = s
BY DEF SetState, Menu, State, Locked

LEMMA HideGood ==
    ASSUME NEW u \in Menu
    PROVE  Good(Hide(u)) /\ Hide(u).state = "NO_MENU" /\ Hide(u).usb = u.usb
BY DEF Hide, SetState, Menu, State, Good, Locked, Deliberate, Shown

LEMMA DrawnGood ==
    ASSUME NEW u \in Menu, NEW s \in State \ {"NO_MENU", "POPUP_MENU"}
    PROVE  Good(Drawn(SetState(u, s)))
BY DEF Drawn, SetState, Menu, State, Good, Locked, Deliberate, Shown

LEMMA RedrawnGood ==
    ASSUME NEW u, Good(u)
    PROVE  Good(Drawn(u))
BY DEF Drawn, Menu, Good, Locked, Deliberate, Shown

LEMMA AskGood ==
    ASSUME NEW u \in Menu, NEW question \in Deed,
           NEW set \in SUBSET Flag, NEW clear \in SUBSET Flag
    PROVE  /\ Good(Ask(u, question, set, clear))
           /\ Ask(u, question, set, clear).state = "POPUP_MENU"
           /\ Good(AskAgain(u, question, set, clear))
           /\ AskAgain(u, question, set, clear).state = "POPUP_MENU"
<1> DEFINE a == Ask(u, question, set, clear)
<1>1. Good(a) /\ a.state = "POPUP_MENU"
  BY DEF Ask, SetState, Menu, State, Good, Locked, Deliberate, Shown
<1>2. AskAgain(u, question, set, clear) = [a EXCEPT !.update = TRUE]
  BY DEF AskAgain
<1> HIDE DEF a
<1>3. Good([a EXCEPT !.update = TRUE]) /\ [a EXCEPT !.update = TRUE].state = a.state
  BY <1>1 DEF Menu, Good, Locked, Deliberate, Shown
<1> QED BY <1>1, <1>2, <1>3 DEF a

LEMMA ToStatusGood ==
    ASSUME NEW u \in Menu
    PROVE  Good(ToStatus(u))
BY DEF ToStatus, SetState, Menu, State, Good, Locked, Deliberate, Shown

-----------------------------------------------------------------------------
(* The handlers.                                                            *)

LEMMA BootGood == Good(Boot)
<1>1. 0 \in Tick
  BY TimeoutAssumption DEF Tick
<1> QED BY <1>1 DEF Boot, Menu, State, Deed, Item, Good, Locked, Deliberate, Shown

\* A single result, or no change.
LEMMA OneGood ==
    ASSUME NEW u, Good(u)
    PROVE  AllGood({Stay(u)}) /\ AllGood({Reload(u)})
BY DEF AllGood, Stay, Reload

LEMMA Together ==
    ASSUME NEW S, NEW T, AllGood(S), AllGood(T)
    PROVE  AllGood(S \cup T)
BY DEF AllGood

LEMMA PairGood ==
    ASSUME NEW u, Good(u), NEW v, Good(v)
    PROVE  AllGood({Stay(u), Stay(v)})
<1>1. AllGood({Stay(u)} \cup {Stay(v)})
  BY OneGood, Together
<1>2. {Stay(u)} \cup {Stay(v)} = {Stay(u), Stay(v)}
  OBVIOUS
<1> QED BY <1>1, <1>2

LEMMA MenuUpdateGood ==
    ASSUME NEW u, Good(u)
    PROVE  AllGood(MenuUpdate(u))
<1> DEFINE toggled == [u EXCEPT !.usb = ~@, !.flags = @ \ {"toggle_usb"}]
           synced == [u EXCEPT !.flags = @ \ {"sync_rdb"}]
           failed == [u EXCEPT !.flags = @ \ {"flash_fw"}, !.update = TRUE]
<1>1. toggled \in Menu /\ synced \in Menu /\ u \in Menu
  BY DEF Menu, Good
<1>2. Good(failed)
  BY DEF Menu, Good, Locked, Deliberate, Shown
<1>3. \A v \in {toggled, synced, u} : Good(ToStatus(v))
  BY <1>1, ToStatusGood
<1> HIDE DEF toggled, synced, failed
<1>4. MenuUpdate(u) \in {{Reload(Boot)}, {Stay(ToStatus(toggled))},
                         {Stay(ToStatus(synced))}, {Reload(Boot), Reload(failed)},
                         {Stay(ToStatus(u))}}
  <2>1. DoneFor(u.flags) \in {"reboot", "usb", "sync", "flash", "reset"}
    BY DEF DoneFor
  <2> QED BY <2>1 DEF MenuUpdate, toggled, synced, failed
<1>5. /\ AllGood({Reload(Boot)}) /\ AllGood({Reload(failed)})
      /\ \A v \in {toggled, synced, u} : AllGood({Stay(ToStatus(v))})
  BY <1>2, <1>3, BootGood, OneGood
<1>6. AllGood({Reload(Boot), Reload(failed)})
  BY <1>5 DEF AllGood
<1> QED BY <1>4, <1>5, <1>6

LEMMA PopupKeyGood ==
    ASSUME NEW u, Ready(u), NEW key \in Key, u.state = "POPUP_MENU"
    PROVE  AllGood(PopupKey(u, key))
<1>1. u \in Menu /\ Good(u) /\ Good(Hide(u))
  BY HideGood DEF Ready, Good
<1>2. CASE key \in {"LEFT", "RIGHT"}
  <2> DEFINE v == [u EXCEPT !.sel = ~@, !.moved = TRUE]
  <2>1. Good(v)
    BY <1>1 DEF Menu, Good, Locked, Deliberate, Shown
  <2>2. PopupKey(u, key) = {Stay(Drawn(v))}
    BY <1>2 DEF PopupKey
  <2> HIDE DEF v
  <2> QED BY <2>1, <2>2, RedrawnGood, OneGood
<1>3. CASE key = "ENTER"
  <2> DEFINE w == Hide(u)
             v == [w EXCEPT !.flags = {}]
  <2> HIDE DEF w
  <2>1. Good(w)
    BY <1>1 DEF w
  <2>2. Good(v)
    BY <2>1 DEF Menu, Good, Locked, Deliberate, Shown
  <2>3. PopupKey(u, key) \in {MenuUpdate(w), {Stay(v)}}
    BY <1>3 DEF PopupKey, w
  <2> HIDE DEF v
  <2> QED BY <2>1, <2>2, <2>3, MenuUpdateGood, OneGood
<1>4. CASE key = "ESC"
  <2>1. PopupKey(u, key) = {Stay(Drawn(SetState(u, "SHOW_MENU")))}
    BY <1>4 DEF PopupKey
  <2> QED BY <1>1, <2>1, DrawnGood, OneGood DEF State
<1>5. CASE key \notin {"LEFT", "RIGHT", "ENTER", "ESC"}
  <2>1. PopupKey(u, key) = {Stay(u)}
    BY <1>5 DEF PopupKey
  <2> QED BY <1>1, <2>1, OneGood
<1> QED BY <1>2, <1>3, <1>4, <1>5

LEMMA UsbKeyGood ==
    ASSUME NEW u, Good(u), NEW key \in Key
    PROVE  AllGood(UsbKey(u, key))
<1>1. Good(AskAgain(u, "usb", {"toggle_usb"}, {}))
  BY AskGood DEF Good, Deed, Flag
<1> QED BY <1>1, OneGood DEF UsbKey

LEMMA StatusKeyGood ==
    ASSUME NEW u, Good(u), NEW key \in Key
    PROVE  AllGood(StatusKey(u, key))
<1>1. Good(Drawn(SetState(u, "SHOW_MENU")))
  BY DrawnGood DEF Good, State
<1> QED BY <1>1, OneGood, PairGood DEF StatusKey

LEMMA MenuExecuteGood ==
    ASSUME NEW u, Good(u)
    PROVE  AllGood(MenuExecute(u))
<1>1. u \in Menu /\ Good(Browse(u)) /\ Good(Drawn(u)) /\ Good(Hide(u)) /\ Good(Drawn(Hide(u)))
  BY DrawnGood, RedrawnGood, HideGood DEF Good, State, Browse
<1>2. Good([Drawn(u) EXCEPT !.update = TRUE])
  <2> DEFINE d == Drawn(u)
  <2> HIDE DEF d
  <2>1. Good(d)
    BY <1>1 DEF d
  <2>2. Good([d EXCEPT !.update = TRUE])
    BY <2>1 DEF Menu, Good, Locked, Deliberate, Shown
  <2> QED BY <2>2 DEF d
<1>3. /\ Good(AskAgain(u, "reset", {}, {"do_reboot"}))
      /\ Good(AskAgain(u, "reboot", {"do_reboot"}, {}))
      /\ Good(AskAgain(u, "usb", {"toggle_usb"}, {"do_reboot"}))
      /\ Good(AskAgain(u, "sync", {"sync_rdb"}, {"do_reboot"}))
  BY <1>1, AskGood DEF Deed, Flag
<1>4. CASE u.item \in {"iniselect", "flashfw", "rom"}
  BY <1>1, <1>4, OneGood DEF MenuExecute
<1>5. CASE u.item = "drive"
  <2>1. MenuExecute(u) = {Stay(Browse(u)), Stay(Drawn(u))} \cup {Stay(u)}
    BY <1>5 DEF MenuExecute
  <2>2. AllGood({Stay(Browse(u)), Stay(Drawn(u))}) /\ AllGood({Stay(u)})
    BY <1>1, OneGood, PairGood
  <2> QED BY <2>1, <2>2, Together
<1>6. CASE u.item \in {"loadselect", "storeselect"}
  BY <1>1, <1>6, PairGood DEF MenuExecute
<1>7. CASE u.item \in {"iniload", "backup"}
  BY <1>1, <1>2, <1>7, OneGood DEF MenuExecute
<1>8. CASE u.item \in {"reset", "reboot", "mountmsc", "syncrdb"}
  BY <1>3, <1>8, OneGood DEF MenuExecute
<1>9. CASE u.item \in {"option", "NULL"}
  BY <1>9, OneGood DEF MenuExecute
<1> QED BY <1>1, <1>4, <1>5, <1>6, <1>7, <1>8, <1>9 DEF Menu, Item

LEMMA MenuKeyGood ==
    ASSUME NEW u, Good(u), NEW key \in Key, u.state = "SHOW_MENU"
    PROVE  AllGood(MenuKey(u, key))
<1>1. u \in Menu /\ Good(Drawn(u)) /\ Good(Drawn(SetState(u, "SHOW_STATUS")))
  BY DrawnGood, RedrawnGood DEF Good, State
<1>2. \A i \in Item \cup {"NULL"} : Good(Drawn([u EXCEPT !.item = i]))
  <2> TAKE i \in Item \cup {"NULL"}
  <2>1. Good([u EXCEPT !.item = i])
    BY DEF Menu, Good, Locked, Deliberate, Shown
  <2> QED BY <2>1, RedrawnGood
<1>3. \A I \in SUBSET (Item \cup {"NULL"}) :
         AllGood({Stay(Drawn([u EXCEPT !.item = i])) : i \in I})
  <2> SUFFICES ASSUME NEW I \in SUBSET (Item \cup {"NULL"}),
                      NEW x \in {Stay(Drawn([u EXCEPT !.item = i])) : i \in I}
               PROVE  Good(x.ui) /\ x.reload \in BOOLEAN
    BY DEF AllGood
  <2>1. PICK i \in I : x = Stay(Drawn([u EXCEPT !.item = i]))
    OBVIOUS
  <2>2. x.ui = Drawn([u EXCEPT !.item = i]) /\ x.reload = FALSE
    BY <2>1 DEF Stay
  <2> QED BY <1>2, <2>2
<1>4. CASE key \in {"LEFT", "RIGHT"}
  BY <1>1, <1>4, OneGood, PairGood DEF MenuKey
<1>5. CASE key = "UP"
  BY <1>1, <1>3, <1>5, OneGood DEF MenuKey
<1>6. CASE key = "DOWN"
  <2>1. Item \cup {u.item} \in SUBSET (Item \cup {"NULL"})
    BY <1>1 DEF Menu
  <2> QED BY <1>3, <1>6, <2>1 DEF MenuKey
<1>7. CASE key = "ENTER"
  BY <1>7, MenuExecuteGood DEF MenuKey
<1>8. CASE key = "ESC"
  <2>1. Good(Ask(u, "reset", {}, {"do_reboot"}))
    BY <1>1, AskGood DEF Deed, Flag
  <2>2. "NULL" \in Item \cup {"NULL"}
    OBVIOUS
  <2> QED BY <1>2, <1>8, <2>1, <2>2, OneGood DEF MenuKey
<1>9. CASE key = "char"
  BY <1>1, <1>9, PairGood DEF MenuKey
<1>10. CASE key \in {"none", "MENU"}
  BY <1>10, OneGood DEF MenuKey
<1> QED BY <1>4, <1>5, <1>6, <1>7, <1>8, <1>9, <1>10 DEF Key

LEMMA BrowserExecuteGood ==
    ASSUME NEW u, Ready(u), u.state = "FILE_BROWSER"
    PROVE  AllGood(BrowserExecute(u))
<1>1. /\ u \in Menu /\ Good(u) /\ u.osd
      /\ Good(Hide(u)) /\ Good(Drawn(Hide(u)))
      /\ Good(Drawn(SetState(u, "SHOW_MENU")))
  BY DrawnGood, RedrawnGood, HideGood DEF Ready, Good, State
<1>2. CASE u.item = "drive"
  <2>1. BrowserExecute(u) = {Stay(Drawn(SetState(u, "SHOW_MENU")))}
    BY <1>2 DEF BrowserExecute
  <2> QED BY <1>1, <2>1, OneGood
<1>3. CASE u.item \in {"iniselect", "loadselect"}
  <2>1. BrowserExecute(u) \in {{Reload(Hide(u))}, {Stay(Drawn(Hide(u)))}}
    BY <1>3 DEF BrowserExecute
  <2> QED BY <1>1, <2>1, OneGood
<1>4. CASE u.item = "flashfw"
  <2>1. ASSUME NEW v \in {{}, {"verify_flash_fw"}}, NEW w \in BOOLEAN
        PROVE  Good(Chosen(u, v, w))
    <3> DEFINE s == ToStatus(u)
    <3>1. Good(s) /\ s.draw /\ s.state # "FILE_BROWSER"
      <4>1. u \in Menu
        BY <1>1
      <4>2. s.draw /\ s.state \in {"SHOW_STATUS", "USB_STATUS"}
        BY <4>1 DEF ToStatus, SetState, Menu, State
      <4>3. Good(s)
        BY <4>1, ToStatusGood
      <4> QED BY <4>2, <4>3
    <3> HIDE DEF s
    <3>2. s.flags \cup v \in SUBSET Flag
      BY <3>1 DEF Menu, Flag, Good
    <3>3. Good([s EXCEPT !.flags = s.flags \cup v, !.update = w])
      BY <3>1, <3>2 DEF Menu, Good, Locked, Deliberate, Shown
    <3> QED BY <3>3 DEF s, Chosen
  <2> SUFFICES ASSUME NEW x \in BrowserExecute(u)
               PROVE  Good(x.ui) /\ x.reload \in BOOLEAN
    BY DEF AllGood
  <2>2. PICK v \in {{}, {"verify_flash_fw"}}, w \in BOOLEAN : x = Stay(Chosen(u, v, w))
    BY <1>4 DEF BrowserExecute
  <2>3. x.ui = Chosen(u, v, w) /\ x.reload = FALSE
    BY <2>2 DEF Stay
  <2> QED BY <2>1, <2>3
<1>5. CASE u.item = "rom"
  <2>1. ASSUME NEW d \in BOOLEAN, NEW w \in BOOLEAN
        PROVE  Good(Loaded(u, d, w))
    <3> DEFINE s == SetState(u, "SHOW_MENU")
    <3>1. s \in Menu /\ Locked(s) /\ s.osd /\ s.state \in {"SHOW_MENU", "USB_STATUS"}
      BY <1>1 DEF SetState, Menu, State, Locked
    <3> HIDE DEF s
    <3>2. Good([s EXCEPT !.draw = d, !.update = w])
      BY <3>1 DEF Menu, Good, Locked, Deliberate, Shown
    <3> QED BY <3>2 DEF s, Loaded
  <2> SUFFICES ASSUME NEW x \in BrowserExecute(u)
               PROVE  Good(x.ui) /\ x.reload \in BOOLEAN
    BY DEF AllGood
  <2>2. PICK d \in BOOLEAN, w \in BOOLEAN : x = Stay(Loaded(u, d, w))
    BY <1>5 DEF BrowserExecute
  <2>3. x.ui = Loaded(u, d, w) /\ x.reload = FALSE
    BY <2>2 DEF Stay
  <2> QED BY <2>1, <2>3
<1>6. CASE u.item \notin {"drive", "iniselect", "loadselect", "flashfw", "rom"}
  <2>1. BrowserExecute(u) = {Stay(u)}
    BY <1>6 DEF BrowserExecute
  <2> QED BY <1>1, <2>1, OneGood
<1> QED BY <1>2, <1>3, <1>4, <1>5, <1>6

LEMMA BrowserKeyGood ==
    ASSUME NEW u, Ready(u), NEW key \in Key, u.state = "FILE_BROWSER"
    PROVE  AllGood(BrowserKey(u, key))
<1>1. /\ Good(u) /\ Good(Drawn(u))
      /\ Good(Drawn(SetState(u, "SHOW_MENU")))
  BY DrawnGood, RedrawnGood DEF Ready, Good, State
<1>2. AllGood({Stay(Drawn(u)), Stay(u)}) /\ AllGood({Stay(u), Stay(Drawn(u))})
  BY <1>1, PairGood
<1>3. CASE key = "ENTER"
  <2>1. BrowserKey(u, key) = BrowserExecute(u) \cup {Stay(Drawn(u)), Stay(u)}
    BY <1>3 DEF BrowserKey
  <2> QED BY <1>2, <2>1, BrowserExecuteGood, Together
<1>4. CASE key # "ENTER"
  BY <1>1, <1>2, <1>4, OneGood DEF BrowserKey
<1> QED BY <1>3, <1>4

-----------------------------------------------------------------------------
(* A call of MENU_handle_ui.                                                *)

LEMMA EnteredReady ==
    ASSUME TypeOK, OsdFollowsMenu, running, Locked(ui), Deliberate(ui)
    PROVE  Ready(Entered) /\ ~Entered.update
BY DEF TypeOK, OsdFollowsMenu, Visible, Entered, Ready, Good, Menu, Locked, Deliberate, Shown

\* The tick counter stays below the limit it was last compared with.
LEMMA TickBelow ==
    ASSUME TypeOK, NEW c \in Tick
    PROVE  /\ 0 \in Tick /\ HalfTimeout \in Tick
           /\ c \in Nat /\ (c < osd_timeout => c + 1 \in Tick)
<1>1. osd_timeout \in Nat /\ osd_timeout \in OsdTimeouts
  BY TimeoutAssumption DEF TypeOK
<1>2. c \in Nat /\ 0 \in 0 .. HalfTimeout /\ HalfTimeout \in 0 .. HalfTimeout
  BY TimeoutAssumption DEF Tick
<1>3. c < osd_timeout => c + 1 \in 0 .. osd_timeout
  BY <1>1, <1>2
<1> QED BY <1>1, <1>2, <1>3 DEF Tick

LEMMA CountGood ==
    ASSUME NEW u, Ready(u), NEW n \in Tick
    PROVE  Ready([u EXCEPT !.cnt = n])
BY DEF Ready, Good, Menu, Locked, Deliberate, Shown

LEMMA PreludeReady ==
    ASSUME TypeOK, NEW u, Ready(u), NEW key, NEW expired,
           NEW v \in Prelude(u, key, expired)
    PROVE  Ready(v)
<1>1. u.cnt \in Tick /\ u \in Menu
  BY DEF Ready, Good, Menu
<1>2. /\ 0 \in Tick /\ HalfTimeout \in Tick
      /\ u.cnt < osd_timeout => u.cnt + 1 \in Tick
  BY <1>1, TickBelow
<1>3. CASE Visible(u) /\ osd_timeout # 0
  <2>1. v \in {u, [u EXCEPT !.cnt = 0]}
            \cup (IF u.cnt < osd_timeout THEN {[u EXCEPT !.cnt = u.cnt + 1]} ELSE {})
    BY <1>3 DEF Prelude
  <2> QED BY <1>2, <2>1, CountGood
<1>4. CASE ~(Visible(u) /\ osd_timeout # 0) /\ u.draw
  <2>1. v = [SetState(u, "SHOW_STATUS") EXCEPT !.cnt = HalfTimeout]
    BY <1>4 DEF Prelude
  <2> QED BY <1>1, <1>2, <1>4, <2>1
        DEF SetState, Menu, State, Ready, Good, Locked, Deliberate, Shown
<1>5. CASE ~(Visible(u) /\ osd_timeout # 0) /\ ~u.draw
  BY <1>5 DEF Prelude
<1> QED BY <1>3, <1>4, <1>5

LEMMA VerifiedReady ==
    ASSUME NEW u, Ready(u), NEW v \in Verified(u)
    PROVE  Ready(v)
<1> DEFINE w == [u EXCEPT !.flags = @ \ {"verify_flash_fw"}]
           x == [w EXCEPT !.update = TRUE]
           a == AskAgain(w, "flash", {"flash_fw"}, {})
           y == [a EXCEPT !.draw = u.draw]
<1>1. Ready(w)
  BY DEF Ready, Good, Menu, Locked, Deliberate, Shown
<1>2. v \in {u, w, x, y}
  BY DEF Verified
<1> HIDE DEF w
<1>3. Ready(x)
  BY <1>1 DEF Ready, Good, Menu, Locked, Deliberate, Shown
<1>4. Good(a) /\ a.state = "POPUP_MENU" /\ a.update /\ u.draw \in BOOLEAN
  <2>1. w \in Menu /\ u \in Menu
    BY <1>1 DEF Ready, Good
  <2>2. Good(a) /\ a.state = "POPUP_MENU"
    BY <2>1, AskGood DEF Deed, Flag
  <2>3. a.update /\ u.draw \in BOOLEAN
    BY <2>1 DEF AskAgain, Ask, SetState, Menu
  <2> QED BY <2>2, <2>3
<1> HIDE DEF a, x
<1>5. Ready(y)
  BY <1>4 DEF Ready, Good, Menu, Locked, Deliberate, Shown
<1> QED BY <1>1, <1>2, <1>3, <1>5

LEMMA KeyMenuGood ==
    ASSUME NEW u, Good(u)
    PROVE  AllGood(KeyMenu(u))
<1> DEFINE v == [SetState(u, "SHOW_STATUS") EXCEPT !.draw = TRUE, !.cnt = 0]
<1>1. 0 \in Tick /\ u \in Menu
  BY TimeoutAssumption DEF Tick, Good
<1>2. Good(v)
  BY <1>1 DEF SetState, Menu, State, Good, Locked, Deliberate, Shown
<1>3. KeyMenu(u) \in {{Stay(Hide(u))}, {Stay(v)}}
  BY DEF KeyMenu
<1>4. Good(Hide(u))
  BY <1>1, HideGood
<1> HIDE DEF v
<1> QED BY <1>2, <1>3, <1>4, OneGood

LEMMA DispatchGood ==
    ASSUME NEW u, Ready(u), NEW key \in Key
    PROVE  AllGood(Dispatch(u, key))
<1>1. Good(u) /\ u.state \in State
  BY DEF Ready, Good, Menu
<1>2. CASE key = "MENU"
  BY <1>1, <1>2, KeyMenuGood DEF Dispatch
<1>3. CASE key # "MENU" /\ u.state = "POPUP_MENU"
  BY <1>3, PopupKeyGood DEF Dispatch
<1>4. CASE key # "MENU" /\ u.state = "FILE_BROWSER"
  BY <1>4, BrowserKeyGood DEF Dispatch
<1>5. CASE key # "MENU" /\ u.state = "SHOW_STATUS"
  BY <1>1, <1>5, StatusKeyGood DEF Dispatch
<1>6. CASE key # "MENU" /\ u.state = "SHOW_MENU"
  BY <1>1, <1>6, MenuKeyGood DEF Dispatch
<1>7. CASE key # "MENU" /\ u.state = "USB_STATUS"
  BY <1>1, <1>7, UsbKeyGood DEF Dispatch
<1>8. CASE key # "MENU" /\ u.state = "NO_MENU"
  BY <1>1, <1>8, OneGood DEF Dispatch
<1> QED BY <1>1, <1>2, <1>3, <1>4, <1>5, <1>6, <1>7, <1>8 DEF State

\* What MENU_handle_ui leaves behind.
Drawing(u) ==
    /\ u \in Menu /\ Locked(u) /\ Deliberate(u)
    /\ u.state = "NO_MENU" => ~u.osd
    /\ Visible(u) /\ ~u.update => u.osd
    /\ u.state = "FILE_BROWSER" => u.osd

LEMMA RedrawDraws ==
    ASSUME NEW u, Good(u), NEW again \in BOOLEAN
    PROVE  Drawing(Redraw(u, again))
BY DEF Redraw, Visible, Drawing, Good, Menu, Locked, Deliberate, Shown

-----------------------------------------------------------------------------
(* The theorem.                                                             *)

\* What every step of the menu keeps: the record has its types, screen and OSD
\* agree, the USB lock holds and no popup starts with a yes.
MenuInv == Inv /\ UsbLocksMenu /\ NoAccidentalYes

LEMMA MenuInit == Init => MenuInv
<1> SUFFICES ASSUME Init PROVE MenuInv
  OBVIOUS
<1>2. Good(Boot) /\ "none" \in Deed
  BY BootGood DEF Deed
<1>3. TypeOK
  BY <1>2 DEF Init, TypeOK, Good
<1>4. OsdFollowsMenu /\ UsbLocksMenu /\ NoAccidentalYes
  BY DEF Init, Boot, OsdFollowsMenu, UsbLocksMenu, NoAccidentalYes, Visible
<1> QED BY <1>3, <1>4 DEF MenuInv, Inv

\* A step to a record that is good keeps the invariant.
LEMMA DrawingKeeps ==
    ASSUME Drawing(ui'), osd_timeout' \in OsdTimeouts, running' \in BOOLEAN,
           answer' \in [asked : Deed, did : Deed]
    PROVE  MenuInv'
BY DEF Drawing, MenuInv, Inv, TypeOK, OsdFollowsMenu, UsbLocksMenu, NoAccidentalYes,
       Visible, Locked, Deliberate

LEMMA HandleUiKeeps ==
    ASSUME MenuInv, NEW key \in Key, NEW expired \in BOOLEAN, HandleUi(key, expired)
    PROVE  MenuInv'
<1>1. Ready(Entered) /\ TypeOK
  BY EnteredReady DEF MenuInv, Inv, UsbLocksMenu, NoAccidentalYes, Locked, Deliberate, HandleUi
<1>2. PICK u \in Prelude(Entered, key, expired) : \E v \in Verified(u) :
      \E r \in Dispatch(v, key), again \in BOOLEAN :
         /\ ui' = Redraw(r.ui, again)
         /\ running' = ~r.reload
         /\ answer' = IF Confirms(v, key)
                      THEN [asked |-> v.asked, did |-> DoneFor(v.flags)] ELSE answer
  BY DEF HandleUi
<1>3. PICK v \in Verified(u) : \E r \in Dispatch(v, key), again \in BOOLEAN :
         /\ ui' = Redraw(r.ui, again)
         /\ running' = ~r.reload
         /\ answer' = IF Confirms(v, key)
                      THEN [asked |-> v.asked, did |-> DoneFor(v.flags)] ELSE answer
  BY <1>2
<1>4. PICK r \in Dispatch(v, key), again \in BOOLEAN :
         /\ ui' = Redraw(r.ui, again)
         /\ running' = ~r.reload
         /\ answer' = IF Confirms(v, key)
                      THEN [asked |-> v.asked, did |-> DoneFor(v.flags)] ELSE answer
  BY <1>3
<1>5. Ready(u)
  BY <1>1, PreludeReady
<1>6. Ready(v)
  BY <1>5, VerifiedReady
<1>7. Good(r.ui) /\ r.reload \in BOOLEAN
  BY <1>6, DispatchGood DEF AllGood
<1>8. Drawing(ui')
  BY <1>4, <1>7, RedrawDraws
<1>9. running' \in BOOLEAN
  BY <1>4
<1>10. answer' \in [asked : Deed, did : Deed]
  <2>1. v.asked \in Deed
    BY <1>6 DEF Ready, Good, Menu
  <2>2. DoneFor(v.flags) \in Deed
    BY DEF DoneFor, Deed
  <2> QED BY <1>1, <1>4, <2>1, <2>2 DEF TypeOK
<1>11. osd_timeout' \in OsdTimeouts
  BY <1>1 DEF HandleUi, TypeOK
<1> QED BY <1>8, <1>9, <1>10, <1>11, DrawingKeeps

LEMMA MenuStep == MenuInv /\ [Next]_vars => MenuInv'
<1> SUFFICES ASSUME MenuInv, [Next]_vars PROVE MenuInv'
  OBVIOUS
<1>1. /\ TypeOK /\ ui \in Menu /\ Locked(ui) /\ Deliberate(ui)
      /\ running => Drawing(ui)
  BY DEF MenuInv, Inv, TypeOK, OsdFollowsMenu, UsbLocksMenu, NoAccidentalYes,
         Drawing, Locked, Deliberate
<1>2. CASE Quiet
  <2>1. CASE HandleTimeout
    <3>1. Ready(Entered)
      BY <1>1, <2>1, EnteredReady DEF MenuInv, Inv, HandleTimeout
    <3>2. Good(Hide(Entered)) /\ Hide(Entered).state = "NO_MENU"
      BY <3>1, HideGood DEF Ready, Good
    <3>3. Drawing(ui')
      BY <2>1, <3>2 DEF HandleTimeout, Drawing, Good, Shown, Visible
    <3> QED BY <1>1, <2>1, <3>3, DrawingKeeps DEF HandleTimeout, TypeOK
  <2>2. CASE \E expired \in BOOLEAN : HandleUi("none", expired)
    BY <2>2, HandleUiKeeps DEF Key
  <2> QED BY <1>2, <2>1, <2>2 DEF Quiet
<1>3. CASE \E key \in Key \ {"none"} : HandleUi(key, FALSE)
  BY <1>3, HandleUiKeeps
<1>4. CASE Message
  <2>1. Drawing(ui')
    BY <1>1, <1>4 DEF Message, Drawing, Menu, Locked, Deliberate, Visible
  <2> QED BY <1>1, <1>4, <2>1, DrawingKeeps DEF Message, TypeOK
<1>5. CASE CardRemoved
  <2>1. Drawing(ui')
    BY <1>1, <1>5 DEF CardRemoved, SetState, Drawing, Menu, State, Locked, Deliberate, Visible
  <2> QED BY <1>1, <1>5, <2>1, DrawingKeeps DEF CardRemoved, TypeOK
<1>6. CASE CoreLost
  BY <1>6 DEF CoreLost, MenuInv, Inv, TypeOK, OsdFollowsMenu, UsbLocksMenu, NoAccidentalYes
<1>7. CASE InitCore
  <2> DEFINE u == [SetState(ui, "NO_MENU") EXCEPT !.item = "NULL", !.osd = FALSE]
             hidden == [u EXCEPT !.update = FALSE]
             status == [SetState(u, "SHOW_STATUS") EXCEPT !.update = TRUE, !.osd = TRUE]
  <2>1. u \in Menu /\ u.state = "NO_MENU" /\ ~u.osd
    BY <1>1 DEF SetState, Menu, State, Item
  <2>2. ui' \in {hidden, status}
    BY <1>7 DEF InitCore
  <2> HIDE DEF u
  <2>3. Drawing(status)
    BY <2>1 DEF SetState, Drawing, Menu, State, Locked, Deliberate, Visible
  <2>4. Drawing(hidden)
    BY <2>1 DEF Drawing, Menu, Locked, Deliberate, Visible
  <2>5. Drawing(ui')
    BY <2>2, <2>3, <2>4
  <2> QED BY <1>1, <1>7, <2>5, DrawingKeeps DEF InitCore, TypeOK
<1>8. CASE UNCHANGED vars
  BY <1>8 DEF vars, MenuInv, Inv, TypeOK, OsdFollowsMenu, UsbLocksMenu, NoAccidentalYes, Visible
<1> QED BY <1>2, <1>3, <1>4, <1>5, <1>6, <1>7, <1>8 DEF Next

\* Screen, tick counter and OSD agree after every call of MENU_handle_ui, message,
\* card change and reload, whatever the ini files set the timeout to.
THEOREM MenuCorrect == Spec => []Inv
<1>1. MenuInv => Inv
  BY DEF MenuInv
<1> QED BY MenuInit, MenuStep, <1>1, PTL DEF Spec

\* MENU_set_state: no screen that opens files while the card is lent to a USB host.
THEOREM UsbLocked == Spec => []UsbLocksMenu
<1>1. MenuInv => UsbLocksMenu
  BY DEF MenuInv
<1> QED BY MenuInit, MenuStep, <1>1, PTL DEF Spec

\* key_action_popup_enter: a yes is one the user moved to in that very popup.
THEOREM YesIsDeliberate == Spec => []NoAccidentalYes
<1>1. MenuInv => NoAccidentalYes
  BY DEF MenuInv
<1> QED BY MenuInit, MenuStep, <1>1, PTL DEF Spec

-----------------------------------------------------------------------------
(* The menus of config.c.  The list is followed by a walk, so that nothing   *)
(* can be said of the menus on it before the walk is known to end.           *)

\* A set of numbers that is not empty has a smallest one.
LEMMA SmallestFound ==
    ASSUME NEW T, T \subseteq Nat, T # {}
    PROVE  \E x \in T : \A y \in T : x <= y
<1>1. PICK x \in T : \A y \in T : ~(<<y, x>> \in OpToRel(<, Nat))
  BY NatLessThanWellFounded, WFMin
<1>2. ASSUME NEW y \in T PROVE x <= y
  <2>1. ~(y < x) BY <1>1 DEF OpToRel
  <2> QED BY <2>1
<1> QED BY <1>2

\* Turns, the most menus a walk can meet.
Turns == Cardinality(Node)

LEMMA NodesAre ==
    Turns \in Nat /\ IsFiniteSet(Node) /\ NULL \notin Node /\ TOP \notin Node /\ NULL # TOP
BY NodeAssumption, FS_CardinalityType DEF Turns

\* One step of a walk along nx.
Onward(nx, m) == IF m = NULL THEN NULL ELSE nx[m]

WalkExists(nx, fr, n) ==
    \E w : w = [k \in 0 .. n |-> IF k = 0 THEN fr ELSE Onward(nx, w[k - 1])]

\* By a smallest length that has none.
LEMMA WalkTo ==
    ASSUME NEW nx, NEW fr, NEW n \in Nat
    PROVE  WalkExists(nx, fr, n)
<1> DEFINE T == {m \in Nat : ~WalkExists(nx, fr, m)}
<1> SUFFICES ASSUME T # {} PROVE FALSE OBVIOUS
<1>1. PICK x \in T : \A y \in T : x <= y
  <2>1. T \subseteq Nat OBVIOUS
  <2> HIDE DEF T
  <2> QED BY <2>1, SmallestFound
<1>2. x \in Nat OBVIOUS
<1>3. x # 0
  <2> SUFFICES WalkExists(nx, fr, 0) OBVIOUS
  <2> DEFINE w == [k \in 0 .. 0 |-> fr]
  <2>1. w = [k \in 0 .. 0 |-> IF k = 0 THEN fr ELSE Onward(nx, w[k - 1])] OBVIOUS
  <2> QED BY <2>1 DEF WalkExists
<1>4. x - 1 \in Nat BY <1>2, <1>3
<1>5. WalkExists(nx, fr, x - 1)
  <2>1. x - 1 \notin T
    <3> HIDE DEF T
    <3>1. ~(x <= x - 1) BY <1>2, <1>3
    <3> QED BY <1>1, <3>1
  <2> QED BY <2>1, <1>4 DEF T
<1>6. PICK w : w = [k \in 0 .. x - 1 |-> IF k = 0 THEN fr ELSE Onward(nx, w[k - 1])] BY <1>5 DEF WalkExists
<1> DEFINE v == [k \in 0 .. x |-> IF k = x THEN Onward(nx, w[x - 1]) ELSE w[k]]
<1>7. \A k \in 0 .. x - 1 : w[k] = IF k = 0 THEN fr ELSE Onward(nx, w[k - 1]) BY <1>6
<1>8. ASSUME NEW k \in 0 .. x PROVE v[k] = IF k = 0 THEN fr ELSE Onward(nx, v[k - 1])
  <2>1. CASE k = x
    <3>1. v[k] = Onward(nx, w[x - 1]) BY <2>1
    <3>2. k - 1 \in 0 .. x /\ k - 1 # x BY <2>1, <1>2, <1>3
    <3>3. v[k - 1] = w[k - 1] BY <3>2
    <3> QED BY <3>1, <3>3, <2>1, <1>3
  <2>2. CASE k # x
    <3>1. k \in 0 .. x - 1 BY <2>2, <1>2
    <3>2. v[k] = w[k] BY <2>2
    <3>3. CASE k = 0 BY <3>1, <3>2, <3>3, <1>7
    <3>4. CASE k # 0
      <4>1. k - 1 \in 0 .. x /\ k - 1 # x BY <3>1, <3>4, <1>2
      <4>2. v[k - 1] = w[k - 1] BY <4>1
      <4>3. w[k] = Onward(nx, w[k - 1]) BY <3>1, <3>4, <1>7
      <4> QED BY <3>2, <3>4, <4>2, <4>3
    <3> QED BY <3>3, <3>4
  <2> QED BY <2>1, <2>2
<1>9. v = [k \in 0 .. x |-> v[k]] OBVIOUS
<1>10. v = [k \in 0 .. x |-> IF k = 0 THEN fr ELSE Onward(nx, v[k - 1])]
  <2> HIDE DEF v
  <2> QED BY <1>8, <1>9
<1>11. WalkExists(nx, fr, x)
  <2> HIDE DEF v
  <2> QED BY <1>10 DEF WalkExists
<1> QED BY <1>11

LEMMA WalkSteps ==
    ASSUME NEW nx, NEW fr
    PROVE  /\ Walk(nx, fr)[0] = fr
           /\ \A k \in 1 .. Turns : Walk(nx, fr)[k] = Onward(nx, Walk(nx, fr)[k - 1])
<1> DEFINE W == Walk(nx, fr)
<1>1. W = [k \in 0 .. Turns |-> IF k = 0 THEN fr ELSE Onward(nx, W[k - 1])]
  <2>1. WalkExists(nx, fr, Turns) BY NodesAre, WalkTo
  <2> QED BY <2>1 DEF Walk, WalkExists, Onward, Turns
<1> HIDE DEF W
<1>2. 0 \in 0 .. Turns BY NodesAre
<1>3. W[0] = fr BY <1>1, <1>2
<1>4. \A k \in 1 .. Turns : k \in 0 .. Turns /\ k # 0 BY NodesAre
<1>5. \A k \in 1 .. Turns : W[k] = Onward(nx, W[k - 1]) BY <1>1, <1>4
<1> QED BY <1>3, <1>5 DEF W

-----------------------------------------------------------------------------
(* The list as a sequence.                                                  *)

\* s lists N menus in the order of the list nx, la.
Chain(N, s, nx, la) ==
    /\ N \in Nat /\ s \in [1 .. N -> Node]
    /\ \A i, j \in 1 .. N : s[i] = s[j] => i = j
    /\ nx[TOP] = IF N = 0 THEN NULL ELSE s[1]
    /\ \A i \in 1 .. N : nx[s[i]] = IF i = N THEN NULL ELSE s[i + 1]
    /\ \A i \in 1 .. N : la[s[i]] = IF i = 1 THEN NULL ELSE s[i - 1]

\* The node at place i, where 0 is the pseudo-node.
At(N, s, i) == IF i = 0 THEN TOP ELSE IF i <= N THEN s[i] ELSE NULL

\* There are only so many objects.
LEMMA ChainShort ==
    ASSUME NEW N, NEW s, NEW nx, NEW la, Chain(N, s, nx, la)
    PROVE  N <= Turns
<1>1. s \in Injection(1 .. N, Node) BY DEF Chain, Injection, IsInjective
<1>2. Cardinality(1 .. N) <= Cardinality(Node)
  BY <1>1, NodesAre, FS_Injection
<1>3. Cardinality(1 .. N) = N BY FS_Interval DEF Chain
<1> QED BY <1>2, <1>3 DEF Turns

LEMMA ChainNext ==
    ASSUME NEW N, NEW s, NEW nx, NEW la, Chain(N, s, nx, la), NEW i \in Nat
    PROVE  Onward(nx, At(N, s, i)) = At(N, s, i + 1)
<1>1. CASE i = 0 BY <1>1, NodesAre DEF Chain, Onward, At
<1>2. CASE i \in 1 .. N
  <2>1. s[i] # NULL BY <1>2, NodesAre DEF Chain
  <2>2. At(N, s, i) = s[i] BY <1>2 DEF At
  <2>3. nx[s[i]] = IF i = N THEN NULL ELSE s[i + 1] BY <1>2 DEF Chain
  <2>4. N \in Nat BY DEF Chain
  <2> QED BY <1>2, <2>1, <2>2, <2>3, <2>4 DEF Onward, At
<1>3. CASE i > N
  <2>1. N \in Nat BY DEF Chain
  <2> QED BY <1>3, <2>1 DEF Onward, At
<1>4. N \in Nat BY DEF Chain
<1> QED BY <1>1, <1>2, <1>3, <1>4

\* A walk from any place of the list goes on to its end.
LEMMA WalkChain ==
    ASSUME NEW N, NEW s, NEW nx, NEW la, Chain(N, s, nx, la),
           NEW i \in 0 .. N, NEW k \in 0 .. Turns
    PROVE  Walk(nx, At(N, s, i))[k] = At(N, s, i + k)
<1> DEFINE W == Walk(nx, At(N, s, i))
<1> DEFINE T == {m \in 0 .. Turns : W[m] # At(N, s, i + m)}
<1> SUFFICES ASSUME T # {} PROVE FALSE OBVIOUS
<1>0. N \in Nat /\ Turns \in Nat BY NodesAre DEF Chain
<1>1. PICK x \in T : \A y \in T : x <= y
  <2>1. T \subseteq Nat BY <1>0
  <2> HIDE DEF T
  <2> QED BY <2>1, SmallestFound
<1>2. x \in 0 .. Turns OBVIOUS
<1>3. W[0] = At(N, s, i) BY WalkSteps
<1>4. x # 0
  <2>1. i + 0 = i BY <1>0
  <2> QED BY <1>3, <2>1
<1>5. x - 1 \in 0 .. Turns /\ x \in 1 .. Turns BY <1>2, <1>4, <1>0
<1>6. W[x - 1] = At(N, s, i + (x - 1))
  <2>1. x - 1 \notin T
    <3> HIDE DEF T
    <3>1. ~(x <= x - 1) BY <1>2, <1>0
    <3> QED BY <1>1, <3>1
  <2> QED BY <2>1, <1>5 DEF T
<1>7. W[x] = Onward(nx, W[x - 1]) BY <1>5, WalkSteps
<1>8. i + (x - 1) \in Nat /\ i + (x - 1) + 1 = i + x BY <1>5, <1>0
<1>9. Onward(nx, At(N, s, i + (x - 1))) = At(N, s, i + x) BY <1>8, ChainNext
<1> QED BY <1>6, <1>7, <1>9

LEMMA ListedIs ==
    ASSUME NEW N, NEW s, NEW nx, NEW la, Chain(N, s, nx, la)
    PROVE  Listed(nx) = {s[i] : i \in 1 .. N}
<1>0. N \in Nat /\ Turns \in Nat /\ N <= Turns
  <2>1. N \in Nat BY DEF Chain
  <2> QED BY <2>1, NodesAre, ChainShort
<1>1. ASSUME NEW k \in 1 .. Turns
      PROVE  Walk(nx, TOP)[k] = IF k <= N THEN s[k] ELSE NULL
  <2>1. TOP = At(N, s, 0) BY DEF At
  <2>2. 0 \in 0 .. N /\ k \in 0 .. Turns /\ 0 + k = k /\ k # 0 BY <1>0
  <2>3. Walk(nx, At(N, s, 0))[k] = At(N, s, 0 + k) BY <2>2, WalkChain
  <2> QED BY <2>1, <2>2, <2>3 DEF At
<1>2. ASSUME NEW k \in 1 .. N PROVE s[k] # NULL BY NodesAre DEF Chain
<1>3. ASSUME NEW k \in 1 .. N PROVE s[k] \in Listed(nx)
  <2>1. k \in 1 .. Turns /\ k <= N BY <1>0
  <2> QED BY <1>1, <1>2, <2>1 DEF Listed, Turns
<1>4. ASSUME NEW m \in Listed(nx) PROVE \E k \in 1 .. N : m = s[k]
  <2>1. PICK k \in 1 .. Turns : m = Walk(nx, TOP)[k] /\ m # NULL BY DEF Listed, Turns
  <2>2. k <= N BY <2>1, <1>1
  <2>3. k \in 1 .. N BY <2>2, <1>0
  <2> QED BY <2>1, <2>2, <2>3, <1>1
<1> QED BY <1>3, <1>4

LEMMA LastTitledIs ==
    ASSUME NEW N, NEW s, NEW nx, NEW la, Chain(N, s, nx, la), NEW ti, NEW t, NEW i \in 1 .. N
    PROVE  LastTitled(nx, ti, s[i], t) <=>
               ti[s[i]] = t /\ \A j \in i + 1 .. N : ti[s[j]] # t
<1>0. N \in Nat /\ Turns \in Nat /\ N <= Turns
  <2>1. N \in Nat BY DEF Chain
  <2> QED BY <2>1, NodesAre, ChainShort
<1>1. s[i] \in Listed(nx) BY ListedIs
<1>2. ASSUME NEW k \in 1 .. Turns
      PROVE  Walk(nx, s[i])[k] = IF i + k <= N THEN s[i + k] ELSE NULL
  <2>1. s[i] = At(N, s, i) BY <1>0 DEF At
  <2>2. i \in 0 .. N /\ k \in 0 .. Turns /\ i + k # 0 BY <1>0
  <2>3. Walk(nx, At(N, s, i))[k] = At(N, s, i + k) BY <2>2, WalkChain
  <2> QED BY <2>1, <2>2, <2>3 DEF At
<1>3. ASSUME NEW k \in 1 .. N PROVE s[k] # NULL BY NodesAre DEF Chain
<1> DEFINE Ahead == \A k \in 1 .. Turns :
                        Walk(nx, s[i])[k] # NULL => ti[Walk(nx, s[i])[k]] # t
<1>4. ASSUME Ahead, NEW j \in i + 1 .. N PROVE ti[s[j]] # t
  <2>1. j - i \in 1 .. Turns /\ i + (j - i) = j /\ j <= N /\ j \in 1 .. N BY <1>0
  <2>2. Walk(nx, s[i])[j - i] = s[j] BY <1>2, <2>1
  <2> QED BY <2>1, <2>2, <1>3, <1>4
<1>5. ASSUME \A j \in i + 1 .. N : ti[s[j]] # t PROVE Ahead
  <2> SUFFICES ASSUME NEW k \in 1 .. Turns, Walk(nx, s[i])[k] # NULL
               PROVE  ti[Walk(nx, s[i])[k]] # t
    OBVIOUS
  <2>1. i + k <= N /\ Walk(nx, s[i])[k] = s[i + k] BY <1>2
  <2>2. i + k \in i + 1 .. N BY <2>1, <1>0
  <2> QED BY <2>1, <2>2, <1>5
<1>6. LastTitled(nx, ti, s[i], t) <=> ti[s[i]] = t /\ Ahead BY <1>1 DEF LastTitled, Turns
<1> HIDE DEF Ahead
<1> QED BY <1>4, <1>5, <1>6

LEMMA LinkIs ==
    ASSUME NEW N, NEW s, NEW nx, NEW la, Chain(N, s, nx, la), NEW i \in 1 .. N
    PROVE  Link(nx, s[i]) = IF i = 1 THEN TOP ELSE s[i - 1]
<1> DEFINE p == IF i = 1 THEN TOP ELSE s[i - 1]
<1>0. N \in Nat BY DEF Chain
<1>1. p \in Listed(nx) \cup {TOP} /\ nx[p] = s[i]
  <2>1. CASE i = 1 BY <2>1, <1>0 DEF Chain
  <2>2. CASE i # 1
    <3>1. i - 1 \in 1 .. N /\ i - 1 # N /\ (i - 1) + 1 = i BY <2>2, <1>0
    <3>2. nx[s[i - 1]] = s[i] BY <3>1 DEF Chain
    <3> QED BY <2>2, <3>1, <3>2, ListedIs
  <2> QED BY <2>1, <2>2
<1>2. ASSUME NEW m \in Listed(nx) \cup {TOP}, nx[m] = s[i] PROVE m = p
  <2>1. CASE m = TOP
    <3>1. s[1] = s[i] BY <2>1, <1>2, <1>0 DEF Chain
    <3>2. i = 1 BY <3>1, <1>0 DEF Chain
    <3> QED BY <3>2, <2>1
  <2>2. CASE m # TOP
    <3>1. PICK j \in 1 .. N : m = s[j] BY <2>2, ListedIs
    <3>2. s[i] # NULL BY NodesAre DEF Chain
    <3>3. j # N /\ s[j + 1] = s[i] BY <3>1, <3>2, <1>2 DEF Chain
    <3>4. j + 1 \in 1 .. N BY <3>3, <1>0
    <3>5. j + 1 = i BY <3>3, <3>4 DEF Chain
    <3>6. j = i - 1 /\ i # 1 BY <3>5, <1>0
    <3> QED BY <3>1, <3>6
  <2> QED BY <2>1, <2>2
<1> HIDE DEF p
<1>3. Link(nx, s[i]) = p BY <1>1, <1>2 DEF Link
<1> QED BY <1>3 DEF p

-----------------------------------------------------------------------------
(* Changes of the list.                                                     *)

\* A menu n that is not on the list is linked behind its end.
LEMMA AppendChain ==
    ASSUME NEW N, NEW s, NEW nx \in [Node \cup {TOP} -> Node \cup {NULL}],
           NEW la \in [Node -> Node \cup {NULL}], Chain(N, s, nx, la),
           NEW n \in Node, \A i \in 1 .. N : s[i] # n,
           NEW act, act = IF N = 0 THEN NULL ELSE s[N]
    PROVE  Chain(N + 1, [i \in 1 .. N + 1 |-> IF i <= N THEN s[i] ELSE n],
                 IF nx[TOP] = NULL THEN [nx EXCEPT ![n] = NULL, ![TOP] = n]
                 ELSE [nx EXCEPT ![n] = NULL, ![act] = n],
                 [la EXCEPT ![n] = IF nx[TOP] = NULL THEN NULL ELSE act])
<1> DEFINE s2 == [i \in 1 .. N + 1 |-> IF i <= N THEN s[i] ELSE n]
           n2 == IF nx[TOP] = NULL THEN [nx EXCEPT ![n] = NULL, ![TOP] = n]
                 ELSE [nx EXCEPT ![n] = NULL, ![act] = n]
           l2 == [la EXCEPT ![n] = IF nx[TOP] = NULL THEN NULL ELSE act]
<1>0. N \in Nat /\ s \in [1 .. N -> Node] BY DEF Chain
<1>1. nx[TOP] = NULL <=> N = 0
  <2>1. CASE N = 0 BY <2>1 DEF Chain
  <2>2. CASE N # 0
    <3>1. 1 \in 1 .. N BY <2>2, <1>0
    <3>2. s[1] # NULL BY <3>1, <1>0, NodesAre
    <3> QED BY <2>2, <3>2 DEF Chain
  <2> QED BY <2>1, <2>2
<1>2. s2 \in [1 .. N + 1 -> Node] /\ s2[N + 1] = n /\ \A i \in 1 .. N : s2[i] = s[i]
  BY <1>0
<1>3. \A i, j \in 1 .. N + 1 : s2[i] = s2[j] => i = j
  <2> SUFFICES ASSUME NEW i \in 1 .. N + 1, NEW j \in 1 .. N + 1, s2[i] = s2[j] PROVE i = j
    OBVIOUS
  <2>1. \A k \in 1 .. N + 1 : k = N + 1 \/ k \in 1 .. N BY <1>0
  <2> HIDE DEF s2
  <2> QED BY <1>2, <2>1 DEF Chain
<1>4. TOP # n /\ n # NULL BY NodesAre
<1>5. ASSUME N = 0 PROVE Chain(N + 1, s2, n2, l2)
  <2>1. n2[TOP] = n /\ n2[n] = NULL BY <1>1, <1>4, <1>5
  <2>2. l2[n] = NULL BY <1>1, <1>5
  <2>3. N + 1 = 1 /\ 1 .. 1 = {1} BY <1>5
  <2> HIDE DEF s2, n2, l2
  <2> QED BY <2>1, <2>2, <2>3, <1>2, <1>3 DEF Chain
<1>6. ASSUME N # 0 PROVE Chain(N + 1, s2, n2, l2)
  <2>1. N \in 1 .. N /\ act = s[N] /\ act \in Node /\ act # n BY <1>0, <1>6
  <2>2. n2[n] = NULL /\ n2[act] = n /\ \A m \in Node \cup {TOP} : m # n /\ m # act => n2[m] = nx[m]
    BY <1>1, <1>4, <1>6, <2>1
  <2>3. l2[n] = act /\ \A m \in Node : m # n => l2[m] = la[m] BY <1>1, <1>6
  <2>4. n2[TOP] = s2[1]
    <3>1. TOP # act /\ TOP # n BY <2>1, NodesAre
    <3>2. nx[TOP] = s[1] BY <1>6 DEF Chain
    <3>3. 1 \in 1 .. N BY <1>0, <1>6
    <3> HIDE DEF s2, n2, l2
    <3> QED BY <3>1, <3>2, <3>3, <2>2, <1>2
  <2>5. ASSUME NEW i \in 1 .. N + 1
        PROVE  n2[s2[i]] = IF i = N + 1 THEN NULL ELSE s2[i + 1]
    <3> HIDE DEF s2, n2, l2
    <3>1. CASE i = N + 1 BY <3>1, <1>2, <2>2
    <3>2. CASE i = N BY <3>2, <1>0, <1>2, <2>1, <2>2
    <3>3. CASE i \in 1 .. N - 1
      <4>1. i \in 1 .. N /\ i # N /\ i + 1 \in 1 .. N /\ i # N + 1 BY <3>3, <1>0
      <4>2. s[i] # act /\ s[i] # n /\ s[i] \in Node BY <4>1, <2>1, <1>0 DEF Chain
      <4>3. nx[s[i]] = s[i + 1] BY <4>1 DEF Chain
      <4> QED BY <4>1, <4>2, <4>3, <1>2, <2>2
    <3> QED BY <3>1, <3>2, <3>3, <1>0
  <2>6. ASSUME NEW i \in 1 .. N + 1
        PROVE  l2[s2[i]] = IF i = 1 THEN NULL ELSE s2[i - 1]
    <3> HIDE DEF s2, n2, l2
    <3>1. CASE i = N + 1
      <4>1. i - 1 = N /\ i # 1 BY <3>1, <1>0, <1>6
      <4> QED BY <3>1, <4>1, <1>2, <2>1, <2>3
    <3>2. CASE i \in 1 .. N
      <4>1. s[i] # n /\ s[i] \in Node BY <3>2, <1>0
      <4>2. la[s[i]] = IF i = 1 THEN NULL ELSE s[i - 1] BY <3>2 DEF Chain
      <4>3. i # 1 => i - 1 \in 1 .. N BY <3>2, <1>0
      <4> QED BY <3>2, <4>1, <4>2, <4>3, <1>2, <2>3
    <3> QED BY <3>1, <3>2, <1>0
  <2>7. N + 1 \in Nat /\ N + 1 # 0 BY <1>0
  <2> HIDE DEF s2, n2, l2
  <2> QED BY <1>2, <1>3, <2>4, <2>5, <2>6, <2>7 DEF Chain
<1> HIDE DEF s2, n2, l2
<1>7. Chain(N + 1, s2, n2, l2) BY <1>5, <1>6
<1> QED BY <1>7 DEF s2, n2, l2

\* The two fields that Move leaves behind, of r with link rp and w with link wp.
MovedNext(rp, wp, r, nx) ==
    LET n1 == [nx EXCEPT ![rp] = nx[r]]
        n2 == [n1 EXCEPT ![r] = n1[wp]]
    IN [n2 EXCEPT ![wp] = r]

MovedLast(rp, wp, r, nx, la) ==
    LET n3 == MovedNext(rp, wp, r, nx)
        l1 == [la EXCEPT ![nx[r]] = la[r]]
        l2 == [l1 EXCEPT ![r] = l1[n3[r]]]
    IN [l2 EXCEPT ![n3[r]] = r]

LEMMA MoveIs ==
    ASSUME NEW r, NEW w, NEW nx, NEW la, Move(r, w, nx, la)
    PROVE  /\ next' = MovedNext(Link(nx, r), Link(nx, w), r, nx)
           /\ last' = MovedLast(Link(nx, r), Link(nx, w), r, nx, la)
BY DEF Move, MovedNext, MovedLast

\* The menus in their new order: the one at k right before the last one.
Moved(N, s, k) ==
    [i \in 1 .. N |-> IF i < k THEN s[i] ELSE IF i < N - 1 THEN s[i + 1]
                      ELSE IF i = N - 1 THEN s[k] ELSE s[N]]

LEMMA MovedChain ==
    ASSUME NEW N, NEW s, NEW nx \in [Node \cup {TOP} -> Node \cup {NULL}],
           NEW la \in [Node -> Node \cup {NULL}], Chain(N, s, nx, la),
           NEW k \in 1 .. N, k + 1 < N
    PROVE  LET rp == Link(nx, s[k])
               wp == Link(nx, s[N])
           IN /\ Chain(N, Moved(N, s, k), MovedNext(rp, wp, s[k], nx),
                       MovedLast(rp, wp, s[k], nx, la))
              /\ MovedNext(rp, wp, s[k], nx) \in [Node \cup {TOP} -> Node \cup {NULL}]
              /\ MovedLast(rp, wp, s[k], nx, la) \in [Node -> Node \cup {NULL}]
<1> DEFINE r == s[k]
           rp == IF k = 1 THEN TOP ELSE s[k - 1]
           wp == s[N - 1]
           n3 == MovedNext(rp, wp, r, nx)
           l3 == MovedLast(rp, wp, r, nx, la)
           s2 == Moved(N, s, k)
<1>0. N \in Nat /\ s \in [1 .. N -> Node] /\ N \in 1 .. N /\ N - 1 \in 1 .. N /\ k + 1 \in 1 .. N
      /\ k # N /\ k # N - 1 /\ N # 1 /\ N - 1 # 0
  BY DEF Chain
<1>1. Link(nx, s[k]) = rp /\ Link(nx, s[N]) = wp
  <2>1. \A i \in 1 .. N : Link(nx, s[i]) = IF i = 1 THEN TOP ELSE s[i - 1] BY LinkIs
  <2> QED BY <2>1, <1>0
<1>2. \A i \in 1 .. N : s[i] \in Node /\ s[i] # NULL /\ s[i] # TOP BY <1>0, NodesAre
<1>3. \A i, j \in 1 .. N : s[i] = s[j] => i = j BY DEF Chain
<1>4. rp \in Node \cup {TOP} /\ rp # r /\ rp # wp /\ r # wp
  <2>1. CASE k = 1 BY <2>1, <1>0, <1>2, <1>3
  <2>2. CASE k # 1
    <3>1. k - 1 \in 1 .. N /\ k - 1 # k /\ k - 1 # N - 1 BY <2>2, <1>0
    <3> QED BY <2>2, <3>1, <1>0, <1>2, <1>3
  <2> QED BY <2>1, <2>2
<1>5. nx[r] = s[k + 1] /\ nx[wp] = s[N]
  <2>1. (N - 1) + 1 = N /\ N - 1 # N BY <1>0
  <2> QED BY <2>1, <1>0 DEF Chain
<1>6. /\ n3[rp] = s[k + 1] /\ n3[r] = s[N] /\ n3[wp] = r
      /\ \A m \in Node \cup {TOP} : m # rp /\ m # r /\ m # wp => n3[m] = nx[m]
  <2>1. r \in Node /\ wp \in Node BY <1>0, <1>2
  <2> HIDE DEF r, rp, wp
  <2> QED BY <1>4, <1>5, <2>1 DEF MovedNext
<1>7. la[r] = (IF k = 1 THEN NULL ELSE s[k - 1]) /\ la[s[N]] = wp BY <1>0 DEF Chain
<1>8. /\ l3[s[k + 1]] = la[r] /\ l3[r] = wp /\ l3[s[N]] = r
      /\ \A m \in Node : m # s[k + 1] /\ m # r /\ m # s[N] => l3[m] = la[m]
  <2>1. r \in Node /\ s[k + 1] \in Node /\ s[N] \in Node BY <1>0, <1>2
  <2>2. s[k + 1] # r /\ s[N] # r /\ s[k + 1] # s[N] BY <1>0, <1>3
  <2>3. n3[r] = s[N] /\ nx[r] = s[k + 1] /\ la[s[N]] = wp BY <1>5, <1>6, <1>7
  <2>4. MovedNext(rp, wp, r, nx)[r] = s[N] BY <2>3
  <2> HIDE DEF r, rp, wp
  <2> QED BY <2>1, <2>2, <2>3, <2>4 DEF MovedLast
<1>16. n3 \in [Node \cup {TOP} -> Node \cup {NULL}]
  <2>1. r \in Node /\ wp \in Node BY <1>0, <1>2
  <2> HIDE DEF r, rp, wp
  <2> QED BY <1>4, <2>1 DEF MovedNext
<1>17. l3 \in [Node -> Node \cup {NULL}]
  <2>1. r \in Node /\ s[k + 1] \in Node /\ s[N] \in Node BY <1>0, <1>2
  <2>2. n3[r] = s[N] /\ nx[r] = s[k + 1] BY <1>5, <1>6
  <2>3. MovedNext(rp, wp, r, nx)[r] = s[N] BY <2>2
  <2> HIDE DEF r, rp, wp
  <2> QED BY <2>1, <2>2, <2>3 DEF MovedLast
<1> HIDE DEF n3, l3
<1>9. /\ s2 \in [1 .. N -> Node]
      /\ \A i \in 1 .. N : i < k => s2[i] = s[i]
      /\ \A i \in 1 .. N : i >= k /\ i < N - 1 => s2[i] = s[i + 1] /\ i + 1 \in 1 .. N
      /\ s2[N - 1] = r /\ s2[N] = s[N]
  <2>1. \A i \in 1 .. N : i >= k /\ i < N - 1 => i + 1 \in 1 .. N BY <1>0
  <2>2. s2 \in [1 .. N -> Node] BY <1>0, <2>1 DEF Moved
  <2>3. \A i \in 1 .. N : i < k => s2[i] = s[i] BY <1>0 DEF Moved
  <2>4. \A i \in 1 .. N : i >= k /\ i < N - 1 => s2[i] = s[i + 1] BY <1>0 DEF Moved
  <2>5. s2[N - 1] = r /\ s2[N] = s[N] BY <1>0 DEF Moved
  <2> QED BY <2>1, <2>2, <2>3, <2>4, <2>5
<1> HIDE DEF s2
<1>10. \A i \in 1 .. N : i < k \/ (i >= k /\ i < N - 1) \/ i = N - 1 \/ i = N BY <1>0
<1>11. \A i, j \in 1 .. N : s2[i] = s2[j] => i = j
  <2> SUFFICES ASSUME NEW i \in 1 .. N, NEW j \in 1 .. N, s2[i] = s2[j] PROVE i = j
    OBVIOUS
  <2> DEFINE Old(x) == IF x < k THEN x ELSE IF x < N - 1 THEN x + 1 ELSE IF x = N - 1 THEN k ELSE N
  <2>1. ASSUME NEW x \in 1 .. N PROVE s2[x] = s[Old(x)] /\ Old(x) \in 1 .. N
    <3>1. CASE x < k BY <3>1, <1>9
    <3>2. CASE x >= k /\ x < N - 1 BY <3>2, <1>9, <1>0
    <3>3. CASE x = N - 1 BY <3>3, <1>9, <1>0
    <3>4. CASE x = N BY <3>4, <1>9, <1>0
    <3> QED BY <3>1, <3>2, <3>3, <3>4, <1>10
  <2>2. \A x, y \in 1 .. N : Old(x) = Old(y) => x = y BY <1>0
  <2> HIDE DEF Old
  <2> QED BY <2>1, <2>2, <1>3
<1>12. n3[TOP] = s2[1]
  <2>1. 1 \in 1 .. N BY <1>0
  <2>2. CASE k = 1
    <3>1. s2[1] = s[2] BY <2>1, <2>2, <1>0, <1>9
    <3> QED BY <2>2, <3>1, <1>6
  <2>3. CASE k # 1
    <3>1. s2[1] = s[1] BY <2>1, <2>3, <1>9
    <3>2. TOP # rp /\ TOP # r /\ TOP # wp
      <4>1. k - 1 \in 1 .. N BY <2>3, <1>0
      <4> QED BY <2>3, <4>1, <1>0, <1>2
    <3>3. n3[TOP] = nx[TOP] BY <3>2, <1>6
    <3> QED BY <3>1, <3>3, <1>0 DEF Chain
  <2> QED BY <2>2, <2>3
<1>13. ASSUME NEW i \in 1 .. N PROVE n3[s2[i]] = IF i = N THEN NULL ELSE s2[i + 1]
  <2>1. \A j \in 1 .. N : nx[s[j]] = IF j = N THEN NULL ELSE s[j + 1] BY DEF Chain
  <2>2. \A j \in 1 .. N : j # k - 1 /\ j # k /\ j # N - 1 => n3[s[j]] = nx[s[j]]
    <3> SUFFICES ASSUME NEW j \in 1 .. N, j # k - 1, j # k, j # N - 1 PROVE n3[s[j]] = nx[s[j]]
      OBVIOUS
    <3>1. s[j] # r /\ s[j] # wp BY <1>0, <1>3
    <3>2. s[j] # rp
      <4>1. CASE k = 1 BY <4>1, <1>2
      <4>2. CASE k # 1
        <5>1. k - 1 \in 1 .. N BY <4>2, <1>0
        <5> QED BY <5>1, <4>2, <1>3
      <4> QED BY <4>1, <4>2
    <3> HIDE DEF r, rp, wp
    <3> QED BY <3>1, <3>2, <1>2, <1>6
  <2>3. CASE i < k /\ i # k - 1
    <3>1. i + 1 \in 1 .. N /\ i + 1 < k /\ i # N /\ i # N - 1 /\ i # k BY <2>3, <1>0
    <3> QED BY <2>3, <3>1, <2>1, <2>2, <1>9
  <2>4. CASE i = k - 1
    <3>1. k # 1 /\ i < k /\ i + 1 = k /\ k < N - 1 /\ i # N BY <2>4, <1>0
    <3>2. s2[i] = rp BY <3>1, <1>9, <2>4
    <3>3. s2[k] = s[k + 1] BY <3>1, <1>9
    <3> QED BY <3>1, <3>2, <3>3, <1>6
  <2>5. CASE i >= k /\ i < N - 2
    <3>1. /\ i + 1 \in 1 .. N /\ i + 1 # k - 1 /\ i + 1 # k /\ i + 1 # N - 1 /\ i + 1 # N /\ i # N
          /\ i < N - 1 /\ i + 1 >= k /\ i + 1 < N - 1
      BY <2>5, <1>0
    <3>2. s2[i] = s[i + 1] /\ s2[i + 1] = s[(i + 1) + 1] BY <2>5, <3>1, <1>9
    <3> QED BY <3>1, <3>2, <2>1, <2>2
  <2>6. CASE i = N - 2
    <3>1. i >= k /\ i < N - 1 /\ i + 1 = N - 1 /\ i # N BY <2>6, <1>0
    <3>2. s2[i] = wp BY <3>1, <1>9
    <3> QED BY <3>1, <3>2, <1>6, <1>9
  <2>7. CASE i = N - 1
    <3>1. i + 1 = N /\ i # N BY <2>7, <1>0
    <3> QED BY <2>7, <3>1, <1>6, <1>9
  <2>8. CASE i = N
    <3>1. N # k - 1 /\ N # k /\ N # N - 1 BY <1>0
    <3> QED BY <2>8, <3>1, <2>1, <2>2, <1>0, <1>9
  <2> QED BY <2>3, <2>4, <2>5, <2>6, <2>7, <2>8, <1>0
<1>14. ASSUME NEW i \in 1 .. N PROVE l3[s2[i]] = IF i = 1 THEN NULL ELSE s2[i - 1]
  <2>1. \A j \in 1 .. N : la[s[j]] = IF j = 1 THEN NULL ELSE s[j - 1] BY DEF Chain
  <2>2. \A j \in 1 .. N : j # k + 1 /\ j # k /\ j # N => l3[s[j]] = la[s[j]]
    <3> SUFFICES ASSUME NEW j \in 1 .. N, j # k + 1, j # k, j # N PROVE l3[s[j]] = la[s[j]]
      OBVIOUS
    <3>1. s[j] # r /\ s[j] # s[k + 1] /\ s[j] # s[N] BY <1>0, <1>3
    <3> HIDE DEF r, rp, wp
    <3> QED BY <3>1, <1>2, <1>8
  <2>3. CASE i < k
    <3>1. i # k + 1 /\ i # k /\ i # N /\ (i # 1 => i - 1 \in 1 .. N /\ i - 1 < k) BY <2>3, <1>0
    <3> QED BY <2>3, <3>1, <2>1, <2>2, <1>9
  <2>4. CASE i = k
    <3>1. i >= k /\ i < N - 1 /\ (k # 1 => i - 1 \in 1 .. N /\ i - 1 < k) BY <2>4, <1>0
    <3>2. s2[i] = s[k + 1] BY <3>1, <2>4, <1>9
    <3> QED BY <2>4, <3>1, <3>2, <1>7, <1>8, <1>9
  <2>5. CASE i > k /\ i < N - 1
    <3>1. /\ i + 1 \in 1 .. N /\ i + 1 # k + 1 /\ i + 1 # k /\ i + 1 # N /\ i # 1 /\ i + 1 # 1
          /\ (i + 1) - 1 = i /\ i - 1 \in 1 .. N /\ i - 1 >= k /\ i - 1 < N - 1 /\ (i - 1) + 1 = i
      BY <2>5, <1>0
    <3>2. s2[i] = s[i + 1] /\ s2[i - 1] = s[i] BY <2>5, <3>1, <1>9
    <3> QED BY <3>1, <3>2, <2>1, <2>2
  <2>6. CASE i = N - 1
    <3>1. i # 1 /\ i - 1 \in 1 .. N /\ i - 1 >= k /\ i - 1 < N - 1 /\ (i - 1) + 1 = i BY <2>6, <1>0
    <3>2. s2[i - 1] = wp BY <3>1, <2>6, <1>9
    <3> QED BY <2>6, <3>1, <3>2, <1>8, <1>9
  <2>7. CASE i = N
    <3> QED BY <2>7, <1>0, <1>8, <1>9
  <2> QED BY <2>3, <2>4, <2>5, <2>6, <2>7, <1>0
<1>15. Chain(N, s2, n3, l3)
  <2> HIDE DEF r, rp, wp
  <2> QED BY <1>0, <1>9, <1>11, <1>12, <1>13, <1>14 DEF Chain
<1> QED BY <1>1, <1>15, <1>16, <1>17 DEF s2, n3, l3

-----------------------------------------------------------------------------
(* The invariant.                                                           *)

\* The objects with a menu are those that s lists.
OnList(N, s, h) == \A n \in Node : h[n] = "menu" <=> \E i \in 1 .. N : n = s[i]

\* The ROMs menu is where CFG_add_default moves it.
RomsMoved(N, s, ti) ==
    (\E i \in 1 .. N : ti[s[i]] = "ROMs") =>
        N >= 2 /\ ti[s[N]] = "Replay Menu" /\ ti[s[N - 1]] = "ROMs"

\* Where the active menu is, and what is known of the titles, while main() is
\* at p.
Phase(N, s, p, act, ti, emb) ==
    /\ p \in {"ini", "default"} => act = IF N = 0 THEN NULL ELSE s[N]
    /\ p \in {"assert", "load"} => N = 0 /\ act = NULL
    /\ p = "use" => act = NULL \/ \E i \in 1 .. N : act = s[i]
    /\ p = "default" => ~emb /\ (N > 0 => ti[s[N]] # "ROMs")
    /\ p = "use" /\ ~emb => RomsMoved(N, s, ti)

MenusInv ==
    /\ CfgTypeOK
    /\ \E N, s :
          /\ Chain(N, s, next, last) /\ OnList(N, s, heap)
          /\ Phase(N, s, pc, menu_act, title, embedded)

LEMMA EmptyChain ==
    ASSUME NEW nx \in [Node \cup {TOP} -> Node \cup {NULL}], nx[TOP] = NULL, NEW la
    PROVE  Chain(0, [i \in 1 .. 0 |-> NULL], nx, la)
BY DEF Chain

LEMMA MenusInit == CfgInit => MenusInv
<1> SUFFICES ASSUME CfgInit PROVE MenusInv OBVIOUS
<1>1. CfgTypeOK BY DEF CfgInit, CfgTypeOK, PC, Kind
<1> DEFINE s == [i \in 1 .. 0 |-> NULL]
<1>2. Chain(0, s, next, last)
  <2>1. next \in [Node \cup {TOP} -> Node \cup {NULL}] /\ next[TOP] = NULL BY DEF CfgInit
  <2> QED BY <2>1, EmptyChain
<1>3. OnList(0, s, heap) BY DEF OnList, CfgInit
<1>4. Phase(0, s, pc, menu_act, title, embedded) BY DEF Phase, CfgInit
<1> HIDE DEF s
<1> QED BY <1>1, <1>2, <1>3, <1>4 DEF MenusInv

\* A new menu n with title t is appended.
LEMMA AllocChain ==
    ASSUME CfgTypeOK, NEW N \in Nat, NEW s \in [1 .. N -> Node],
           Chain(N, s, next, last), OnList(N, s, heap),
           menu_act = (IF N = 0 THEN NULL ELSE s[N]),
           NEW n \in FreeNodes, NEW t \in Titles, AllocMenu(n, t)
    PROVE  LET s2 == [i \in 1 .. N + 1 |-> IF i <= N THEN s[i] ELSE n]
           IN  /\ s2 \in [1 .. N + 1 -> Node] /\ Chain(N + 1, s2, next', last')
               /\ OnList(N + 1, s2, heap') /\ menu_act' = s2[N + 1] /\ title'[s2[N + 1]] = t
               /\ \A i \in 1 .. N : s2[i] = s[i] /\ title'[s2[i]] = title[s[i]]
<1> DEFINE s2 == [i \in 1 .. N + 1 |-> IF i <= N THEN s[i] ELSE n]
<1>1. n \in Node /\ heap[n] = "free" BY DEF FreeNodes
<1>2. \A i \in 1 .. N : s[i] # n BY <1>1 DEF OnList
<1>3. next \in [Node \cup {TOP} -> Node \cup {NULL}] /\ last \in [Node -> Node \cup {NULL}]
  BY DEF CfgTypeOK
<1>4. Chain(N + 1, s2, next', last') BY <1>1, <1>2, <1>3, AppendChain DEF AllocMenu
<1>5. s2 \in [1 .. N + 1 -> Node] /\ s2[N + 1] = n /\ \A i \in 1 .. N : s2[i] = s[i] BY <1>1
<1>6. heap' = [heap EXCEPT ![n] = "menu"] /\ heap \in [Node -> Kind] BY DEF AllocMenu, CfgTypeOK
<1>7. title' = [title EXCEPT ![n] = t] /\ title \in [Node -> Titles \cup {NULL}] BY DEF AllocMenu, CfgTypeOK
<1>8. \A i \in 1 .. N + 1 : i = N + 1 \/ i \in 1 .. N OBVIOUS
<1>9. N + 1 \in 1 .. N + 1 /\ \A i \in 1 .. N : i \in 1 .. N + 1 OBVIOUS
<1> HIDE DEF s2
<1>10. OnList(N + 1, s2, heap') BY <1>1, <1>2, <1>5, <1>6, <1>8, <1>9 DEF OnList
<1>11. title'[s2[N + 1]] = t /\ \A i \in 1 .. N : title'[s2[i]] = title[s[i]]
  BY <1>1, <1>2, <1>5, <1>7
<1>12. menu_act' = n BY DEF AllocMenu
<1> QED BY <1>4, <1>5, <1>10, <1>11, <1>12 DEF s2

LEMMA AllocTyped ==
    ASSUME CfgTypeOK, NEW n \in FreeNodes, NEW t \in Titles, AllocMenu(n, t),
           UNCHANGED <<pc, ext, dir_scan, embedded>>
    PROVE  CfgTypeOK'
<1>1. n \in Node BY DEF FreeNodes
<1>2. heap' \in [Node -> Kind] BY DEF CfgTypeOK, AllocMenu, Kind
<1>3. title' \in [Node -> Titles \cup {NULL}] BY DEF CfgTypeOK, AllocMenu
<1>4. next' \in [Node \cup {TOP} -> Node \cup {NULL}] BY <1>1 DEF CfgTypeOK, AllocMenu
<1>5. last' \in [Node -> Node \cup {NULL}] BY DEF CfgTypeOK, AllocMenu
<1>6. menu_act' \in Node \cup {NULL} BY <1>1 DEF AllocMenu
<1> QED BY <1>2, <1>3, <1>4, <1>5, <1>6 DEF CfgTypeOK

\* A title line or a rom line.
LEMMA LineKeeps ==
    ASSUME MenusInv, pc = "ini", NEW n \in FreeNodes, NEW t \in Titles, AllocMenu(n, t),
           UNCHANGED <<pc, ext, dir_scan, embedded>>
    PROVE  MenusInv'
<1>1. PICK N, s :
          /\ Chain(N, s, next, last) /\ OnList(N, s, heap)
          /\ Phase(N, s, pc, menu_act, title, embedded)
  BY DEF MenusInv
<1>2. CfgTypeOK' BY AllocTyped DEF MenusInv
<1>3. N \in Nat /\ s \in [1 .. N -> Node] /\ menu_act = IF N = 0 THEN NULL ELSE s[N]
  BY <1>1 DEF Phase, Chain
<1> DEFINE s2 == [i \in 1 .. N + 1 |-> IF i <= N THEN s[i] ELSE n]
<1>4. /\ s2 \in [1 .. N + 1 -> Node] /\ Chain(N + 1, s2, next', last')
      /\ OnList(N + 1, s2, heap') /\ menu_act' = s2[N + 1]
  <2>1. CfgTypeOK BY DEF MenusInv
  <2> QED BY <2>1, <1>1, <1>3, AllocChain
<1> HIDE DEF s2
<1>5. Phase(N + 1, s2, pc', menu_act', title', embedded')
  <2>1. pc' = "ini" /\ N + 1 # 0 BY <1>3
  <2> QED BY <2>1, <1>4 DEF Phase
<1> QED BY <1>2, <1>4, <1>5 DEF MenusInv

\* Objects other than menus come into use.
LEMMA ObjectKeeps ==
    ASSUME MenusInv, NEW n \in FreeNodes, NEW k \in Kind \ {"menu"}, heap' = [heap EXCEPT ![n] = k],
           UNCHANGED <<pc, menus, embedded>>, ext' \in {ext, n}, dir_scan' = dir_scan
    PROVE  MenusInv'
<1>1. PICK N, s :
          /\ Chain(N, s, next, last) /\ OnList(N, s, heap)
          /\ Phase(N, s, pc, menu_act, title, embedded)
  BY DEF MenusInv
<1>2. n \in Node /\ heap[n] = "free" BY DEF FreeNodes
<1>3. CfgTypeOK' BY <1>2 DEF MenusInv, CfgTypeOK, menus, Kind
<1>4. OnList(N, s, heap') BY <1>1, <1>2 DEF OnList, MenusInv, CfgTypeOK
<1> QED BY <1>1, <1>3, <1>4 DEF MenusInv, menus

\* The moved list has the same menus, and the one at k is the last but one.
LEMMA MovedSame ==
    ASSUME NEW N \in Nat, NEW s \in [1 .. N -> Node], NEW k \in 1 .. N, k + 1 < N
    PROVE  /\ \A n \in Node : (\E i \in 1 .. N : n = s[i]) <=> (\E i \in 1 .. N : n = Moved(N, s, k)[i])
           /\ Moved(N, s, k)[N] = s[N] /\ Moved(N, s, k)[N - 1] = s[k]
<1> DEFINE m == Moved(N, s, k)
           Old(x) == IF x < k THEN x ELSE IF x < N - 1 THEN x + 1 ELSE IF x = N - 1 THEN k ELSE N
           New(x) == IF x < k THEN x ELSE IF x = k THEN N - 1 ELSE IF x < N THEN x - 1 ELSE N
<1>1. m[N] = s[N] /\ m[N - 1] = s[k] BY DEF Moved
<1>2. \A i \in 1 .. N : m[i] = s[Old(i)] /\ Old(i) \in 1 .. N BY DEF Moved
<1>3. \A i \in 1 .. N : Old(New(i)) = i /\ New(i) \in 1 .. N OBVIOUS
<1> HIDE DEF m, Old, New
<1>4. \A n \in Node : (\E i \in 1 .. N : n = s[i]) <=> (\E i \in 1 .. N : n = m[i]) BY <1>2, <1>3
<1> QED BY <1>1, <1>4 DEF m

\* If any menu has a title, there is a last one.
HasLast(N, s, ti, t) == \E k \in 1 .. N : ti[s[k]] = t /\ \A j \in k + 1 .. N : ti[s[j]] # t

LEMMA LastExists ==
    ASSUME NEW N \in Nat, NEW s, NEW ti, NEW t, NEW i \in 1 .. N, ti[s[i]] = t
    PROVE  HasLast(N, s, ti, t)
<1> DEFINE T == {d \in 0 .. N - 1 : ti[s[N - d]] = t}
<1>1. N - i \in T
  <2>1. N - i \in 0 .. N - 1 /\ N - (N - i) = i OBVIOUS
  <2> QED BY <2>1
<1>2. PICK x \in T : \A y \in T : x <= y
  <2>1. T \subseteq Nat OBVIOUS
  <2> HIDE DEF T
  <2> QED BY <2>1, <1>1, SmallestFound
<1>3. x \in 0 .. N - 1 /\ ti[s[N - x]] = t OBVIOUS
<1>4. ASSUME NEW j \in (N - x) + 1 .. N, ti[s[j]] = t PROVE FALSE
  <2>1. N - j \in 0 .. N - 1 /\ N - (N - j) = j /\ ~(x <= N - j) BY <1>3
  <2>2. N - j \in T BY <2>1, <1>4
  <2> HIDE DEF T
  <2> QED BY <2>1, <2>2, <1>2
<1>5. N - x \in 1 .. N BY <1>3
<1> QED BY <1>3, <1>4, <1>5 DEF HasLast

LEMMA DefaultKeeps == ASSUME MenusInv, AddDefault PROVE MenusInv'
<1>1. PICK N, s : /\ Chain(N, s, next, last) /\ OnList(N, s, heap)
                  /\ Phase(N, s, pc, menu_act, title, embedded)
  BY DEF MenusInv
<1>2. PICK n \in FreeNodes :
          LET nx == IF next[TOP] = NULL THEN [next EXCEPT ![n] = NULL, ![TOP] = n]
                    ELSE [next EXCEPT ![n] = NULL, ![menu_act] = n]
              la == [last EXCEPT ![n] = IF next[TOP] = NULL THEN NULL ELSE menu_act]
              ti == [title EXCEPT ![n] = "Replay Menu"]
              roms == {r \in Node : LastTitled(nx, ti, r, "ROMs")}
          IN /\ heap' = [heap EXCEPT ![n] = "menu"]
             /\ title' = ti /\ menu_act' = n
             /\ IF roms = {} THEN next' = nx /\ last' = la
                ELSE \E r \in roms : Move(r, n, nx, la)
  BY DEF AddDefault
<1>3. PICK nx : nx = IF next[TOP] = NULL THEN [next EXCEPT ![n] = NULL, ![TOP] = n]
                     ELSE [next EXCEPT ![n] = NULL, ![menu_act] = n]
  OBVIOUS
<1>4. PICK la : la = [last EXCEPT ![n] = IF next[TOP] = NULL THEN NULL ELSE menu_act] OBVIOUS
<1>5. PICK ti : ti = [title EXCEPT ![n] = "Replay Menu"] OBVIOUS
<1>6. /\ heap' = [heap EXCEPT ![n] = "menu"] /\ title' = ti /\ menu_act' = n
      /\ IF {r \in Node : LastTitled(nx, ti, r, "ROMs")} = {} THEN next' = nx /\ last' = la
         ELSE \E r \in {r \in Node : LastTitled(nx, ti, r, "ROMs")} : Move(r, n, nx, la)
  BY <1>2, <1>3, <1>4, <1>5
<1>7. /\ pc = "default" /\ pc' = "use" /\ ext' = ext /\ dir_scan' = dir_scan /\ embedded' = embedded
  BY DEF AddDefault
<1>8. N \in Nat /\ s \in [1 .. N -> Node] BY <1>1 DEF Chain
<1>9. /\ menu_act = (IF N = 0 THEN NULL ELSE s[N]) /\ ~embedded /\ (N > 0 => title[s[N]] # "ROMs")
  BY <1>1, <1>7 DEF Phase
<1>10. n \in Node /\ heap[n] = "free" BY DEF FreeNodes
<1>11. \A i \in 1 .. N : s[i] # n BY <1>1, <1>10 DEF OnList
<1>12. /\ next \in [Node \cup {TOP} -> Node \cup {NULL}] /\ last \in [Node -> Node \cup {NULL}]
       /\ title \in [Node -> Titles \cup {NULL}] /\ heap \in [Node -> Kind]
       /\ ext \in Node \cup {NULL} /\ dir_scan \in Node \cup {NULL} /\ embedded \in BOOLEAN
       /\ menu_act \in Node \cup {NULL}
  BY DEF MenusInv, CfgTypeOK
<1> DEFINE s2 == [i \in 1 .. N + 1 |-> IF i <= N THEN s[i] ELSE n]
<1>13. Chain(N + 1, s2, nx, la) BY <1>1, <1>3, <1>4, <1>9, <1>10, <1>11, <1>12, AppendChain, ZenonT(40)
<1>14. s2 \in [1 .. N + 1 -> Node] /\ s2[N + 1] = n /\ \A i \in 1 .. N : s2[i] = s[i] BY <1>8, <1>10
<1>15. N + 1 \in 1 .. N + 1 /\ N + 1 \in Nat /\ \A i \in 1 .. N + 1 : i = N + 1 \/ i \in 1 .. N BY <1>8
<1> HIDE DEF s2
<1>16. /\ nx \in [Node \cup {TOP} -> Node \cup {NULL}] /\ la \in [Node -> Node \cup {NULL}]
       /\ ti \in [Node -> Titles \cup {NULL}]
  BY <1>3, <1>4, <1>5, <1>10, <1>12 DEF Titles
<1>17. ti[s2[N + 1]] = "Replay Menu" /\ \A i \in 1 .. N : ti[s2[i]] = title[s[i]]
  BY <1>5, <1>8, <1>10, <1>11, <1>12, <1>14
<1>18. OnList(N + 1, s2, heap')
  <2>1. ASSUME NEW x \in Node
        PROVE  (\E i \in 1 .. N + 1 : x = s2[i]) <=> (x = n \/ \E i \in 1 .. N : x = s[i])
    <3>1. \A i \in 1 .. N : i \in 1 .. N + 1 BY <1>8
    <3> QED BY <3>1, <1>14, <1>15
  <2>2. ASSUME NEW x \in Node PROVE heap'[x] = "menu" <=> (x = n \/ heap[x] = "menu")
    BY <1>6, <1>12
  <2> QED BY <2>1, <2>2, <1>1 DEF OnList
<1>19. heap' \in [Node -> Kind] BY <1>6, <1>12 DEF Kind
<1>20. ASSUME {r \in Node : LastTitled(nx, ti, r, "ROMs")} = {} PROVE MenusInv'
  <2>1. next' = nx /\ last' = la BY <1>6, <1>20
  <2>2. CfgTypeOK' BY <1>6, <1>7, <1>10, <1>12, <1>16, <1>19, <2>1 DEF CfgTypeOK, PC
  <2>3. ~\E i \in 1 .. N + 1 : ti[s2[i]] = "ROMs"
    <3> SUFFICES ASSUME NEW i \in 1 .. N + 1, ti[s2[i]] = "ROMs" PROVE FALSE
      OBVIOUS
    <3>1. PICK k \in 1 .. N + 1 : ti[s2[k]] = "ROMs" /\ \A j \in k + 1 .. N + 1 : ti[s2[j]] # "ROMs"
      <4>1. PICK M \in Nat : M = N + 1 BY <1>15
      <4>2. i \in 1 .. M BY <4>1
      <4>3. HasLast(M, s2, ti, "ROMs") BY <4>2, LastExists
      <4> QED BY <4>1, <4>3 DEF HasLast
    <3>2. LastTitled(nx, ti, s2[k], "ROMs") BY <3>1, <1>13, LastTitledIs
    <3> QED BY <3>2, <1>14, <1>20
  <2>4. Phase(N + 1, s2, pc', menu_act', title', embedded')
    BY <1>6, <1>7, <1>14, <1>15, <2>3 DEF Phase, RomsMoved
  <2> QED BY <2>1, <2>2, <2>4, <1>13, <1>18 DEF MenusInv
<1>21. ASSUME {r \in Node : LastTitled(nx, ti, r, "ROMs")} # {} PROVE MenusInv'
  <2>1. PICK r \in Node : LastTitled(nx, ti, r, "ROMs") /\ Move(r, n, nx, la) BY <1>6, <1>21
  <2>2. PICK k \in 1 .. N + 1 : r = s2[k]
    <3>1. r \in Listed(nx) BY <2>1 DEF LastTitled
    <3> QED BY <3>1, <1>13, ListedIs
  <2>3. ti[s2[k]] = "ROMs" BY <2>1, <2>2 DEF LastTitled
  <2>4. k \in 1 .. N /\ k # N
    <3>1. k # N + 1 BY <2>3, <1>17
    <3>2. k \in 1 .. N BY <3>1, <1>15
    <3>3. title[s[k]] = "ROMs" BY <3>2, <2>3, <1>17
    <3>4. N > 0 BY <3>2, <1>8
    <3>5. title[s[N]] # "ROMs" BY <3>4, <1>9
    <3> QED BY <3>2, <3>3, <3>5
  <2>5. k + 1 < N + 1 BY <2>4, <1>8
  <2>6. PICK m : m = Moved(N + 1, s2, k) OBVIOUS
  <2>7. /\ next' = MovedNext(Link(nx, s2[k]), Link(nx, s2[N + 1]), s2[k], nx)
        /\ last' = MovedLast(Link(nx, s2[k]), Link(nx, s2[N + 1]), s2[k], nx, la)
    BY <2>1, <2>2, <1>14, MoveIs
  <2>8. /\ Chain(N + 1, m, next', last')
        /\ next' \in [Node \cup {TOP} -> Node \cup {NULL}] /\ last' \in [Node -> Node \cup {NULL}]
    BY <2>5, <2>6, <2>7, <1>13, <1>16, MovedChain
  <2>9. /\ \A x \in Node : (\E i \in 1 .. N + 1 : x = s2[i]) <=> (\E i \in 1 .. N + 1 : x = m[i])
        /\ m[N + 1] = n /\ m[N] = s2[k]
    <3>1. PICK M \in Nat : M = N + 1 BY <1>15
    <3>2. s2 \in [1 .. M -> Node] /\ k \in 1 .. M /\ k + 1 < M BY <3>1, <1>14, <2>5
    <3>3. M - 1 = N BY <3>1, <1>8
    <3>4. m = Moved(M, s2, k) BY <3>1, <2>6
    <3>5. /\ \A x \in Node : (\E i \in 1 .. M : x = s2[i]) <=> (\E i \in 1 .. M : x = Moved(M, s2, k)[i])
          /\ Moved(M, s2, k)[M] = s2[M] /\ Moved(M, s2, k)[M - 1] = s2[k]
      BY <3>2, MovedSame, ZenonT(40)
    <3> QED BY <3>1, <3>3, <3>4, <3>5, <1>14
  <2>10. OnList(N + 1, m, heap') BY <2>9, <1>18 DEF OnList
  <2>11. CfgTypeOK' BY <1>6, <1>7, <1>10, <1>12, <1>16, <1>19, <2>8 DEF CfgTypeOK, PC
  <2>12. RomsMoved(N + 1, m, ti)
    <3>1. (N + 1) - 1 = N /\ N + 1 >= 2 BY <1>8, <2>4
    <3>2. ti[m[N + 1]] = "Replay Menu" /\ ti[m[N]] = "ROMs" BY <2>3, <2>9, <1>14, <1>17
    <3> QED BY <3>1, <3>2 DEF RomsMoved
  <2>13. Phase(N + 1, m, pc', menu_act', title', embedded')
    BY <1>6, <1>7, <1>15, <2>9, <2>12 DEF Phase
  <2> QED BY <2>8, <2>10, <2>11, <2>13 DEF MenusInv
<1> QED BY <1>20, <1>21

LEMMA IniEndsKeeps == ASSUME ~RomsLast, MenusInv, IniEnds PROVE MenusInv'
<1>1. PICK N, s : /\ Chain(N, s, next, last) /\ OnList(N, s, heap)
                  /\ Phase(N, s, pc, menu_act, title, embedded)
  BY DEF MenusInv
<1>2. N \in Nat /\ s \in [1 .. N -> Node] BY <1>1 DEF Chain
<1>3. menu_act = IF N = 0 THEN NULL ELSE s[N] BY <1>1 DEF Phase, IniEnds
<1>4. N > 0 => N \in 1 .. N /\ menu_act = s[N] /\ menu_act # NULL BY <1>2, <1>3, NodesAre
<1>5. N > 0 => title[s[N]] # "ROMs" BY <1>4 DEF IniEnds
<1>6. CfgTypeOK' BY DEF MenusInv, CfgTypeOK, IniEnds, menus, PC
<1>7. embedded \in BOOLEAN BY DEF MenusInv, CfgTypeOK
<1>8. N = 0 => menu_act = NULL BY <1>3
<1>9. Phase(N, s, pc', menu_act', title', embedded')
  <2>1. /\ pc' = (IF embedded THEN "use" ELSE "default")
        /\ menu_act' = menu_act /\ title' = title /\ embedded' = embedded
    BY DEF IniEnds, menus
  <2>2. menu_act = NULL \/ \E i \in 1 .. N : menu_act = s[i] BY <1>2, <1>4, <1>8
  <2> QED BY <1>3, <1>5, <1>7, <2>1, <2>2 DEF Phase
<1>10. heap' = heap /\ next' = next /\ last' = last BY DEF IniEnds, menus
<1> QED BY <1>1, <1>6, <1>9, <1>10 DEF MenusInv

LEMMA WalkKeeps == ASSUME MenusInv, WalkMenus PROVE MenusInv'
<1>1. PICK N, s : /\ Chain(N, s, next, last) /\ OnList(N, s, heap)
                  /\ Phase(N, s, pc, menu_act, title, embedded)
  BY DEF MenusInv
<1>2. N \in Nat /\ s \in [1 .. N -> Node] BY <1>1 DEF Chain
<1>3. PICK i \in 1 .. N : menu_act = s[i] BY <1>1 DEF Phase, WalkMenus
<1>4. \E j \in 1 .. N : menu_act' = s[j]
  <2>1. CASE next[menu_act] # NULL /\ menu_act' = next[menu_act]
    <3>1. i # N /\ menu_act' = s[i + 1] BY <2>1, <1>1, <1>3 DEF Chain
    <3>2. i + 1 \in 1 .. N BY <3>1, <1>2
    <3> QED BY <3>1, <3>2
  <2>2. CASE last[menu_act] # NULL /\ menu_act' = last[menu_act]
    <3>1. i # 1 /\ menu_act' = s[i - 1] BY <2>2, <1>1, <1>3 DEF Chain
    <3>2. i - 1 \in 1 .. N BY <3>1, <1>2
    <3> QED BY <3>1, <3>2
  <2> QED BY <2>1, <2>2 DEF WalkMenus
<1>5. CfgTypeOK'
  <2>1. menu_act' \in Node \cup {NULL} BY <1>2, <1>4
  <2> QED BY <2>1 DEF MenusInv, CfgTypeOK, WalkMenus
<1>6. Phase(N, s, pc', menu_act', title', embedded') BY <1>1, <1>4 DEF Phase, WalkMenus
<1>7. heap' = heap /\ next' = next /\ last' = last BY DEF WalkMenus
<1> QED BY <1>1, <1>5, <1>6, <1>7 DEF MenusInv

\* CFG_free_menu leaves an empty list and no menu.
LEMMA FreeKeeps == ASSUME MenusInv, FreeMenu PROVE MenusInv'
<1>1. PICK N, s : Chain(N, s, next, last) /\ OnList(N, s, heap) BY DEF MenusInv
<1>2. PICK dead : dead = Listed(next) \cup ({ext, dir_scan} \ {NULL}) OBVIOUS
<1>3. /\ pc' = "assert" /\ menu_act' = NULL /\ ext' = NULL /\ dir_scan' = NULL /\ embedded' = embedded
      /\ heap' = [n \in Node |-> IF n \in dead THEN "free" ELSE heap[n]]
      /\ title' = [n \in Node |-> IF n \in dead THEN NULL ELSE title[n]]
      /\ last' = [n \in Node |-> IF n \in dead THEN NULL ELSE last[n]]
      /\ next' = [n \in Node \cup {TOP} |-> IF n \in dead \cup {TOP} THEN NULL ELSE next[n]]
  BY <1>2 DEF FreeMenu
<1>4. CfgTypeOK' BY <1>3 DEF MenusInv, CfgTypeOK, PC, Kind
<1> DEFINE e == [i \in 1 .. 0 |-> NULL]
<1>5. Chain(0, e, next', last')
  <2>1. PICK nx : nx = next' OBVIOUS
  <2>2. PICK la : la = last' OBVIOUS
  <2>3. nx \in [Node \cup {TOP} -> Node \cup {NULL}] /\ nx[TOP] = NULL
    <3>1. next' \in [Node \cup {TOP} -> Node \cup {NULL}] BY <1>4 DEF CfgTypeOK
    <3>2. next'[TOP] = NULL BY <1>3
    <3> QED BY <3>1, <3>2, <2>1
  <2>4. Chain(0, e, nx, la) BY <2>3, EmptyChain
  <2> HIDE DEF e
  <2> QED BY <2>1, <2>2, <2>4
<1>6. OnList(0, e, heap')
  <2>1. ASSUME NEW n \in Node, heap'[n] = "menu" PROVE FALSE
    <3>1. n \notin dead /\ heap[n] = "menu" BY <1>3, <2>1
    <3>2. PICK i \in 1 .. N : n = s[i] BY <1>1, <3>1 DEF OnList
    <3>3. PICK nx : nx = next OBVIOUS
    <3>4. PICK la : la = last OBVIOUS
    <3>5. Listed(nx) = {s[j] : j \in 1 .. N} BY <1>1, <3>3, <3>4, ListedIs
    <3> QED BY <1>2, <3>1, <3>2, <3>3, <3>5
  <2> QED BY <2>1 DEF OnList
<1>7. Phase(0, e, pc', menu_act', title', embedded') BY <1>3 DEF Phase
<1> HIDE DEF e
<1> QED BY <1>4, <1>5, <1>6, <1>7 DEF MenusInv

LEMMA LoadKeeps == ASSUME MenusInv, LoadCore PROVE MenusInv'
<1>1. PICK N, s : /\ Chain(N, s, next, last) /\ OnList(N, s, heap)
                  /\ Phase(N, s, pc, menu_act, title, embedded)
  BY DEF MenusInv
<1>2. N = 0 /\ menu_act = NULL BY <1>1 DEF Phase, LoadCore
<1>3. menu_act' = NULL /\ next' = next /\ last' = last BY <1>2 DEF LoadCore, menus
<1>4. pc' \in {"ini", "default"} /\ (pc' = "default" => embedded' = FALSE) BY DEF LoadCore
<1>5. Phase(N, s, pc', menu_act', title', embedded') BY <1>2, <1>3, <1>4 DEF Phase
<1>6. ASSUME NEW n \in FreeNodes, dir_scan' = n, heap' = [heap EXCEPT ![n] = "dir"], embedded' = FALSE
      PROVE  OnList(N, s, heap') /\ CfgTypeOK'
  <2>1. n \in Node /\ heap[n] = "free" BY DEF FreeNodes
  <2>2. heap \in [Node -> Kind] BY DEF MenusInv, CfgTypeOK
  <2>3. OnList(N, s, heap') BY <1>1, <1>6, <2>1, <2>2 DEF OnList
  <2>4. heap' \in [Node -> Kind] BY <1>6, <2>2 DEF Kind
  <2>5. CfgTypeOK' BY <1>4, <1>6, <2>1, <2>4 DEF MenusInv, CfgTypeOK, LoadCore, menus, PC
  <2> QED BY <2>3, <2>5
<1>7. ASSUME heap' = heap, dir_scan' = dir_scan, embedded' \in BOOLEAN
      PROVE  OnList(N, s, heap') /\ CfgTypeOK'
  <2>1. OnList(N, s, heap') BY <1>1, <1>7
  <2>2. CfgTypeOK' BY <1>4, <1>7 DEF MenusInv, CfgTypeOK, LoadCore, menus, PC
  <2> QED BY <2>1, <2>2
<1>8. OnList(N, s, heap') /\ CfgTypeOK' BY <1>6, <1>7 DEF LoadCore
<1> QED BY <1>1, <1>3, <1>5, <1>8 DEF MenusInv

LEMMA PauseKeeps ==
    ASSUME MenusInv, pc' \in {pc, "free"} \/ (pc = "assert" /\ pc' = "load"),
           UNCHANGED <<heap, menus, ext, dir_scan, embedded>>
    PROVE  MenusInv'
<1>1. PICK N, s : /\ Chain(N, s, next, last) /\ OnList(N, s, heap)
                  /\ Phase(N, s, pc, menu_act, title, embedded)
  BY DEF MenusInv
<1>2. Phase(N, s, pc', menu_act', title', embedded') BY <1>1 DEF Phase, menus
<1>3. CfgTypeOK' BY DEF MenusInv, CfgTypeOK, menus, PC
<1> QED BY <1>1, <1>2, <1>3 DEF MenusInv, menus

LEMMA MenusStep == ASSUME ~RomsLast, MenusInv, [CfgNext]_cfgVars PROVE MenusInv'
<1>1. CASE MenuTitle
  <2>1. PICK n \in FreeNodes, t \in Title : AllocMenu(n, t) BY <1>1 DEF MenuTitle
  <2>2. t \in Titles BY DEF Titles
  <2> QED BY <1>1, <2>1, <2>2, LineKeeps DEF MenuTitle
<1>2. CASE UploadRom
  <2>1. PICK n \in FreeNodes : AllocMenu(n, "ROMs") BY <1>2 DEF UploadRom
  <2>2. "ROMs" \in Titles BY DEF Titles
  <2> QED BY <1>2, <2>1, <2>2, LineKeeps DEF UploadRom
<1>3. CASE ChaCfg
  <2>1. PICK n \in FreeNodes : ext' = n /\ heap' = [heap EXCEPT ![n] = "ext"] BY <1>3 DEF ChaCfg
  <2>2. "ext" \in Kind \ {"menu"} BY DEF Kind
  <2>3. UNCHANGED <<pc, menus, embedded>> /\ dir_scan' = dir_scan BY <1>3 DEF ChaCfg
  <2> QED BY <2>1, <2>2, <2>3, ObjectKeeps
<1>4. CASE Target
  <2>1. PICK n \in FreeNodes : heap' = [heap EXCEPT ![n] = "target"] BY <1>4 DEF Target
  <2>2. "target" \in Kind \ {"menu"} BY DEF Kind
  <2>3. UNCHANGED <<pc, menus, embedded>> /\ dir_scan' = dir_scan /\ ext' = ext BY <1>4 DEF Target
  <2> QED BY <2>1, <2>2, <2>3, ObjectKeeps
<1>5. CASE IniEnds BY <1>5, IniEndsKeeps
<1>6. CASE AddDefault BY <1>6, DefaultKeeps
<1>7. CASE WalkMenus BY <1>7, WalkKeeps
<1>8. CASE LeaveCore BY <1>8, PauseKeeps DEF LeaveCore
<1>9. CASE FreeMenu BY <1>9, FreeKeeps
<1>10. CASE Asserted BY <1>10, PauseKeeps DEF Asserted
<1>11. CASE LoadCore BY <1>11, LoadKeeps
<1>12. CASE UNCHANGED cfgVars BY <1>12, PauseKeeps DEF cfgVars, menus
<1> QED BY <1>1, <1>2, <1>3, <1>4, <1>5, <1>6, <1>7, <1>8, <1>9, <1>10, <1>11, <1>12 DEF CfgNext

-----------------------------------------------------------------------------
(* What follows from it.                                                    *)

LEMMA MenusLinked == MenusInv => WellLinked /\ NoMenuLost
<1> SUFFICES ASSUME MenusInv PROVE WellLinked /\ NoMenuLost OBVIOUS
<1>1. PICK N, s : /\ Chain(N, s, next, last) /\ OnList(N, s, heap)
                  /\ Phase(N, s, pc, menu_act, title, embedded)
  BY DEF MenusInv
<1>2. N \in Nat /\ s \in [1 .. N -> Node] BY <1>1 DEF Chain
<1>3. Listed(next) = {s[j] : j \in 1 .. N}
  <2>1. PICK nx : nx = next OBVIOUS
  <2>2. PICK la : la = last OBVIOUS
  <2> QED BY <1>1, <2>1, <2>2, ListedIs
<1>4. NoMenuLost BY <1>1, <1>3 DEF NoMenuLost, OnList
<1>5. ASSUME NEW i \in 1 .. N
      PROVE  /\ heap[s[i]] = "menu"
             /\ next[s[i]] # NULL => last[next[s[i]]] = s[i]
             /\ last[s[i]] # NULL => next[last[s[i]]] = s[i]
             /\ last[s[i]] = NULL <=> next[TOP] = s[i]
  <2>1. heap[s[i]] = "menu" BY <1>1, <1>2 DEF OnList
  <2>2. next[s[i]] # NULL => last[next[s[i]]] = s[i]
    <3> SUFFICES ASSUME next[s[i]] # NULL PROVE last[next[s[i]]] = s[i] OBVIOUS
    <3>1. i # N /\ next[s[i]] = s[i + 1] BY <1>1 DEF Chain
    <3>2. i + 1 \in 1 .. N /\ i + 1 # 1 /\ (i + 1) - 1 = i BY <3>1, <1>2
    <3>3. last[s[i + 1]] = s[(i + 1) - 1] BY <3>2, <1>1 DEF Chain
    <3> QED BY <3>1, <3>2, <3>3
  <2>3. last[s[i]] # NULL => next[last[s[i]]] = s[i]
    <3> SUFFICES ASSUME last[s[i]] # NULL PROVE next[last[s[i]]] = s[i] OBVIOUS
    <3>1. i # 1 /\ last[s[i]] = s[i - 1] BY <1>1 DEF Chain
    <3>2. i - 1 \in 1 .. N /\ i - 1 # N /\ (i - 1) + 1 = i BY <3>1, <1>2
    <3>3. next[s[i - 1]] = s[(i - 1) + 1] BY <3>2, <1>1 DEF Chain
    <3> QED BY <3>1, <3>2, <3>3
  <2>4. last[s[i]] = NULL <=> i = 1
    <3>1. i # 1 => s[i - 1] # NULL
      <4> SUFFICES ASSUME i # 1 PROVE s[i - 1] # NULL OBVIOUS
      <4>1. i - 1 \in 1 .. N BY <1>2
      <4> QED BY <4>1, <1>2, NodesAre
    <3> QED BY <3>1, <1>1 DEF Chain
  <2>5. next[TOP] = s[i] <=> i = 1
    <3>1. 1 \in 1 .. N /\ N # 0 BY <1>2
    <3>2. next[TOP] = s[1] BY <3>1, <1>1 DEF Chain
    <3> QED BY <3>1, <3>2, <1>1 DEF Chain
  <2> QED BY <2>1, <2>2, <2>3, <2>4, <2>5
<1>6. pc = "use" /\ menu_act # NULL => menu_act \in Listed(next) BY <1>1, <1>3 DEF Phase
<1>7. WellLinked BY <1>3, <1>5, <1>6 DEF WellLinked
<1> QED BY <1>4, <1>7

LEMMA RomsInPlace == MenusInv => RomsBeforeReplay
<1> SUFFICES ASSUME MenusInv, pc = "use", ~embedded,
                    NEW n \in Node, heap[n] = "menu", title[n] = "ROMs"
             PROVE  \E r, w \in Listed(next) : /\ title[r] = "ROMs" /\ next[r] = w
                                               /\ title[w] = "Replay Menu"
  BY DEF RomsBeforeReplay
<1>1. PICK N, s : /\ Chain(N, s, next, last) /\ OnList(N, s, heap)
                  /\ Phase(N, s, pc, menu_act, title, embedded)
  BY DEF MenusInv
<1>2. N \in Nat /\ s \in [1 .. N -> Node] BY <1>1 DEF Chain
<1>3. Listed(next) = {s[j] : j \in 1 .. N}
  <2>1. PICK nx : nx = next OBVIOUS
  <2>2. PICK la : la = last OBVIOUS
  <2> QED BY <1>1, <2>1, <2>2, ListedIs
<1>4. \E i \in 1 .. N : title[s[i]] = "ROMs" BY <1>1 DEF OnList
<1>5. N >= 2 /\ title[s[N]] = "Replay Menu" /\ title[s[N - 1]] = "ROMs"
  BY <1>1, <1>4 DEF Phase, RomsMoved
<1>6. N \in 1 .. N /\ N - 1 \in 1 .. N /\ N - 1 # N /\ (N - 1) + 1 = N
  <2>1. N >= 2 BY <1>5
  <2> QED BY <2>1, <1>2
<1>7. next[s[N - 1]] = s[N] BY <1>1, <1>6 DEF Chain
<1> QED BY <1>3, <1>5, <1>6, <1>7

\* CFG_alloc_menu_and_set_active, CFG_add_default and CFG_free_menu: whatever an
\* ini file has but a ROMs menu as its last one, the list is linked both ways, and
\* every menu that was allocated and not freed is on it.
THEOREM MenusCorrect == ASSUME ~RomsLast PROVE CfgSpec => []CfgInv
<1>1. CfgInit => MenusInv BY MenusInit
<1>2. MenusInv /\ [CfgNext]_cfgVars => MenusInv' BY MenusStep
<1>3. MenusInv => CfgInv BY MenusLinked DEF CfgInv, MenusInv
<1> QED BY <1>1, <1>2, <1>3, PTL DEF CfgSpec

\* CFG_add_default: under the same condition a ROMs menu is the last but one, and
\* the last is the Replay Menu.
THEOREM RomsFoundBeforeReplay == ASSUME ~RomsLast PROVE CfgSpec => []RomsBeforeReplay
<1>1. CfgInit => MenusInv BY MenusInit
<1>2. MenusInv /\ [CfgNext]_cfgVars => MenusInv' BY MenusStep
<1>3. MenusInv => RomsBeforeReplay BY RomsInPlace
<1> QED BY <1>1, <1>2, <1>3, PTL DEF CfgSpec
=============================================================================
