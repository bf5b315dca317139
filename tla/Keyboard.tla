------------------------------ MODULE Keyboard ------------------------------
(***************************************************************************)
(* Where the keys of the menu come from (OSD_GetKeyCode in osd.c and the   *)
(* receive side of hardware/usart.c): the menu button, a PS/2 keyboard     *)
(* whose scan codes the FPGA passes on one byte per poll, and a terminal   *)
(* on the serial port, whose characters an interrupt puts into a ring.     *)
(*                                                                         *)
(* Scan codes and characters are bytes, written in hexadecimal.  Of each   *)
(* class of keys the model keeps the few that share bytes with another.    *)
(* The pointers of the ring are left out: rx is what lies between them.    *)
(***************************************************************************)
EXTENDS Naturals, FiniteSets, SequencesExt

CONSTANTS
    RxBufLen,       \* RXBUFLEN
    Waiting,        \* bound: bytes on their way when another key is typed
    Users           \* the sets of sources that are used in one behaviour

VARIABLES
    pc,             \* where OSD_GetKeyCode is
    keybuf,         \* the first keypos bytes of keybuf
    key_flags, old_key_code,
    button, button_pressed,     \* the pin, and what the code holds of it
    rx,             \* the received characters that were not taken
    peeked,         \* what USART_PeekBuf copied
    esc_delay,      \* "off", "on", or "over" when the time has passed
    meta_key,
    who,            \* the sources that are used
    scan, coming,   \* bytes of the keyboard and of the terminal on their way
    down,           \* keys of the keyboard whose release was not sent whole
    active,         \* the modifiers among them that were not held too long
    cut,            \* a key of the keyboard was cut off
    owed,           \* history: for each source, the keys not yet returned
    wrong,          \* history: something else was returned
    slip            \* history: one of the slips below

decoder == <<keybuf, key_flags, old_key_code, button_pressed>>
serial == <<rx, peeked, esc_delay, meta_key>>
user == <<who, button, scan, coming, down, active, cut>>
history == <<owed, wrong, slip>>
kvars == <<pc, decoder, serial, user, history>>

-----------------------------------------------------------------------------
(* The tables.                                                              *)

Esc == "1b"
Ascii == {"1c", "1b", "75", "5a", "7c"}     \* keycode_table
FKey == {"05"}                              \* Fx_KEY
Position == {"75"}                          \* Pos_KEY
NoCode == << >>

\* usart_esc_sequences: tab, cursor up, home, F1.
Sequence == {<<"48">>, <<"5b", "41">>, <<"5b", "31", "7e">>, <<"5b", "31", "31", "7e">>}

Event(code, mods, up) == [code |-> code, mods |-> mods, up |-> up]
NoKey == Event(NoCode, {}, FALSE)

\* The hotkey of the core, ctrl-F1 here, is returned as the menu key.
Menu == Event(<<"menu">>, {}, FALSE)
Hotkey == Event(<<"f", "05">>, {"ctrl"}, FALSE)
Overridden(event) == IF event = Hotkey THEN Menu ELSE event

\* What one character means: letters are capitals, and a capital has shift.
Plain(c) ==
    Event(<<IF c \in {"58", "78"} THEN "X" ELSE c>>, IF c = "58" THEN {"shift"} ELSE {}, FALSE)

-----------------------------------------------------------------------------
(* What is typed.                                                           *)

Modifier == {"shift", "ctrl", "gui"}
Ordinary == {"a", "up", "enter", "f1", "caps", "sysrq", "pause"}

Make == [k \in Modifier \cup Ordinary |->
    CASE k = "a" -> <<"1c">>
      [] k = "up" -> <<"e0", "75">>
      [] k = "enter" -> <<"e0", "5a">>          \* of the numeric block
      [] k = "f1" -> <<"05">>
      [] k = "caps" -> <<"58">>                 \* not in any table
      [] k = "sysrq" -> <<"e0", "12", "e0", "7c">>
      [] k = "pause" -> <<"e1", "14", "77", "e1", "f0", "14", "f0", "77">>
      [] k = "shift" -> <<"12">>
      [] k = "ctrl" -> <<"e0", "14">>           \* the right one
      [] k = "gui" -> <<"e0", "1f">>]

Release(k) ==
    IF k = "sysrq" THEN <<"e0", "f0", "7c", "e0", "f0", "12">>
    ELSE IF Len(Make[k]) = 1 THEN <<"f0", Make[k][1]>>
    ELSE <<"e0", "f0", Make[k][2]>>

\* What the key should be returned as, or be forwarded to the core as.
Meant(k, up) ==
    LET code == CASE k \in {"a", "enter"} -> <<"ascii", Last(Make[k])>>
                  [] k = "up" -> <<"position", "75">>
                  [] k = "f1" -> <<"f", "05">>
                  [] k = "caps" -> <<"forward", "58">>
                  [] OTHER -> <<k>>
    IN  Overridden(Event(code, IF k = "caps" THEN {} ELSE active, up))

TerminalKey ==
    {[chars |-> <<c>>, key |-> Plain(c)] : c \in {"78", "58"}}
    \cup {[chars |-> <<Esc>> \o s, key |-> Event(s, {}, FALSE)] : s \in Sequence}

AltEscape == [chars |-> <<Esc, Esc>>, key |-> Event(<<Esc>>, {"alt"}, FALSE)]

\* The terminal must pause after these, or they mean something else.
PausedKey ==
    {[chars |-> <<Esc>>, key |-> Event(<<Esc>>, {}, FALSE)],
     [chars |-> <<Esc, "78">>, key |-> [Plain("78") EXCEPT !.mods = {"alt"}]],
     AltEscape}

Source == {"button", "ps2", "serial"}

Stopped == scan = << >> /\ keybuf = << >>
Resolved == coming = << >> /\ rx = << >> /\ esc_delay = "off" /\ ~meta_key

-----------------------------------------------------------------------------
TypeOK ==
    /\ pc \in {"poll", "valid", "peek", "getc", "peekbuf", "match"}
    /\ Len(keybuf) <= 8
    /\ key_flags \subseteq Modifier
    /\ Len(rx) < RxBufLen /\ Len(peeked) <= 8
    /\ esc_delay \in {"off", "on", "over"} /\ meta_key \in BOOLEAN
    /\ who \in Users /\ DOMAIN owed = Source
    /\ down \subseteq Modifier \cup Ordinary /\ active \subseteq down \cap Modifier
    /\ {button, button_pressed, cut, wrong, slip} \subseteq BOOLEAN

KeyInit ==
    /\ who \in Users
    /\ pc = "poll" /\ keybuf = << >> /\ key_flags = {} /\ old_key_code = NoKey
    /\ button = FALSE /\ button_pressed = FALSE
    /\ rx = << >> /\ peeked = << >> /\ esc_delay = "off" /\ meta_key = FALSE
    /\ scan = << >> /\ coming = << >> /\ down = {} /\ active = {} /\ cut = FALSE
    /\ owed = [s \in Source |-> << >>] /\ wrong = FALSE /\ slip = FALSE

-----------------------------------------------------------------------------
(* What the code does not decode is a slip: a modifier that is forgotten   *)
(* while codes are on their way, a full receive ring, escape twice in a    *)
(* row, a code that is left behind for the button, and the codes that are  *)
(* overwritten in the buffer they share with the terminal.  Bound: nothing *)
(* is typed after a slip.                                                  *)

Slips(now) == slip' = (slip \/ now)

-----------------------------------------------------------------------------
(* The user.                                                                *)

\* A key of the keyboard is pressed (or repeats) or is released.  Only one
\* ordinary key is down at a time, with one modifier.
Type(k, up) ==
    /\ "ps2" \in who /\ Len(scan) <= Waiting
    /\ cut => Stopped /\ key_flags = {}
    /\ up => k \in down
    /\ ~up => Cardinality(down \cap IF k \in Modifier THEN Modifier ELSE Ordinary \ {k}) = 0
    /\ scan' = scan \o (IF up THEN Release(k) ELSE Make[k])
    /\ down' = IF up \/ k = "pause" THEN down \ {k} ELSE down \cup {k}
    /\ active' = IF up THEN active \ {k} ELSE active \cup (Modifier \cap {k})
    /\ owed' = IF k \in Modifier THEN owed
               ELSE [owed EXCEPT !["ps2"] = Append(@, [event |-> Meant(k, up), held |-> k \in down])]
    /\ cut' = FALSE
    /\ UNCHANGED <<pc, decoder, serial, who, button, coming, wrong, slip>>

\* Only the first n bytes of a key get through: the user lets go of the
\* modifiers and waits.
CutOff(k, up, n) ==
    /\ "ps2" \in who /\ Stopped /\ ~cut
    /\ up <=> k \in down
    /\ n < Len(IF up THEN Release(k) ELSE Make[k])
    /\ k \notin {"sysrq", "pause"}
    /\ scan' = SubSeq(IF up THEN Release(k) ELSE Make[k], 1, n)
    /\ down' = down \ Modifier /\ active' = {}
    /\ cut' = TRUE
    /\ UNCHANGED <<pc, decoder, serial, who, button, coming, history>>

Send(t) ==
    /\ "serial" \in who /\ coming = << >>
    /\ \A n \in 1 .. Len(owed["serial"]) :
           owed["serial"][n].event \notin {p.key : p \in PausedKey}
    /\ coming' = t.chars
    /\ owed' = [owed EXCEPT !["serial"] = Append(@, [event |-> t.key, held |-> FALSE])]
    /\ Slips(t = AltEscape)
    /\ UNCHANGED <<pc, decoder, serial, who, button, scan, down, active, cut, wrong>>

\* The button is pressed for less than FLASHDELAY.
Push ==
    /\ "button" \in who /\ ~button /\ ~button_pressed
    /\ button' = TRUE
    /\ owed' = [owed EXCEPT !["button"] = <<[event |-> Menu, held |-> FALSE]>>]
    /\ UNCHANGED <<pc, decoder, serial, who, scan, coming, down, active, cut, wrong, slip>>

LetGo ==
    /\ button /\ owed["button"] = << >>
    /\ button' = FALSE
    /\ UNCHANGED <<pc, decoder, serial, who, scan, coming, down, active, cut, history>>

\* SER_ESC_SEQ_DELAY passes; the characters of a key follow each other so much
\* faster that they were all there when the buffer was last looked at.
Expire ==
    /\ esc_delay = "on" /\ coming = << >>
    /\ pc = "match" => Len(peeked) = Len(rx)
    /\ esc_delay' = "over"
    /\ UNCHANGED <<pc, decoder, rx, peeked, meta_key, user, history>>

\* The receive interrupt does not look whether the ring is full: the pointers
\* meet, and the ring is empty.
ISR_USART ==
    /\ coming # << >>
    /\ rx' = IF Len(rx) + 1 = RxBufLen THEN << >> ELSE Append(rx, Head(coming))
    /\ coming' = Tail(coming)
    /\ Slips(Len(rx) + 1 = RxBufLen)
    /\ UNCHANGED <<pc, decoder, peeked, esc_delay, meta_key, who, button, scan, down, active, cut, owed, wrong>>

-----------------------------------------------------------------------------
(* OSD_GetKeyCode: the button and the keyboard.                             *)

\* What is returned should be what was typed first; it is marked as repeated
\* only where the key was held down.
Return(s, event, again) ==
    LET first == Head(owed[s])
    IN  /\ owed' = [owed EXCEPT ![s] = IF @ = << >> THEN @ ELSE Tail(@)]
        /\ wrong' = (wrong \/ owed[s] = << >>
                     \/ first.event # event \/ (again /\ ~first.held))

\* Mutant: the sign of a release behind e0 is left in the buffer.
PressedFirst(buf) ==
    IF Len(buf) = 2 /\ buf[1] = "f0" THEN <<buf[2]>> ELSE buf

\* A release is decoded like the press, without its f0.
Pressed(buf) ==
    LET b == IF Len(buf) = 3 /\ buf[2] = "f0" THEN <<buf[1], buf[3]>> ELSE buf
    IN  IF Len(b) = 2 /\ b[1] = "f0" THEN <<b[2]>> ELSE b

Extended(b) == Len(b) = 2 /\ b[1] = "e0"

OSD_ConvFlags(b) ==
    IF b[1] = "12" THEN {"shift"}
    ELSE IF b[1] = "14" \/ (Extended(b) /\ b[2] = "14") THEN {"ctrl"}
    ELSE IF Extended(b) /\ b[2] = "1f" THEN {"gui"}
    ELSE {}

\* The key of a whole sequence.
Code(b) ==
    CASE b[1] \in Ascii -> <<"ascii", b[1]>>
      [] b[1] \in FKey -> <<"f", b[1]>>
      [] Extended(b) /\ b[2] \in Position -> <<"position", b[2]>>
      [] Extended(b) /\ b[2] = "7c" -> <<"sysrq">>
      [] Extended(b) /\ b[2] \in Ascii \ (Position \cup {"7c"}) -> <<"ascii", b[2]>>
      [] b[1] = "e1" /\ Len(b) = 8 -> <<"pause">>
      [] OTHER -> NoCode

\* e0 12 comes with e0 7c and means nothing.
Silent(b) == Extended(b) /\ b[2] = "12"

\* No key that the menu knows: the bytes go to the core.
Ignored(b) ==
    \/ Extended(b) /\ b[2] # "f0"
    \/ b[1] \notin {"e0", "e1", "f0"}

\* Returns a key, and remembers it to tell when it is repeated.
ReturnKey(event) ==
    /\ Return("ps2", event, event = old_key_code /\ event.code # <<"pause">>)
    /\ old_key_code' = event

\* Mutant: a modifier that is released stays.
FlagsStick(b, up) == key_flags \cup OSD_ConvFlags(b)

NewFlags(b, up) ==
    IF up THEN key_flags \ OSD_ConvFlags(b) ELSE key_flags \cup OSD_ConvFlags(b)

\* Decodes the buffer; the serial port is looked at when that gave no key.
Decode(buf) ==
    LET b == Pressed(buf)
        up == b # buf
        code == Code(b)
    IN  \/ /\ OSD_ConvFlags(b) # {}
           /\ keybuf' = << >> /\ key_flags' = NewFlags(b, up)
           /\ pc' = "valid" /\ UNCHANGED <<old_key_code, history>>
        \/ /\ OSD_ConvFlags(b) = {} /\ code # NoCode
           /\ keybuf' = << >> /\ UNCHANGED key_flags
           /\ ReturnKey(Overridden(Event(code, key_flags, up /\ code # <<"pause">>)))
           /\ pc' = "poll"
        \/ /\ OSD_ConvFlags(b) = {} /\ code = NoCode
           /\ keybuf' = IF Silent(b) \/ Ignored(b) THEN << >> ELSE b
           /\ IF Ignored(b) /\ ~Silent(b)
              THEN Return("ps2", Event(<<"forward", Last(b)>>, {}, up), FALSE)
              ELSE UNCHANGED history
           /\ pc' = "valid" /\ UNCHANGED <<key_flags, old_key_code>>

\* A byte is read when the FPGA has one; otherwise what was begun is forgotten
\* after PS2DELAY, which passes only when the keyboard has stopped.
Received ==
    {Append(keybuf, scan[n]) : n \in DOMAIN scan \cap {1}}
    \cup {keybuf}
    \cup IF scan = << >> THEN {<< >>} ELSE {}

\* Mutant: a press is not remembered.
PollButtonAgain ==
    /\ pc = "poll" /\ button
    /\ \E buf \in Received :
           keybuf' = buf /\ scan' = IF Len(buf) > Len(keybuf) THEN Tail(scan) ELSE scan
    /\ Return("button", Menu, FALSE)
    /\ Slips(scan' # scan)
    /\ UNCHANGED <<pc, button_pressed, key_flags, old_key_code, serial, who, button, coming, down, active, cut>>

\* The button takes priority: what was received stays undecoded.
PollButton ==
    /\ pc = "poll" /\ button /\ ~button_pressed
    /\ button_pressed' = TRUE
    /\ \E buf \in Received :
           keybuf' = buf /\ scan' = IF Len(buf) > Len(keybuf) THEN Tail(scan) ELSE scan
    /\ Return("button", Menu, FALSE)
    /\ Slips(scan' # scan)
    /\ UNCHANGED <<pc, key_flags, old_key_code, serial, who, button, coming, down, active, cut>>

\* BUTTONDELAY may have passed when the button is up.
Poll ==
    /\ pc = "poll"
    /\ button => button_pressed
    /\ button_pressed' \in {button_pressed, button}
    /\ \E buf \in Received :
           /\ scan' = IF Len(buf) > Len(keybuf) THEN Tail(scan) ELSE scan
           /\ IF buf = << >>
              THEN keybuf' = buf /\ pc' = "valid" /\ UNCHANGED <<key_flags, old_key_code, history>>
              ELSE Decode(buf)
    /\ UNCHANGED <<serial, who, button, coming, down, active, cut, slip>>

\* PS2FLAGSDELAY passed since the last modifier: one that is still held counts
\* no more.
FlagsTimeout ==
    /\ pc \in {"poll", "valid"} /\ key_flags # {}
    /\ key_flags' = {} /\ old_key_code' = NoKey
    /\ active' = {} /\ Slips(scan # << >>)
    /\ UNCHANGED <<pc, keybuf, button_pressed, serial, who, button, scan, coming, down, cut, owed, wrong>>

-----------------------------------------------------------------------------
(* OSD_GetKeyCode: the serial port.                                         *)

\* Mutant: the ring is not looked at before its first character is.
ValidOrNot ==
    /\ pc = "valid" /\ pc' = "peek"
    /\ UNCHANGED <<decoder, serial, user, history>>

USART_GetValid ==
    /\ pc = "valid"
    /\ pc' = IF rx = << >> THEN "poll" ELSE "peek"
    /\ UNCHANGED <<decoder, serial, user, history>>

USART_Peekc ==
    /\ pc = "peek"
    /\ pc' = IF rx # << >> /\ Head(rx) = Esc THEN "peekbuf" ELSE "getc"
    /\ UNCHANGED <<decoder, serial, user, history>>

\* A character is a key, with alt if an escape came before it.
USART_Getc ==
    /\ pc = "getc" /\ pc' = "poll"
    /\ IF rx = << >>
       THEN UNCHANGED <<rx, history>>
       ELSE /\ rx' = Tail(rx)
            /\ LET key == Plain(Head(rx))
               IN  Return("serial", IF meta_key THEN [key EXCEPT !.mods = @ \cup {"alt"}] ELSE key, FALSE)
    /\ meta_key' = FALSE
    /\ UNCHANGED <<decoder, peeked, esc_delay, user, slip>>

\* The keyboard's bytes are overwritten in the buffer that both use.
USART_PeekBuf ==
    /\ pc = "peekbuf" /\ pc' = "match"
    /\ peeked' = SubSeq(rx, 1, IF Len(rx) < 8 THEN Len(rx) ELSE 8)
    /\ keybuf' = [n \in DOMAIN keybuf |-> IF n <= Len(peeked') THEN peeked'[n] ELSE keybuf[n]]
    /\ Slips(keybuf' # keybuf)
    /\ UNCHANGED <<key_flags, old_key_code, button_pressed, rx, esc_delay, meta_key, user, owed, wrong>>

\* Mutant: an escape with any two characters behind it is a sequence.
MatchesLoose == {s \in Sequence : Len(peeked) > 2 /\ s[1] = peeked[2]}

\* The sequences that the characters behind the escape begin with.
Matches == {s \in Sequence : IsPrefix(<<Esc>> \o s, peeked)}

\* The characters are taken if they are still there.
USART_GetBuf(chars) ==
    rx' = IF IsPrefix(chars, rx) THEN SubSeq(rx, Len(chars) + 1, Len(rx)) ELSE rx

\* A sequence that is known: its key.
TakeSequence ==
    /\ pc = "match" /\ pc' = "poll"
    /\ Cardinality(Matches) = 1
    /\ LET s == CHOOSE s \in Matches : TRUE
       IN  USART_GetBuf(<<Esc>> \o s) /\ Return("serial", Event(s, {}, FALSE), FALSE)
    /\ esc_delay' = "off" /\ peeked' = << >>
    /\ UNCHANGED <<decoder, meta_key, user, slip>>

\* Mutant: the escape is not waited for.
WaitEscape ==
    /\ pc = "match" /\ pc' = "poll"
    /\ Cardinality(Matches) # 1
    /\ esc_delay = "off" \/ Cardinality(Matches) > 1
    /\ esc_delay' = "over" /\ peeked' = << >>
    /\ UNCHANGED <<decoder, rx, meta_key, user, history>>

\* The characters may be the beginning of a sequence: the time is started.
StartEscape ==
    /\ pc = "match" /\ pc' = "poll"
    /\ Cardinality(Matches) # 1
    /\ esc_delay = "off" \/ Cardinality(Matches) > 1
    /\ esc_delay' = "on" /\ peeked' = << >>
    /\ UNCHANGED <<decoder, rx, meta_key, user, history>>

\* Mutant: with an escape and a character, the escape stays in the ring.
EscapeOverKept ==
    /\ pc = "match" /\ pc' = "poll"
    /\ Cardinality(Matches) = 0 /\ esc_delay = "over"
    /\ esc_delay' = "off" /\ peeked' = << >>
    /\ IF Len(peeked) = 2
       THEN meta_key' = TRUE /\ UNCHANGED <<rx, history>>
       ELSE Return("serial", Event(<<Esc>>, {}, FALSE), FALSE) /\ rx' = SubSeq(rx, 2, Len(rx)) /\ UNCHANGED meta_key
    /\ UNCHANGED <<decoder, user, slip>>

\* No sequence came in time: an escape with one character is that character
\* with alt, and everything else begins with the escape key.
EscapeOver ==
    /\ pc = "match" /\ pc' = "poll"
    /\ Cardinality(Matches) = 0 /\ esc_delay = "over"
    /\ esc_delay' = "off" /\ peeked' = << >>
    /\ rx' = IF rx = << >> THEN rx ELSE Tail(rx)
    /\ IF Len(peeked) = 2
       THEN meta_key' = TRUE /\ UNCHANGED history
       ELSE Return("serial", Event(<<Esc>>, {}, FALSE), FALSE) /\ UNCHANGED meta_key
    /\ UNCHANGED <<decoder, user, slip>>

AwaitEscape ==
    /\ pc = "match" /\ pc' = "poll"
    /\ Cardinality(Matches) = 0 /\ esc_delay = "on"
    /\ peeked' = << >>
    /\ UNCHANGED <<decoder, rx, esc_delay, meta_key, user, history>>

-----------------------------------------------------------------------------
OSD_GetKeyCode ==
    \/ PollButton \/ Poll
    \/ USART_GetValid \/ USART_Peekc \/ USART_Getc \/ USART_PeekBuf
    \/ TakeSequence \/ StartEscape \/ EscapeOver \/ AwaitEscape

Types ==
    /\ ~slip
    /\ \/ \E k \in Modifier \cup Ordinary, up \in BOOLEAN : Type(k, up)
       \/ \E k \in Modifier \cup Ordinary, up \in BOOLEAN, n \in 0 .. 2 : CutOff(k, up, n)
       \/ \E t \in TerminalKey : Send(t)
       \/ \E t \in PausedKey : Resolved /\ Send(t)
       \/ Push

KeyNext == OSD_GetKeyCode \/ FlagsTimeout \/ Expire \/ ISR_USART \/ LetGo \/ Types

-----------------------------------------------------------------------------
(* Properties.                                                              *)

\* Each source's keys are returned once and in the order they were typed,
\* with the modifiers that were held, however the polls fall between the
\* bytes; none is marked as repeated that was released in between.
KeysRight == ~wrong

\* That is so up to the first slip, whoever types.
KeyInv == slip \/ (TypeOK /\ KeysRight)
=============================================================================
