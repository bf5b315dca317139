------------------------------ MODULE Terminal ------------------------------
(***************************************************************************)
(* The serial port in both directions and the keys: what the firmware      *)
(* prints (UsartTx) and what its user types (Keyboard).  The directions    *)
(* share the device and no state of the program, so a behaviour follows    *)
(* one of them: the firmware prints when it has no user.                   *)
(***************************************************************************)
EXTENDS UsartTx

CONSTANTS
    RxBufLen, Waiting, Users        \* of Keyboard

ASSUME KeyboardAssumption ==
    /\ RxBufLen \in Nat \ {0} /\ Waiting \in Nat
    /\ Users \subseteq SUBSET {"button", "ps2", "serial"}

VARIABLES
    kpc, keybuf, key_flags, old_key_code, button, button_pressed,
    rx, peeked, esc_delay, meta_key,
    who, scan, coming, down, active, cut, typed, wrong, slip

K == INSTANCE Keyboard WITH pc <- kpc, owed <- typed

keyVars ==
    <<kpc, keybuf, key_flags, old_key_code, button, button_pressed, rx, peeked,
      esc_delay, meta_key, who, scan, coming, down, active, cut, typed, wrong, slip>>

allVars == <<vars, keyVars>>

TerminalInit == Init /\ K!KeyInit

Prints == who = {} /\ Next /\ UNCHANGED keyVars
TypesAndReads == who # {} /\ K!KeyNext /\ UNCHANGED vars

TerminalNext == Prints \/ TypesAndReads

TerminalSpec == TerminalInit /\ [][TerminalNext]_allVars

\* The fairness of both: USART_Putc runs on and the PDC sends, the main loop
\* goes on polling and finds every byte at last, the interrupt is taken and time
\* passes.
FairTerminalSpec ==
    /\ TerminalSpec
    /\ WF_vars(who = {} /\ Work)
    /\ WF_keyVars(who # {} /\ K!OSD_GetKeyCode)
    /\ SF_keyVars(who # {} /\ K!Poll /\ scan' # scan)
    /\ WF_keyVars(who # {} /\ K!Expire)
    /\ WF_keyVars(who # {} /\ K!ISR_USART)

-----------------------------------------------------------------------------
(* Properties.                                                              *)

\* Until the first slip no key that was typed is lost, doubled, misread or out
\* of order.
KeyInv == K!KeyInv

\* The same without regard to slips.
KeysRight == K!KeysRight

\* A modifier counts as long as it is held, which is more than the code keeps
\* (README.md, section 6).
HeldCounts == K!Stopped /\ ~cut => key_flags = down \cap K!Modifier

\* Two of the slips do not happen, so that TLC shows another one (action constraints
\* of README.md, section 6).
NoneForgotten == ~K!FlagsTimeout
NoneOverrun == K!ISR_USART => rx' # << >>

\* When printing stops, every line that was finished is sent.
PrintedIsSent == LinesAreSent

\* A key that was typed is returned, if the user then leaves it at that and
\* nothing slipped.
KeysArrive ==
    <>[][~K!Types]_keyVars => <>[](slip \/ \A s \in K!Source : typed[s] = << >>)
=============================================================================
