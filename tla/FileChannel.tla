---------------------------- MODULE FileChannel ----------------------------
(***************************************************************************)
(* What a file channel promises to the core in the FPGA (fileio.h, and the *)
(* status words of the drivers): a request is acknowledged once, then its  *)
(* bytes are moved in order and without a gap, then the transfer is        *)
(* acknowledged once, as OK only if every byte asked for was moved.        *)
(***************************************************************************)
EXTENDS Naturals, Sequences

CONSTANTS
    Channel,
    Position        \* file positions and sizes that a core may ask for

VARIABLES
    phase,          \* of each channel: idle, req, busy
    want,           \* the [addr, size] of the last request
    moved,          \* the file positions moved for it so far
    answer          \* the last transfer acknowledge: none, ok, err

vars == <<phase, want, moved, answer>>

Init ==
    /\ phase = [c \in Channel |-> "idle"]
    /\ want = [c \in Channel |-> [addr |-> 0, size |-> 0]]
    /\ moved = [c \in Channel |-> << >>]
    /\ answer = [c \in Channel |-> "none"]

Request(c) ==
    /\ phase[c] = "idle" /\ phase' = [phase EXCEPT ![c] = "req"]
    /\ want'[c] \in [addr : Position, size : Position]
    /\ want' = [want EXCEPT ![c] = want'[c]]
    /\ moved' = [moved EXCEPT ![c] = << >>]
    /\ answer' = [answer EXCEPT ![c] = "none"]

ReqAck(c) ==
    /\ phase[c] = "req" /\ phase' = [phase EXCEPT ![c] = "busy"]
    /\ UNCHANGED <<want, moved, answer>>

Move(c) ==
    /\ phase[c] = "busy"
    /\ \E n \in 1 .. want[c].size - Len(moved[c]) :
          moved' = [moved EXCEPT ![c] =
              @ \o [i \in 1 .. n |-> want[c].addr + Len(@) + i - 1]]
    /\ UNCHANGED <<phase, want, answer>>

TransAck(c) ==
    /\ phase[c] = "busy" /\ phase' = [phase EXCEPT ![c] = "idle"]
    /\ \/ /\ Len(moved[c]) = want[c].size
          /\ answer' = [answer EXCEPT ![c] = "ok"]
       \/ answer' = [answer EXCEPT ![c] = "err"]
    /\ UNCHANGED <<want, moved>>

Next == \E c \in Channel : Request(c) \/ ReqAck(c) \/ Move(c) \/ TransAck(c)

Spec == Init /\ [][Next]_vars
=============================================================================
