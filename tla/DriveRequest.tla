---------------------------- MODULE DriveRequest ----------------------------
(***************************************************************************)
(* The request line between a core and the driver of its file channel:     *)
(* the status bits FILEIO_REQ_ACT and the acknowledges of fileio.h, which  *)
(* the tape and the floppy driver use alike.  One request at a time.       *)
(***************************************************************************)
VARIABLES
    phase,      \* the core: idle, req (REQ_ACT raised), busy (acknowledged)
    req,        \* the request: [dir, drive, ...]
    answer,     \* the transfer acknowledge: none, ok, seek, trunc, abort
    moved,      \* what the request has moved so far
    pc          \* where the driver is

lineVars == <<phase, req, answer, moved, pc>>

LineInit(r) ==
    /\ phase = "idle" /\ req = r /\ answer = "none" /\ moved = << >> /\ pc = "idle"

\* The core raises REQ_ACT and keeps it until the request is acknowledged.
Raise(r) ==
    /\ phase = "idle" /\ phase' = "req"
    /\ req' = r /\ answer' = "none" /\ moved' = << >>
    /\ UNCHANGED pc

\* FileIO_FCh_Process finds REQ_ACT and calls the driver, which reads the
\* request and writes REQ_ACK.
Accept(next) ==
    /\ pc = "idle" /\ phase = "req"
    /\ phase' = "busy" /\ pc' = next
    /\ UNCHANGED <<req, answer, moved>>

\* The driver returns, with the transfer acknowledge a.
Return(a) == pc' = "idle" /\ phase' = "idle" /\ answer' = a /\ UNCHANGED req

\* The driver returns without one: the core goes on waiting.
ReturnUnanswered == pc' = "idle" /\ UNCHANGED <<phase, req, answer, moved>>
=============================================================================
