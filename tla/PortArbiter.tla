---------------------------- MODULE PortArbiter ----------------------------
(***************************************************************************)
(* What the shared protocol client promises the sessions of one serial     *)
(* port, with no word about how: at most one task is in the middle of a    *)
(* transaction on the wire, and at most one task owns the unsolicited      *)
(* (streaming) direction of the port.  A stream may only be opened from    *)
(* inside a transaction.  AlicatPort implements this specification.        *)
(***************************************************************************)
CONSTANT Task

VARIABLES busy,      \* the tasks in the middle of a transaction
          streamer   \* the tasks that own the stream

arbVars == <<busy, streamer>>

ArbInit == busy = {} /\ streamer = {}

\* A transaction starts on a silent wire.
Begin(t) == busy = {} /\ busy' = {t} /\ UNCHANGED streamer

\* A transaction ends.
End(t) == busy = {t} /\ busy' = {} /\ UNCHANGED streamer

\* A transaction that opens the stream starts when nobody has it.
BeginStream(t) ==
    /\ busy = {} /\ streamer = {}
    /\ busy' = {t} /\ streamer' = {t}

\* The owner gives the stream up, with the transaction it is in, if any.
EndStream(t) ==
    /\ streamer = {t} /\ streamer' = {}
    /\ busy' = busy \ {t}

ArbNext == \E t \in Task : Begin(t) \/ End(t) \/ BeginStream(t) \/ EndStream(t)

Arbiter == ArbInit /\ [][ArbNext]_arbVars
=============================================================================
