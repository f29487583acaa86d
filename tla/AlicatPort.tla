----------------------------- MODULE AlicatPort -----------------------------
(***************************************************************************)
(* One serial port of alicatlib: the protocol client every session of the  *)
(* port shares (its lock and its streaming latch), the sessions, the       *)
(* transport's rate, and the devices on the RS-485 bus behind it.          *)
(*                                                                         *)
(* A task is a coroutine of the program.  It performs one operation at a   *)
(* time - Session.execute, change_unit_id, change_baud_rate, or a          *)
(* StreamingSession from its enter to its exit - and every await of the    *)
(* operation is a place where the other tasks run: pc names that await.    *)
(***************************************************************************)
EXTENDS Naturals, Sequences, SequencesExt

CONSTANTS
    Task,         \* coroutines using the port
    Session,      \* sessions on the port; each has a device of its own
    UnitId,       \* unit ids A..Z
    At,           \* "@", the address of a device that streams
    Baud,         \* supported baud rates
    HomeId,       \* the unit id each session was opened with
    HomeBaud,     \* the rate the port was opened with
    Cancellable,  \* awaits at which a cancellation may be delivered
    Faults        \* may a write raise on an open port, a stop be lost?

\* The awaits no shield covers and where a cancellation has an effect of its
\* own (cancelling a read or the drain ends it as its timeout does): a request
\* or a stream's exit waiting for the lock, the writes, and the closing of the
\* buffers at the beginning of a stream's exit.
Unshielded == {"wait", "exit", "write", "start", "leave", "stop"}

ASSUME PortAssumption ==
    /\ HomeId \in [Session -> UnitId]
    /\ \A s, r \in Session : HomeId[s] = HomeId[r] => s = r
    /\ At \notin UnitId
    /\ HomeBaud \in Baud
    /\ Cancellable \subseteq Unshielded
    /\ Faults \in BOOLEAN

VARIABLES
    lock,    \* anyio.Lock: the owner, then the waiters in order of arrival
    latch,   \* AlicatProtocolClient._streaming
    pc,      \* the await each task is at
    job,     \* what the task captured before it awaited
    sess,    \* each session's cached unit id and lifecycle state
    dev,     \* each device's address and rate
    line,    \* the transport: its rate, and whether it is open
    loose    \* history: the sessions whose device streams on since its start raised, its
             \*   stop or the exit before it was lost, or the rate was moved under it

vars == <<lock, latch, pc, job, sess, dev, line, loose>>

NoJob == [op |-> "none"]

\* id is the unit id the operation encoded; arg the new unit id or rate;
\* heard the sessions whose device received the bytes; doubt (history) says
\* that a rename of the session ended with an exception.
Requests == [op : {"exec", "rename", "baud", "start", "stop"}, sess : Session,
             id : UnitId, arg : UnitId \union Baud, heard : SUBSET Session]

Stage == {"idle", "wait", "write", "read", "ack", "verify",
          "start", "streaming", "leave", "stop", "drain"}

\* The operation of a task fits the await it is at.
Captured(t) ==
    /\ pc[t] # "idle" => job[t] \in Requests
    /\ job[t].op = "rename" => job[t].arg \in UnitId
    /\ job[t].op = "baud" => job[t].arg \in Baud
    /\ pc[t] = "ack" => job[t].op = "baud"
    /\ pc[t] = "verify" => job[t].op \in {"rename", "baud"}

PortTyped ==
    /\ lock \in Seq(Task)
    /\ latch \in BOOLEAN
    /\ pc \in [Task -> Stage]
    /\ job \in [Task -> {NoJob} \union Requests]
    /\ sess \in [Session -> [id : UnitId, doubt : BOOLEAN,
                             state : {"OPERATIONAL", "BROKEN"}]]
    /\ dev \in [Session -> [id : UnitId \union {At}, baud : Baud]]
    /\ line \in [baud : Baud, open : BOOLEAN]
    /\ \A t \in Task : Captured(t)

TypeOK == PortTyped /\ loose \in SUBSET Session

Init ==
    /\ lock = << >>
    /\ latch = FALSE
    /\ pc = [t \in Task |-> "idle"]
    /\ job = [t \in Task |-> NoJob]
    /\ sess = [s \in Session |->
                 [id |-> HomeId[s], doubt |-> FALSE, state |-> "OPERATIONAL"]]
    /\ dev = [s \in Session |-> [id |-> HomeId[s], baud |-> HomeBaud]]
    /\ line = [baud |-> HomeBaud, open |-> TRUE]
    /\ loose = {}

-----------------------------------------------------------------------------
(* The lock, the bus and the program counter.                              *)

\* Mutant: the lock is never asked for, whoever queued goes ahead.
Holds_Ignored(t) == lock # << >>

Holds(t) == lock # << >> /\ Head(lock) = t

Enqueue(t, j) ==
    /\ pc[t] = "idle"
    /\ pc' = [pc EXCEPT ![t] = "wait"]
    /\ job' = [job EXCEPT ![t] = j]
    /\ lock' = Append(lock, t)

Goto(t, stage) == pc' = [pc EXCEPT ![t] = stage]

Return(t) ==
    /\ pc' = [pc EXCEPT ![t] = "idle"]
    /\ job' = [job EXCEPT ![t] = NoJob]

Release == lock' = Tail(lock)

\* The devices that receive a command addressed to i.
Hears(i) == {s \in Session : line.open /\ dev[s].id = i /\ dev[s].baud = line.baud}

\* Who acts on it: the addressee may miss or refuse a command.
Outcomes(i) == {Hears(i), {}}

Readdress(heard, i) ==
    dev' = [s \in Session |-> IF s \in heard THEN [dev[s] EXCEPT !.id = i] ELSE dev[s]]

\* History: whatever streams after this step has been let go.
LetGo == loose' = {s \in Session : dev'[s].id = At}

\* Some device is pushing frames the transport can read.
Chatter == Hears(At) # {}

\* A write always raises on a closed port (the writes below need line.open),
\* and may on a backend fault or when cancelled.
MayRaise(stage) == ~line.open \/ Faults \/ stage \in Cancellable

\* A rename target the caller may ask for: nobody has it or was promised it.
Vacant(i) ==
    /\ \A s \in Session : dev[s].id # i /\ sess[s].id # i
    /\ \A t \in Task : job[t].op = "rename" => job[t].arg # i

Operational(s) == sess[s].state = "OPERATIONAL"

Request(op, s, arg) ==
    [op |-> op, sess |-> s, id |-> sess[s].id, arg |-> arg, heard |-> {}]

-----------------------------------------------------------------------------
(* Requests: the checks made before the lock is asked for.                 *)

\* Session.execute: the gates pass and the bytes are encoded, then the
\* command queues on the lock inside the protocol client.
Execute(t, s) ==
    /\ Operational(s)
    /\ ~latch
    /\ Enqueue(t, Request("exec", s, sess[s].id))
    /\ UNCHANGED <<latch, sess, dev, line, loose>>

ChangeUnitId(t, s, i) ==
    /\ Operational(s)
    /\ i # sess[s].id
    /\ Vacant(i)
    /\ Enqueue(t, Request("rename", s, i))
    /\ UNCHANGED <<latch, sess, dev, line, loose>>

ChangeBaudRate(t, s, b) ==
    /\ Operational(s)
    /\ Enqueue(t, Request("baud", s, b))
    /\ UNCHANGED <<latch, sess, dev, line, loose>>

\* StreamingSession.__aenter__; the format probe and the NCS command it may
\* send first are Execute steps of the same task.
EnterStream(t, s) ==
    /\ Enqueue(t, Request("start", s, sess[s].id))
    /\ UNCHANGED <<latch, sess, dev, line, loose>>

-----------------------------------------------------------------------------
(* Commands under the lock.                                                *)

Acquire(t) ==
    /\ pc[t] = "wait" /\ Holds(t)
    /\ job[t].op \in {"exec", "rename", "baud"}
    /\ Goto(t, "write")
    /\ UNCHANGED <<lock, latch, job, sess, dev, line, loose>>

\* query_line and query_lines go on to read; write_only is done.
SendCommand(t) ==
    /\ pc[t] = "write" /\ job[t].op = "exec" /\ line.open
    /\ \/ /\ \E heard \in Outcomes(job[t].id) :
                job' = [job EXCEPT ![t].heard = heard]
          /\ Goto(t, "read")
          /\ UNCHANGED lock
       \/ Return(t) /\ Release
    /\ UNCHANGED <<latch, sess, dev, line, loose>>

\* The reply arrives, or the read times out.
ReadReply(t) ==
    /\ pc[t] = "read"
    /\ Return(t) /\ Release
    /\ UNCHANGED <<latch, sess, dev, line, loose>>

SendRename(t) ==
    /\ pc[t] = "write" /\ job[t].op = "rename" /\ line.open
    /\ \E heard \in Outcomes(job[t].id) : Readdress(heard, job[t].arg)
    /\ Goto(t, "verify")
    /\ UNCHANGED <<lock, latch, job, sess, line, loose>>

\* Mutant: the new rate lands in the address.
Retune_Address(heard, b) == Readdress(heard, b)

\* The device acknowledges at the old rate, then changes over.
Retune(heard, b) ==
    dev' = [s \in Session |-> IF s \in heard THEN [dev[s] EXCEPT !.baud = b] ELSE dev[s]]

SendBaud(t) ==
    /\ pc[t] = "write" /\ job[t].op = "baud" /\ line.open
    /\ \E heard \in Outcomes(job[t].id) :
          /\ Retune(heard, job[t].arg)
          /\ job' = [job EXCEPT ![t].heard = heard]
    /\ Goto(t, "ack")
    /\ UNCHANGED <<lock, latch, sess, line, loose>>

\* The write raises or is cancelled; the bytes may be out all the same.
WriteRaises(t) ==
    /\ pc[t] = "write" /\ MayRaise("write")
    /\ \E heard \in Outcomes(job[t].id) :
          CASE job[t].op = "rename" -> Readdress(heard, job[t].arg)
            [] job[t].op = "baud"   -> Retune(heard, job[t].arg)
            [] OTHER                -> UNCHANGED dev
    /\ sess' = [sess EXCEPT ![job[t].sess].doubt = @ \/ job[t].op = "rename"]
    /\ Return(t) /\ Release
    /\ UNCHANGED <<latch, line, loose>>

-----------------------------------------------------------------------------
(* Lifecycle changes after their write, inside the cancellation shield.    *)

\* The acknowledgement is read - a frame of a streaming device passes for
\* one - and the transport reopens at the new rate, or fails to open at all.
Reopen(t) ==
    /\ pc[t] = "ack"
    /\ job[t].heard # {} \/ Chatter
    /\ line' = [baud |-> job[t].arg, open |-> TRUE]
    /\ loose' = loose \union {s \in Session : dev[s].id = At /\ dev[s].baud # job[t].arg}
    /\ Goto(t, "verify")
    /\ UNCHANGED <<lock, latch, job, sess, dev>>

Break(t) ==
    /\ sess' = [sess EXCEPT ![job[t].sess].state = "BROKEN"]
    /\ Return(t) /\ Release

ReopenFails(t) ==
    /\ pc[t] = "ack"
    /\ job[t].heard # {} \/ Chatter
    /\ line' = [baud |-> job[t].arg, open |-> FALSE]
    /\ Break(t)
    /\ UNCHANGED <<latch, dev>> /\ LetGo

\* Mutant: the session is marked broken and the read is tried again.
AckFails_Retries(t) ==
    /\ pc[t] = "ack"
    /\ sess' = [sess EXCEPT ![job[t].sess].state = "BROKEN"]
    /\ UNCHANGED <<lock, latch, pc, job, dev, line, loose>>

\* No acknowledgement, or a refusal.
AckFails(t) ==
    /\ pc[t] = "ack"
    /\ Break(t)
    /\ UNCHANGED <<latch, dev, line, loose>>

\* Whose echo _verify_unit_id_via_ve waits for.
Expected(t) == IF job[t].op = "rename" THEN job[t].arg ELSE sess[job[t].sess].id

\* Mutant: the lifecycle change trusts its write and looks for no echo.
Verified_Blind(t) ==
    /\ pc[t] = "verify"
    /\ IF job[t].op = "rename"
       THEN sess' = [sess EXCEPT ![job[t].sess].id = job[t].arg]
       ELSE UNCHANGED sess
    /\ Return(t) /\ Release
    /\ UNCHANGED <<latch, dev, line, loose>>

\* VE is echoed by the expected id: a rename swaps the cached id now.
Verified(t) ==
    /\ pc[t] = "verify"
    /\ Hears(Expected(t)) # {}
    /\ IF job[t].op = "rename"
       THEN sess' = [sess EXCEPT ![job[t].sess].id = job[t].arg,
                                 ![job[t].sess].doubt = FALSE]
       ELSE UNCHANGED sess
    /\ Return(t) /\ Release
    /\ UNCHANGED <<latch, dev, line, loose>>

VerifyFails(t) ==
    /\ pc[t] = "verify"
    /\ \/ /\ job[t].op = "rename"
          /\ sess' = [sess EXCEPT ![job[t].sess].doubt = TRUE]
          /\ Return(t) /\ Release
       \/ job[t].op = "baud" /\ Break(t)
    /\ UNCHANGED <<latch, dev, line, loose>>

-----------------------------------------------------------------------------
(* A StreamingSession from enter to exit.                                  *)

\* Mutant: refusing the second streamer clears the latch of the first.
RefuseStream_Clears(t) ==
    /\ pc[t] = "wait" /\ Holds(t) /\ job[t].op = "start"
    /\ latch
    /\ latch' = FALSE
    /\ Return(t) /\ Release
    /\ UNCHANGED <<sess, dev, line, loose>>

\* Mutant: refusing the second streamer forgets to release the lock.
RefuseStream_Leaks(t) ==
    /\ pc[t] = "wait" /\ Holds(t) /\ job[t].op = "start"
    /\ latch
    /\ Return(t)
    /\ UNCHANGED <<lock, latch, sess, dev, line, loose>>

\* Under the lock, a second streamer is refused ...
RefuseStream(t) ==
    /\ pc[t] = "wait" /\ Holds(t) /\ job[t].op = "start"
    /\ latch
    /\ Return(t) /\ Release
    /\ UNCHANGED <<latch, sess, dev, line, loose>>

\* Mutant: the latch is not looked at under the lock.
MarkStreaming_Unchecked(t) ==
    /\ pc[t] = "wait" /\ Holds(t) /\ job[t].op = "start"
    /\ latch' = TRUE
    /\ Goto(t, "start")
    /\ UNCHANGED <<lock, job, sess, dev, line, loose>>

\* ... and the first one sets the latch before it writes.
MarkStreaming(t) ==
    /\ pc[t] = "wait" /\ Holds(t) /\ job[t].op = "start"
    /\ ~latch
    /\ latch' = TRUE
    /\ Goto(t, "start")
    /\ UNCHANGED <<lock, job, sess, dev, line, loose>>

\* "{id}@ @": the lock is released, the producer runs without it.
StartStream(t) ==
    /\ pc[t] = "start" /\ line.open
    /\ \E heard \in Outcomes(sess[job[t].sess].id) : Readdress(heard, At)
    /\ Goto(t, "streaming")
    /\ Release
    /\ UNCHANGED <<latch, job, sess, line, loose>>

StartRaises(t) ==
    /\ pc[t] = "start" /\ MayRaise("start")
    /\ \E heard \in Outcomes(sess[job[t].sess].id) : Readdress(heard, At)
    /\ latch' = FALSE
    /\ LetGo
    /\ Return(t) /\ Release
    /\ UNCHANGED <<sess, line>>

\* The body ends, however it ends: the producer is cancelled and joined.
LeaveStream(t) ==
    /\ pc[t] = "streaming"
    /\ Goto(t, "leave")
    /\ UNCHANGED <<lock, latch, job, sess, dev, line, loose>>

\* In a cancelled scope closing the buffers raises, and __aexit__ has not yet
\* reached the try whose finally clears the latch: the task is gone, the
\* device streams on and the latch stays.
LeaveCancelled(t) ==
    /\ pc[t] = "leave" /\ "leave" \in Cancellable
    /\ Return(t)
    /\ UNCHANGED <<lock, latch, sess, dev, line, loose>>

\* The buffers are closed; __aexit__ asks for the lock.
AskToStop(t) ==
    /\ pc[t] = "leave"
    /\ Goto(t, "wait")
    /\ job' = [job EXCEPT ![t].op = "stop"]
    /\ lock' = Append(lock, t)
    /\ UNCHANGED <<latch, sess, dev, line, loose>>

AcquireToStop(t) ==
    /\ pc[t] = "wait" /\ Holds(t) /\ job[t].op = "stop"
    /\ Goto(t, "stop")
    /\ UNCHANGED <<lock, latch, job, sess, dev, line, loose>>

\* Mutant: the stop is addressed to the unit id the device had, not to "@".
StopStream_Addressed(t) ==
    /\ pc[t] = "stop"
    /\ \/ Readdress(Hears(sess[job[t].sess].id), sess[job[t].sess].id) /\ loose' = loose \ Hears(At)
       \/ Faults /\ UNCHANGED dev /\ LetGo
    /\ Goto(t, "drain")
    /\ UNCHANGED <<lock, latch, job, sess, line>>

\* Mutant: the stop bytes carry the id the session had when it was entered.
StopStream_Stale(t) ==
    /\ pc[t] = "stop"
    /\ \/ Readdress(Hears(At), job[t].id) /\ loose' = loose \ Hears(At)
       \/ Faults /\ UNCHANGED dev /\ LetGo
    /\ Goto(t, "drain")
    /\ UNCHANGED <<lock, latch, job, sess, line>>

\* "@@ {id}" re-addresses whichever device answers to "@".  A write that
\* raises AlicatTransportError is suppressed, so the drain follows anyway.
StopStream(t) ==
    /\ pc[t] = "stop"
    /\ \/ Readdress(Hears(At), sess[job[t].sess].id) /\ loose' = loose \ Hears(At)
       \/ Faults /\ UNCHANGED dev /\ LetGo
    /\ Goto(t, "drain")
    /\ UNCHANGED <<lock, latch, job, sess, line>>

\* Cancelled in the stop write: the finally clears the latch on the way out.
StopCancelled(t) ==
    /\ pc[t] = "stop" /\ "stop" \in Cancellable
    /\ Readdress(Hears(At), sess[job[t].sess].id) \/ UNCHANGED dev
    /\ latch' = FALSE
    /\ LetGo
    /\ Return(t) /\ Release
    /\ UNCHANGED <<sess, line>>

\* Mutant: the exit returns without clearing the latch.
Drained_KeepsLatch(t) ==
    /\ pc[t] = "drain"
    /\ Return(t) /\ Release
    /\ UNCHANGED <<latch, sess, dev, line, loose>>

\* The wire has been idle for the drain window (or the read is cancelled).
Drained(t) ==
    /\ pc[t] = "drain"
    /\ latch' = FALSE
    /\ Return(t) /\ Release
    /\ UNCHANGED <<sess, dev, line, loose>>

-----------------------------------------------------------------------------
\* A task is cancelled while it waits for the lock.  Only the exit of a
\* stream has anything to clean up: its finally clears the latch.
CancelWait(t) ==
    /\ pc[t] = "wait"
    /\ (IF job[t].op = "stop" THEN "exit" ELSE "wait") \in Cancellable
    /\ \E n \in DOMAIN lock : lock[n] = t /\ lock' = RemoveAt(lock, n)
    /\ latch' = (latch /\ job[t].op # "stop")
    /\ Return(t)
    /\ UNCHANGED <<sess, dev, line>>
    /\ IF job[t].op = "stop" THEN LetGo ELSE UNCHANGED loose

Call(t) == \E s \in Session :
    \/ Execute(t, s)
    \/ \E i \in UnitId : ChangeUnitId(t, s, i)
    \/ \E b \in Baud : ChangeBaudRate(t, s, b)
    \/ EnterStream(t, s)

\* What the event loop does for a task that has the lock, or was promised it.
Progress(t) ==
    \/ Acquire(t) \/ SendCommand(t) \/ ReadReply(t)
    \/ SendRename(t) \/ SendBaud(t) \/ WriteRaises(t)
    \/ Reopen(t) \/ ReopenFails(t) \/ AckFails(t)
    \/ Verified(t) \/ VerifyFails(t)
    \/ RefuseStream(t) \/ MarkStreaming(t) \/ StartStream(t) \/ StartRaises(t)
    \/ AskToStop(t) \/ AcquireToStop(t) \/ StopStream(t)

Next == \E t \in Task :
    \/ Call(t) \/ Progress(t) \/ LeaveStream(t)
    \/ LeaveCancelled(t) \/ StopCancelled(t) \/ Drained(t) \/ CancelWait(t)

Spec == Init /\ [][Next]_vars

\* Every await of Progress is bounded by a timeout and the event loop runs
\* every ready task.  The drain is not bounded: it ends when the wire is
\* silent.  Nobody has to end the body of a stream.
Fairness == \A t \in Task :
    /\ WF_vars(Progress(t))
    /\ WF_vars(~Chatter /\ Drained(t))

LiveSpec == Spec /\ Fairness

-----------------------------------------------------------------------------
(* Properties.                                                             *)

OnWire(t) == pc[t] \in {"write", "read", "ack", "verify", "start", "stop", "drain"}

\* From the moment the latch is set for a stream to the moment it is cleared.
Streams(t) ==
    \/ pc[t] \in {"start", "streaming", "leave", "stop", "drain"}
    \/ pc[t] = "wait" /\ job[t].op = "stop"

\* "Exactly one in-flight command per client": whatever is cancelled, raised
\* or queued, two tasks are never both between a write and its reply.
OneInFlight == \A t, u \in Task : OnWire(t) /\ OnWire(u) => t = u

\* "One streamer per port": one StreamingSession at a time is between its start
\* and the end of its exit, and the latch is set for all of that time.  Nothing
\* else keeps the latch set, unless the very beginning of an exit is cancelled.
LatchIsOwned ==
    /\ \A t \in Task : Streams(t) => latch
    /\ \A t, u \in Task : Streams(t) /\ Streams(u) => t = u
    /\ "leave" \notin Cancellable /\ latch => \E t \in Task : Streams(t)

AddressUnique == \A s, r \in Session : dev[s].id = dev[r].id => s = r
RightDevice == \A t \in Task : pc[t] = "read" => job[t].heard \subseteq {job[t].sess}

\* As long as callers rename to vacant ids only, no interleaving of renames, streams
\* and failures puts two devices of the bus on one address, and a command that was
\* encoded before it queued on the lock is never acted on by the device of another
\* session, however the ids moved meanwhile (execute encodes before it queues).
Addressed == AddressUnique /\ RightDevice

\* A session's cached unit id and its device's address disagree only while a
\* rename is being verified, or after one whose caller got an exception.
CachedIdTrue == \A s \in Session :
    dev[s].id \notin {At, sess[s].id} =>
        \/ sess[s].doubt
        \/ \E t \in Task : pc[t] = "verify" /\ job[t].op = "rename" /\ job[t].sess = s

\* "Exit streaming mode - always sends stop-stream": the port is not handed back to
\* command traffic with a device still pushing frames, whatever streams, renames, rate
\* changes and cancellations came before, other than a device that was let go: its start
\* raised after it was heard, its stop or the exit before it was lost, or the rate was
\* moved, or the port closed, under its stream; and the next stop it hears ends that.
StoppedOnExit == ~latch => \A s \in Session : dev[s].id = At => s \in loose

\* change_unit_id swaps the cached id only for the id its own device has.
RenameVerified == [][\A s \in Session :
    sess'[s].id # sess[s].id => dev[s].id = sess'[s].id]_vars

\* A change_baud_rate that returns normally leaves the transport open at the
\* rate of its own session's device, as long as that device's address is its
\* own: the verify cannot tell two devices on one address apart.
BaudReconciled == [][\A t \in Task :
    LET s == job[t].sess IN
    (/\ pc[t] = "verify" /\ job[t].op = "baud" /\ pc'[t] = "idle"
     /\ sess'[s].state = "OPERATIONAL"
     /\ \A r \in Session \ {s} : dev[r].id # sess[s].id)
        => line.open /\ dev[s].baud = line.baud]_vars

\* AlicatPort implements the arbiter it is built around.
Arb == INSTANCE PortArbiter
         WITH busy <- {t \in Task : OnWire(t)}, streamer <- {t \in Task : Streams(t)}
Arbitrates == Arb!Arbiter

\* Whoever asks for the lock gets it, or is cancelled.
WaitersServed == \A t \in Task : pc[t] = "wait" ~> pc[t] # "wait"

\* Once a StreamingSession starts its exit, the latch is cleared.
ExitClearsLatch == \A t \in Task : pc[t] = "leave" ~> ~latch

\* change_baud_rate always returns to its caller, reconciled or BROKEN.
BaudChangeReturns == \A t \in Task : job[t].op = "baud" ~> pc[t] = "idle"

-----------------------------------------------------------------------------
(* What the repository says of the port and the code does not always do.   *)

\* "Always clear the streaming latch ... leaving it set would permanently brick
\* the client": the latch outlives no StreamingSession.
LatchReleased == latch => \E t \in Task : Streams(t)
=============================================================================
