--------------------------------- MODULE Wire ---------------------------------
(***************************************************************************)
(* The bytes between one client and one device: SerialTransport's pushback *)
(* and reads, AlicatProtocolClient's queries that cut lines from them, and *)
(* a StreamingSession's producer, its frame buffer and its consumer.       *)
(*                                                                         *)
(* AlicatPort shows that transactions do not overlap; here they follow     *)
(* each other on a wire where replies come in pieces, late, or not at all. *)
(* A line is two pieces, the second one ends it.                           *)
(***************************************************************************)
EXTENDS Naturals, Sequences, SequencesExt

CONSTANTS
    Replies,        \* the commands: [lines : of the reply, max : of query_lines or 1,
                    \*  ends : is_complete knows the last line]
    MaxCommands,    \* this many transactions
    MaxFrames,      \* this many frames of a stream
    Capacity,       \* of the frame buffer
    Policies        \* OverflowPolicy

ASSUME WireAssumption ==
    /\ \A r \in Replies : r.lines \in Nat \ {0} /\ r.max \in Nat \ {0} /\ r.ends \in BOOLEAN
    /\ MaxCommands \in Nat /\ MaxFrames \in Nat /\ Capacity \in Nat \ {0}
    /\ Policies \subseteq {"block", "drop_oldest", "drop_newest"}

VARIABLES
    cfg,        \* drain_before_write, OverflowPolicy, strict
    step,       \* the await of the transaction in progress
    cmd,        \* what it asks; its number
    owed,       \* pieces the device has still to send
    rx,         \* pieces in the input buffer of the port
    push,       \* SerialTransport._pushback
    buf,        \* read_until's buf
    lines,      \* query_lines: the lines so far
    answer,     \* what the last query returned
    left,       \* history: an earlier transaction may have left pieces behind
    clean,      \* history: none were, when this one, or the stream, began
    frames,     \* what the device sent, the producer made of it, and dropped
    queue,      \* the memory stream, and the frame a blocked producer has in hand
    taken       \* history: the frames __anext__ returned, by their places in frames.made

wire == <<owed, rx, push, buf>>
query == <<cmd, lines, answer, left, clean>>
stream == <<frames, queue, taken>>
vars == <<cfg, step, wire, query, stream>>

-----------------------------------------------------------------------------
\* Pieces and lines.

\* The line k of what command or frame n sends.
Line(of, n, k) == <<[of |-> of, n |-> n, k |-> k, eol |-> FALSE],
                    [of |-> of, n |-> n, k |-> k, eol |-> TRUE]>>
Reply(n, r) == [i \in 1..(2 * r.lines) |-> Line("reply", n, (i + 1) \div 2)[2 - (i % 2)]]
Rejection(n) == Line("reject", n, 1)

HasLine(bytes) == \E i \in DOMAIN bytes : bytes[i].eol
EndOf(bytes) == CHOOSE i \in DOMAIN bytes : bytes[i].eol /\ \A k \in 1..(i - 1) : ~bytes[k].eol
FirstLine(bytes) == SubSeq(bytes, 1, EndOf(bytes))

\* Mutant: what came after the line is forgotten.
Leftover_Dropped(bytes) == <<>>

\* What read_until pushes back after it found a line.
Leftover(bytes) == SubSeq(bytes, EndOf(bytes) + 1, Len(bytes))

Whole(line) == Len(line) = 2 /\ Last(line).eol

-----------------------------------------------------------------------------
Nobody == [n |-> 0, reply |-> [lines |-> 1, max |-> 1, ends |-> FALSE]]

\* sent: frames of the device.  made: history, the frames the producer made, each by the
\* number of the device's frame it is, 0 if it is none.
NoFrames == [sent |-> 0, made |-> <<>>, dropped |-> 0]

Init ==
    /\ cfg \in [drains : BOOLEAN, policy : Policies, strict : BOOLEAN]
    /\ step = "idle" /\ cmd = Nobody
    /\ owed = <<>> /\ rx = <<>> /\ push = <<>> /\ buf = <<>>
    /\ lines = <<>> /\ answer = [n |-> 0, lines |-> <<>>, cut |-> FALSE, clean |-> TRUE]
    /\ left = FALSE /\ clean = TRUE
    /\ frames = NoFrames /\ queue = <<>> /\ taken = <<>>

\* A piece arrives, at any time.
Arrives ==
    /\ owed # <<>>
    /\ owed' = Tail(owed) /\ rx' = Append(rx, Head(owed))
    /\ UNCHANGED <<cfg, step, push, buf, query, stream>>

-----------------------------------------------------------------------------
\* query_line and query_lines.

\* Nothing that could be read later is under way, or was left by an earlier transaction.
Quiet == owed = <<>> /\ (cfg.drains \/ ~left)

\* The client is free; drain_input comes first if the client was made to drain.
Begin ==
    /\ step = "idle" /\ cmd.n < MaxCommands
    /\ \E r \in Replies : cmd' = [n |-> cmd.n + 1, reply |-> r]
    /\ step' = "write" /\ lines' = <<>>
    /\ clean' = Quiet
    /\ IF cfg.drains
       THEN rx' = <<>> /\ push' = <<>> /\ left' = (owed # <<>>)
       ELSE UNCHANGED <<rx, push, left>>
    /\ UNCHANGED <<cfg, owed, buf, answer, stream>>

\* The device answers, refuses, or has not heard.
Says(n, r) == {Reply(n, r), Rejection(n), <<>>}

Write ==
    /\ step = "write"
    /\ \E said \in Says(cmd.n, cmd.reply) : owed' = owed \o said
    /\ step' = "read" /\ buf' = push /\ push' = <<>>
    /\ UNCHANGED <<cfg, rx, query, stream>>

\* The transaction is over without an answer; pieces of one may still come.
Raises == step' = "idle" /\ left' = TRUE /\ UNCHANGED <<cmd, lines, answer, clean>>

\* The write raises, the device may have heard all of it.
WriteFails ==
    /\ step = "write" /\ Raises
    /\ \E said \in {<<>>, Reply(cmd.n, cmd.reply)} : owed' = owed \o said
    /\ UNCHANGED <<cfg, rx, push, buf, stream>>

\* read_until takes what is there; producer and query read alike.
Receive ==
    /\ step \in {"read", "stream"} /\ ~HasLine(buf) /\ rx # <<>>
    /\ buf' = buf \o rx /\ rx' = <<>>
    /\ UNCHANGED <<cfg, step, owed, push, query, stream>>

Answers(all, cut) ==
    /\ step' = "idle"
    /\ answer' = [n |-> cmd.n, lines |-> all, cut |-> cut, clean |-> clean]
    /\ left' = (left \/ cut \/ Len(all) # cmd.reply.lines)

\* max_lines, or the predicate on what was read.
Complete(all) ==
    \/ Len(all) >= cmd.reply.max
    \/ cmd.reply.ends /\ Last(Last(all)).k = cmd.reply.lines

\* A line is there.  A refusal, or a line of nothing, is raised after the settling delay.
TakeLine ==
    /\ step = "read" /\ HasLine(buf)
    /\ LET line == FirstLine(buf)
           all == Append(lines, line)
       IN  \/ /\ lines = <<>> /\ (Last(line).of = "reject" \/ ~Whole(line))
              /\ step' = "settle" /\ push' = Leftover(buf) /\ buf' = <<>>
              /\ UNCHANGED <<lines, answer, left>>
           \/ /\ ~(lines = <<>> /\ Last(line).of = "reject")
              /\ lines' = all
              /\ IF Complete(all)
                 THEN Answers(all, FALSE) /\ push' = Leftover(buf) /\ buf' = <<>>
                 ELSE buf' = Leftover(buf) /\ UNCHANGED <<step, push, answer, left>>
    /\ UNCHANGED <<cfg, owed, rx, cmd, clean, stream>>

\* 20 ms later the input is drained and the error raised.
Settled ==
    /\ step = "settle"
    /\ rx' = <<>> /\ push' = <<>>
    /\ step' = "idle" /\ left' = (owed # <<>>)
    /\ UNCHANGED <<cfg, owed, buf, cmd, lines, answer, clean, stream>>

\* The first line does not come in time; after it the idle timeout ends the reply.  The
\* partial line is kept for the next read.
TimesOut ==
    /\ step = "read" /\ ~HasLine(buf) /\ rx = <<>>
    /\ push' = buf /\ buf' = <<>>
    /\ IF lines = <<>> THEN Raises
       ELSE Answers(lines, TRUE) /\ UNCHANGED <<cmd, lines, clean>>
    /\ UNCHANGED <<cfg, owed, rx, stream>>

\* Cancelled, or the port fails: what read_until had read is gone.
ReadAborted ==
    /\ step \in {"read", "settle"} /\ Raises
    /\ buf' = <<>>
    /\ UNCHANGED <<cfg, owed, rx, push, stream>>

-----------------------------------------------------------------------------
\* A StreamingSession.

\* Nothing is drained first.
StartStream ==
    /\ step = "idle" /\ frames = NoFrames /\ MaxFrames > 0
    /\ step' = "stream" /\ buf' = push /\ push' = <<>>
    /\ clean' = (owed = <<>> /\ ~left)
    /\ UNCHANGED <<cfg, owed, rx, cmd, lines, answer, left, stream>>

\* The device pushes a frame.
Pushes ==
    /\ step \in {"stream", "failed"} /\ frames.sent < MaxFrames /\ owed = <<>>
    /\ owed' = Line("frame", frames.sent + 1, 1)
    /\ frames' = [frames EXCEPT !.sent = @ + 1]
    /\ UNCHANGED <<cfg, step, rx, push, buf, query, queue, taken>>

\* Mutant: DROP_OLDEST makes room and forgets the frame it made room for.
Overflows_Late(q, f) ==
    CASE cfg.policy = "drop_oldest" -> Tail(q)
      [] cfg.policy = "drop_newest" -> q

\* A full buffer: the oldest frame makes room for the new one, or the new one is dropped.
Overflows(q, f) ==
    CASE cfg.policy = "drop_oldest" -> Append(Tail(q), f)
      [] cfg.policy = "drop_newest" -> q

Fits == Len(queue) < Capacity \/ cfg.policy = "block"

\* _dispatch_frame.  A producer that blocks is behind one frame that is not in the buffer.
Dispatch(f) ==
    LET made == Append(frames.made, f) IN
    /\ queue' = IF Fits THEN Append(queue, Len(made)) ELSE Overflows(queue, Len(made))
    /\ frames' = [frames EXCEPT !.made = made, !.dropped = IF Fits THEN @ ELSE @ + 1]

Blocked == Len(queue) > Capacity

\* Whether a line is a frame: DataFrameFormat.parse counts its tokens and does not look
\* whose they are.  A late reply may be a data frame like those of the stream; so may a
\* fragment, or one that ran into the next line.  A refusal is too short for one.
Verdicts(line) ==
    CASE Whole(line) /\ Last(line).of = "frame" -> {"frame"}
      [] Whole(line) /\ Last(line).of = "reject" -> {"malformed"}
      [] Len(line) = 1 -> {"frame", "malformed", "empty"}
      [] OTHER -> {"frame", "malformed"}

FrameIn(line) == IF Whole(line) /\ Last(line).of = "frame" THEN Last(line).n ELSE 0

\* What parses is dispatched.  A bare end of line is skipped; so is a line that does not
\* parse, unless strict: it ends the producer.
TakeFrame ==
    /\ step = "stream" /\ HasLine(buf) /\ ~Blocked
    /\ buf' = Leftover(buf)
    /\ \E verdict \in Verdicts(FirstLine(buf)) :
        /\ step' = IF verdict = "malformed" /\ cfg.strict THEN "failed" ELSE step
        /\ IF verdict = "frame" THEN Dispatch(FrameIn(FirstLine(buf)))
                                ELSE UNCHANGED <<frames, queue>>
    /\ UNCHANGED <<cfg, owed, rx, push, query, taken>>

\* The port fails under the producer.
ProducerFails ==
    /\ step = "stream" /\ ~HasLine(buf) /\ ~Blocked
    /\ step' = "failed" /\ buf' = <<>>
    /\ UNCHANGED <<cfg, owed, rx, push, query, stream>>

\* __anext__; the buffer outlives a producer that failed.
Consume ==
    /\ step \in {"stream", "failed"} /\ queue # <<>>
    /\ taken' = Append(taken, Head(queue)) /\ queue' = Tail(queue)
    /\ UNCHANGED <<cfg, step, wire, query, frames>>

\* __aexit__: the producer is cancelled, stop-stream written, the rest of the wire read.
StopStream ==
    /\ step \in {"stream", "failed"}
    /\ step' = "drain" /\ buf' = <<>> /\ queue' = <<>>
    /\ UNCHANGED <<cfg, owed, rx, push, query, frames, taken>>

\* read_available returns after a silence; a device that was slower than that goes on.
Drained ==
    /\ step = "drain"
    /\ rx' = <<>> /\ push' = <<>>
    /\ step' = "idle" /\ left' = (owed # <<>>)
    /\ UNCHANGED <<cfg, owed, buf, cmd, lines, answer, clean, stream>>

-----------------------------------------------------------------------------

Query == Begin \/ Write \/ WriteFails \/ TakeLine \/ Settled \/ TimesOut \/ ReadAborted
Stream ==
    \/ StartStream \/ Pushes \/ TakeFrame \/ ProducerFails \/ Consume \/ StopStream \/ Drained

Next == Arrives \/ Receive \/ Query \/ Stream

Spec == Init /\ [][Next]_vars

-----------------------------------------------------------------------------
\* Properties.

\* A query returns the lines of its own reply, whole and in order, all of them unless
\* the idle timeout cut it: as long as nothing was under way when it began, and either
\* the client drains before it writes or every earlier transaction read its reply to the
\* end.  Without a drain one late reply is enough to answer every later command with
\* the reply before it.
AnswersMatch ==
    (answer.n > 0 /\ answer.clean) =>
        LET r == answer.lines IN
        /\ \A k \in DOMAIN r : r[k] = Line("reply", answer.n, k)
        /\ r # <<>>

\* What the producer makes of the wire reaches the consumer in order, each once; what
\* does not is dropped and counted, and what is buffered is what the policy promises: with
\* DROP_OLDEST the newest frame is there, with BLOCK nothing is dropped.  The device's own
\* frames keep their order among whatever else parsed.  A stream that began with nothing
\* under way gets the device's frames and nothing else, from the first on, without a gap.
FramesHonest ==
    LET all == taken \o queue
        made == frames.made
    IN
    /\ \A i \in 1..(Len(all) - 1) : all[i] < all[i + 1]
    /\ \A i, j \in DOMAIN made : i < j /\ made[i] # 0 /\ made[j] # 0 => made[i] < made[j]
    /\ step = "stream" =>
        /\ Len(all) + frames.dropped = Len(made)
        /\ cfg.policy = "drop_oldest" /\ made # <<>> => Last(all) = Len(made)
        /\ cfg.policy = "block" => frames.dropped = 0
        /\ Len(queue) <= Capacity + (IF cfg.policy = "block" THEN 1 ELSE 0)
    /\ step \in {"stream", "failed"} /\ clean => \A i \in DOMAIN made : made[i] = i

=============================================================================
