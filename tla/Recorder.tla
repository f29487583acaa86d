------------------------------- MODULE Recorder -------------------------------
(***************************************************************************)
(* record() of streaming/recorder.py and pipe() of sinks/base.py: a        *)
(* producer polls the manager at an absolute cadence and publishes one     *)
(* batch per tick into a bounded stream; pipe drains the stream into a     *)
(* sink with buffered flushes.  A sample is the number of its tick, a      *)
(* batch the samples of the devices that answered that tick.               *)
(*                                                                         *)
(* The application runs pipe in the body of record's context manager and   *)
(* leaves when pipe returns or raises.                                     *)
(***************************************************************************)
EXTENDS Integers, Sequences, SequencesExt

CONSTANTS
    Devices,        \* how many devices a poll asks
    Period,         \* time between two ticks
    Totals,         \* durations in ticks that record may be given; 0 is None
    Policies,       \* the overflow policies it may be given
    Capacity,       \* buffer_size
    BatchSize,      \* batch_size
    FlushInterval,  \* flush_interval
    MaxTime,        \* the clock stops here
    Failures        \* what may go wrong: "poll", "write", "cancel"

ASSUME RecorderAssumption ==
    /\ {Period, Capacity, BatchSize, FlushInterval} \subseteq Nat \ {0}
    /\ {Devices, MaxTime} \subseteq Nat
    /\ Totals \subseteq Nat
    /\ Policies \subseteq {"block", "drop_newest"}
    /\ Failures \subseteq {"poll", "write", "cancel"}

VARIABLES
    now,    \* anyio.current_time() - start
    call,   \* the arguments of record: total (ticks), policy
    prod,   \* _run_producer: the await it is at, its tick, the batch in hand, requested_at
    queue,  \* the batches in the memory stream
    sum,    \* the recorder's summary: emitted, late
    pipe,   \* pipe: the await it is at, its buffer, last_flush, now, its summary's count
    sink,   \* the samples the sink has stored
    body,   \* the async with: open, leaving, closed
    sent    \* history: the batches the stream has accepted

vars == <<now, call, prod, queue, sum, pipe, sink, body, sent>>

-----------------------------------------------------------------------------

Polling == {"sleep", "poll", "send", "sent"}
Ended == {"done", "failed", "cancelled"}
\* Mutant: the producer ends without closing its side of the stream.
Closed_Never == FALSE

\* send_stream.aclose has run; a raising producer is not over yet.
Closed == prod.stage \in Ended \cup {"failing"}

\* The task group's scope: cancelled by the exit of the body and by a child that raised.
ScopeCancelled == body = "leaving" \/ prod.stage = "failed"

\* Mutant: an overrun is caught up, slot by slot.
Missed_Never(k) == 0

\* The slots a producer that overran by more than a period skips.
Missed(k) ==
    IF now > k * Period + Period THEN (now - k * Period) \div Period ELSE 0

\* The top of the producer's loop, up to its next await.
Advance(k, emitted, late) ==
    LET next == k + Missed(k)
        stage == IF now < next * Period THEN "sleep" ELSE "poll"
        over == call.total # 0 /\ k >= call.total
    IN  /\ prod' = [stage |-> IF over THEN "done" ELSE stage,
                    tick |-> IF over THEN k ELSE next,
                    batch |-> <<>>,
                    at |-> IF ~over /\ stage = "poll" THEN now ELSE 0]
        /\ sum' = [emitted |-> emitted,
                   late |-> IF over THEN late ELSE late + Missed(k)]

Init ==
    /\ now = 0
    /\ call \in [total : Totals, policy : Policies]
    /\ prod = [stage |-> "poll", tick |-> 0, batch |-> <<>>, at |-> 0]
    /\ queue = <<>>
    /\ sum = [emitted |-> 0, late |-> 0]
    /\ pipe = [stage |-> "receive", buf |-> <<>>, last |-> 0, due |-> 0, count |-> 0]
    /\ sink = <<>>
    /\ body = "open"
    /\ sent = <<>>

-----------------------------------------------------------------------------
\* The clock.  Time does not pass while the event loop owes a sleeper its wake-up.

Overdue == prod.stage = "sleep" /\ now >= prod.tick * Period

Tick ==
    /\ now < MaxTime /\ body # "closed"
    /\ ~Overdue
    /\ now' = now + 1
    /\ UNCHANGED <<call, prod, queue, sum, pipe, sink, body, sent>>

-----------------------------------------------------------------------------
\* The producer.

Wake ==
    /\ Overdue
    /\ prod' = [prod EXCEPT !.stage = "poll", !.at = now]
    /\ UNCHANGED <<now, call, queue, sum, pipe, sink, body, sent>>

\* Mutant: one batch too many.
Full_Late == Len(queue) > Capacity

\* send_nowait would block.
Full == Len(queue) >= Capacity

\* source.poll answers for some of the devices; the batch is published.
PollReturns ==
    /\ prod.stage = "poll"
    /\ \E n \in 0..Devices :
        LET batch == [i \in 1..n |-> prod.tick] IN
        \/ /\ ~Full
           /\ queue' = Append(queue, batch)
           /\ sent' = Append(sent, batch)
           /\ Advance(prod.tick + 1, sum.emitted + 1, sum.late)
        \/ /\ Full /\ call.policy = "block"
           /\ prod' = [prod EXCEPT !.stage = "send", !.batch = batch, !.at = 0]
           /\ UNCHANGED <<queue, sent, sum>>
        \/ /\ Full /\ call.policy = "drop_newest"
           /\ Advance(prod.tick + 1, sum.emitted, sum.late + 1)
           /\ UNCHANGED <<queue, sent>>
    /\ UNCHANGED <<now, call, pipe, sink, body>>

\* Mutant: a batch that had to wait for room is not counted.
SendReturns_Uncounted ==
    /\ prod.stage = "sent"
    /\ Advance(prod.tick + 1, sum.emitted, sum.late)
    /\ UNCHANGED <<now, call, queue, pipe, sink, body, sent>>

\* send returns: the consumer made room and took the batch of the blocked producer.
SendReturns ==
    /\ prod.stage = "sent"
    /\ Advance(prod.tick + 1, sum.emitted + 1, sum.late)
    /\ UNCHANGED <<now, call, queue, pipe, sink, body, sent>>

\* source.poll raises; the finally closes the stream before the task group hears of it.
PollRaises ==
    /\ "poll" \in Failures
    /\ prod.stage = "poll"
    /\ prod' = [prod EXCEPT !.stage = "failing"]
    /\ UNCHANGED <<now, call, queue, sum, pipe, sink, body, sent>>

ProducerFailed ==
    /\ prod.stage = "failing"
    /\ prod' = [prod EXCEPT !.stage = "failed"]
    /\ UNCHANGED <<now, call, queue, sum, pipe, sink, body, sent>>

\* The cancellation reaches the producer at its await; a batch still in hand is gone.
ProducerCancelled ==
    /\ ScopeCancelled
    /\ prod.stage \in Polling
    /\ prod' = [prod EXCEPT !.stage = "cancelled"]
    /\ UNCHANGED <<now, call, queue, sum, pipe, sink, body, sent>>

-----------------------------------------------------------------------------
\* pipe.

\* Mutant: the buffer keeps batch_size samples, the rest of a batch is dropped.
Buffered_Capped(buf) ==
    LET full == Len(buf) >= BatchSize IN
    pipe' = [pipe EXCEPT !.buf = IF full THEN SubSeq(buf, 1, BatchSize) ELSE buf,
                         !.stage = IF full THEN "write" ELSE "receive",
                         !.due = IF full THEN now ELSE 0]

\* After a batch: flush when a threshold is crossed, and there is something to flush.
Buffered(buf) ==
    LET due == Len(buf) >= BatchSize \/ now - pipe.last >= FlushInterval IN
    pipe' = [pipe EXCEPT !.buf = buf,
                         !.stage = IF due /\ buf # <<>> THEN "write" ELSE "receive",
                         !.due = IF due /\ buf # <<>> THEN now ELSE 0,
                         !.last = IF due /\ buf = <<>> THEN now ELSE pipe.last]

\* The stream hands out its oldest batch and admits that of a blocked sender.
Receive ==
    /\ pipe.stage = "receive" /\ ~ScopeCancelled
    /\ queue # <<>>
    /\ IF prod.stage = "send"
       THEN /\ queue' = Append(Tail(queue), prod.batch)
            /\ sent' = Append(sent, prod.batch)
            /\ prod' = [prod EXCEPT !.stage = "sent", !.batch = <<>>]
       ELSE /\ queue' = Tail(queue)
            /\ UNCHANGED <<sent, prod>>
    /\ Buffered(pipe.buf \o Head(queue))
    /\ UNCHANGED <<now, call, sum, sink, body>>

WriteReturns ==
    /\ pipe.stage \in {"write", "final"}
    /\ sink' = sink \o pipe.buf
    /\ pipe' = [pipe EXCEPT !.stage = IF @ = "final" THEN "done" ELSE "receive",
                            !.buf = <<>>,
                            !.last = IF pipe.stage = "final" THEN @ ELSE pipe.due,
                            !.due = 0,
                            !.count = @ + Len(pipe.buf)]
    /\ UNCHANGED <<now, call, prod, queue, sum, body, sent>>

\* Mutant: the leftover buffer is not flushed.
EndOfStream_Unflushed ==
    /\ pipe.stage = "receive"
    /\ queue = <<>> /\ Closed
    /\ pipe' = [pipe EXCEPT !.stage = "done"]
    /\ UNCHANGED <<now, call, prod, queue, sum, sink, body, sent>>

\* The stream is exhausted: what is left in the buffer is flushed before pipe returns.
EndOfStream ==
    /\ pipe.stage = "receive"
    /\ queue = <<>> /\ Closed
    /\ pipe' = [pipe EXCEPT !.stage = IF pipe.buf = <<>> THEN "done" ELSE "final"]
    /\ UNCHANGED <<now, call, prod, queue, sum, sink, body, sent>>

\* Mutant: the samples are counted before they are written.
Raise_Counted ==
    /\ pipe.stage \in {"receive", "write", "final"}
    /\ pipe' = [pipe EXCEPT !.stage = "raised", !.count = @ + Len(pipe.buf)]
    /\ UNCHANGED <<now, call, prod, queue, sum, sink, body, sent>>

\* An exception ends pipe at its await; a write may have stored some of its rows.
Raise ==
    /\ pipe.stage \in {"receive", "write", "final"}
    /\ pipe' = [pipe EXCEPT !.stage = "raised"]
    /\ \E n \in IF pipe.stage = "receive" THEN {0} ELSE 0..Len(pipe.buf) :
        sink' = sink \o SubSeq(pipe.buf, 1, n)
    /\ UNCHANGED <<now, call, prod, queue, sum, body, sent>>

\* sink.write_many raises.
WriteRaises == "write" \in Failures /\ pipe.stage \in {"write", "final"} /\ Raise

\* The producer raised: the task group cancels the body.
BodyCancelled == ScopeCancelled /\ Raise

\* The application stops: a timeout around pipe, Ctrl-C.
Interrupted == "cancel" \in Failures /\ Raise

-----------------------------------------------------------------------------
\* The context manager.

Leave ==
    /\ body = "open"
    /\ pipe.stage \in {"done", "raised"}
    /\ body' = "leaving"
    /\ UNCHANGED <<now, call, prod, queue, sum, pipe, sink, sent>>

Joined ==
    /\ body = "leaving"
    /\ prod.stage \in Ended
    /\ body' = "closed"
    /\ UNCHANGED <<now, call, prod, queue, sum, pipe, sink, sent>>

Terminated == body = "closed" /\ UNCHANGED vars

-----------------------------------------------------------------------------

Produce == Wake \/ PollReturns \/ SendReturns \/ ProducerFailed \/ ProducerCancelled
Drain == Receive \/ WriteReturns \/ EndOfStream \/ BodyCancelled
Exit == Leave \/ Joined

Next ==
    \/ Tick
    \/ Produce
    \/ Drain
    \/ Exit
    \/ PollRaises \/ WriteRaises \/ Interrupted
    \/ Terminated

Spec == Init /\ [][Next]_vars
LiveSpec ==
    Spec /\ WF_vars(Tick) /\ WF_vars(Produce) /\ WF_vars(Drain) /\ WF_vars(Exit)

-----------------------------------------------------------------------------
\* Properties.

Sample == Nat
Batch == Seq(Sample)

\* Types; the stream never holds more than buffer_size batches, and only a producer
\* blocked in send has a batch in hand.
TypeOK ==
    /\ now \in 0..MaxTime
    /\ call \in [total : Totals, policy : Policies]
    /\ prod \in [stage : Polling \cup Ended \cup {"failing"}, tick : Nat,
                 batch : Batch, at : Nat]
    /\ queue \in Seq(Batch) /\ Len(queue) <= Capacity
    /\ sum \in [emitted : Nat, late : Nat]
    /\ pipe \in [stage : {"receive", "write", "final", "done", "raised"},
                 buf : Seq(Sample), last : Nat, due : Nat, count : Nat]
    /\ sink \in Seq(Sample)
    /\ body \in {"open", "leaving", "closed"}
    /\ sent \in Seq(Batch)
    /\ prod.stage \notin {"send", "cancelled"} => prod.batch = <<>>

\* Every tick that passed is either emitted or late, through skips, drops and blocked
\* sends; and emitted is the number of batches the stream accepted, short by at most
\* the one whose sender was cancelled between its acceptance and its resumption.
SlotsAccounted ==
    /\ sum.emitted + sum.late = prod.tick
    /\ Len(sent) - sum.emitted \in CASE prod.stage = "sent" -> {1}
                                     [] prod.stage = "cancelled" -> {0, 1}
                                     [] OTHER -> {0}

\* However long polls and blocked sends take, a poll for slot k starts neither before
\* its target nor more than a period after it: the cadence neither drifts nor bursts.
OnSchedule ==
    prod.stage = "poll" =>
        /\ prod.at >= prod.tick * Period
        /\ prod.at <= (prod.tick + 1) * Period

\* Until pipe raises, every sample the stream accepted is in the sink, in pipe's buffer
\* or in the stream, in the order of the polls, once.
NothingLost ==
    pipe.stage # "raised" =>
        sink \o pipe.buf \o FlattenSeq(queue) = FlattenSeq(sent)

\* Whatever raised, the sink holds a prefix of what was recorded, and pipe's summary
\* claims no sample that the sink has not stored.
CountHonest ==
    /\ IsPrefix(sink, FlattenSeq(sent))
    /\ pipe.count <= Len(sink)
    /\ pipe.stage # "raised" => pipe.count = Len(sink)

\* When pipe returns, the recording is over and the sink has all of it.
ReturnMeansWritten ==
    pipe.stage = "done" => Closed /\ sink = FlattenSeq(sent)

\* A recording with a duration ends, and so does one whose body has been left, with a
\* producer blocked on a full stream too.
RecordingEnds ==
    call.total # 0 \/ body = "leaving" ~> body = "closed"

=============================================================================
