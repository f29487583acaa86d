------------------------------ MODULE AppendLog ------------------------------
(***************************************************************************)
(* What a sample sink promises to the driver that feeds it: a log that     *)
(* takes whole batches, in the order of the calls, and says yes to a batch *)
(* only when it has all of it.  A sink that cannot roll back may leave the *)
(* beginning of a batch it refused; one that writes a file of its own      *)
(* starts over when it is opened, or with its first batch; one that is not *)
(* durable loses everything with its process.                              *)
(***************************************************************************)
EXTENDS Naturals, Sequences, SequencesExt

CONSTANT Sizes      \* the sizes of a batch

VARIABLES
    log,    \* what is stored
    kept,   \* what the driver was told is stored
    phase,  \* "closed", "fresh" (opened, nothing written) or "open"
    traits  \* what this sink cannot help: torn, rewrites, volatile

Init ==
    /\ log = <<>> /\ kept = <<>> /\ phase = "closed"
    /\ traits \in [torn : BOOLEAN, rewrites : BOOLEAN, volatile : BOOLEAN]

StartsOver == IF traits.rewrites THEN {TRUE, FALSE} ELSE {FALSE}

Open ==
    /\ phase = "closed" /\ phase' # "closed"
    /\ \E over \in StartsOver :
        /\ log' = (IF over THEN <<>> ELSE log)
        /\ kept' = (IF over THEN <<>> ELSE kept)
    /\ UNCHANGED traits

\* A write appends to the log, or to the empty log of a file just begun.
Appends(ok, sizes) ==
    \E over \in IF phase = "fresh" THEN StartsOver ELSE {FALSE} :
        LET old == IF over THEN <<>> ELSE log
            told == IF over THEN <<>> ELSE kept
            batch == SubSeq(log', Len(old) + 1, Len(log'))
        IN  /\ IsPrefix(old, log')
            /\ Len(batch) \in sizes
            /\ kept' = (IF ok THEN told \o batch ELSE told)

Accept ==
    /\ phase # "closed" /\ phase' = "open"
    /\ Appends(TRUE, Sizes)
    /\ UNCHANGED traits

\* A failed write may have been stored whole, its answer lost.
Refuse ==
    /\ phase # "closed" /\ phase' # "closed"
    /\ Appends(FALSE, {0} \cup (IF traits.torn THEN UNION {1..n : n \in Sizes} ELSE Sizes))
    /\ UNCHANGED traits

Close == phase' = "closed" /\ UNCHANGED <<log, kept, traits>>

\* The process dies.
Crash ==
    /\ phase' = "closed"
    /\ \/ UNCHANGED <<log, kept>>
       \/ traits.volatile /\ log' = <<>> /\ kept' = <<>>
    /\ UNCHANGED traits

Next == Open \/ Accept \/ Refuse \/ Close \/ Crash

Spec == Init /\ [][Next]_<<log, kept, phase, traits>>

=============================================================================
