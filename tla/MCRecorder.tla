------------------------------ MODULE MCRecorder ------------------------------
(* Recordings of a few ticks, for TLC. *)
EXTENDS Recorder

\* record is called with duration=None, and for two and for three ticks.
Durations == {0, 2, 3}

=============================================================================
