-------------------------------- MODULE MCWire --------------------------------
(* Single lines, a table of known length and one that ends in a silence, for TLC. *)
EXTENDS Wire

Tables == {[lines |-> 1, max |-> 1, ends |-> FALSE],
           [lines |-> 2, max |-> 4, ends |-> TRUE],
           [lines |-> 2, max |-> 4, ends |-> FALSE]}

=============================================================================
