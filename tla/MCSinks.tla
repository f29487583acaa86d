------------------------------- MODULE MCSinks -------------------------------
(* Two columns and batches of two rows, for TLC. *)
EXTENDS Sinks

Row(f, g) == ("f" :> f) @@ ("g" :> g)
OnlyF(f) == "f" :> f

\* A plain batch, one whose second row has a column more, one with None and an int among
\* floats, one whose column is a number and a text.
Batches == {
    <<OnlyF("int"), OnlyF("float")>>,
    <<OnlyF("float"), Row("float", "str")>>,
    <<Row("none", "int"), Row("float", "none")>>,
    <<OnlyF("int"), OnlyF("str")>>}

\* No table, one of a single column, one with a text column where numbers come.
Tables == {Unlocked, OnlyF("float"), Row("float", "str")}

=============================================================================
