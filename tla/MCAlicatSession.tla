--------------------------- MODULE MCAlicatSession ---------------------------
(* Two tasks, devices on both sides of every cutoff, for TLC. *)
EXTENDS AlicatSession, TLC

CONSTANTS t1, t2

TwoTasks == {t1, t2}
Alike == Permutations(TwoTasks)

Scale == [flow |-> [slpm |-> 2, sccm |-> 3], pressure |-> [slpm |-> 1, sccm |-> 1]]

\* Most data frames have both fields.
Device(firmware, kind, media, caps) ==
    [firmware |-> firmware, kind |-> kind, media |-> media, caps |-> caps, scale |-> "slpm",
     fields |-> IF firmware = LateCutoff THEN {"flow"} ELSE {"flow", "pressure"}]

Everything == {"tareable_absolute", "display", "analog_output", "bidirectional"}

\* In the range of a flow, beyond that of a pressure.
Setpoints == {-2, 2}

Devices ==
    {Device(Parse(FALSE, v[1], v[2]), "flow_controller", {"gas"}, Everything) :
        v \in {<<5, 6>>, <<5, 7>>, <<7, 11>>, <<8, 17>>, <<8, 28>>, <<8, 99>>, <<9, 0>>,
               <<10, 0>>, <<10, 4>>, <<10, 5>>}}
    \cup {Device(Parse(TRUE, 1, 0), "flow_controller", {"gas"}, {"display"}),
          Device(Parse(FALSE, 9, 20), "pressure_controller", {"gas", "liquid"}, {}),
          Device(Parse(FALSE, 10, 20), "flow_meter", {"liquid"}, {"display"}),
          Device(Parse(FALSE, 7, 9), "pressure_meter", {"gas"}, {"display"}),
          Device(Parse(FALSE, 10, 20), "unknown", {"gas", "liquid"}, {})}

=============================================================================
