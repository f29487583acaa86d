------------------------------ MODULE MCOpening ------------------------------
(* Four devices on two ports, opened in every way and searched for, for TLC. *)
EXTENDS Opening

Device(port, id, speed, streams, firmware, model, sheet, caps) ==
    [port |-> port, id |-> id, home |-> id, rate |-> speed, streams |-> streams,
     firmware |-> firmware, model |-> model, sheet |-> sheet, caps |-> caps]

Full == {"model", "software"}
New == Parse(FALSE, 10, 20)
Old == Parse(FALSE, 7, 9)

\* The first device of a bus is the one most calls mean.
FirstOnes ==
    {Device("p1", "A", 1, s, New, "MC-", Full, {"barometer", "display"}) : s \in BOOLEAN}
    \cup {Device("p1", "A", 1, FALSE, New, "PCH-", {"model"}, {"secondary_pressure"}),
          Device("p1", "A", 1, FALSE, New, "other", {"software"}, {}),
          Device("p1", "A", 1, FALSE, Old, "M-", None, {}),
          Device("p1", "A", 1, FALSE, GP, "MC-", {"model"}, {}),
          Device("p1", "A", 1, FALSE, GP, "other", None, {})}

SecondOnes == {Device("p1", "B", 1, s, Parse(FALSE, 9, 0), "PCD-", Full, {}) : s \in BOOLEAN}

Third == Device("p2", "A", 2, FALSE, New, "LC-", Full, {})

AJob(how, port, id, speed, recover, hint, caps, media) ==
    [how |-> how, port |-> port, id |-> id, rate |-> speed, recover |-> recover,
     hint |-> hint, caps |-> caps, media |-> media]
Probe(port, id, speed) == AJob("probe", port, id, speed, FALSE, None, {}, None)

\* A device alone, or with another on its bus.
Opens ==
    {[devs |-> devices, jobs |-> <<AJob(how, "p1", id, 1, recover, hint[1], {"display"}, hint[2])>>,
      stop |-> FALSE, slots |-> 1] :
        devices \in {<<f>> : f \in FirstOnes} \cup (FirstOnes \X SecondOnes),
        how \in {"path", "transport", "client"}, id \in {"A", "B"}, recover \in BOOLEAN,
        hint \in {<<None, None>>, <<"M-", None>>, <<None, {"gas"}>>}}

\* Two rates on a port, then two ids on it and another port.
Searches ==
    {[devs |-> <<f, s, Third>>, jobs |-> jobs, stop |-> stop, slots |-> slots] :
        f \in FirstOnes, s \in SecondOnes, stop \in BOOLEAN, slots \in 1..2,
        jobs \in {<<Probe("p1", "A", 2), Probe("p1", "A", 1), Probe("p1", "B", 1)>>,
                  <<Probe("p1", "B", 1), Probe("p2", "A", 1), Probe("p2", "A", 2)>>}}

AllScenarios == Opens \cup Searches

=============================================================================
