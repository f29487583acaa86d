---------------------------- MODULE AlicatSession ----------------------------
(***************************************************************************)
(* One device, its Session and the facade over it, used by several tasks:  *)
(* the route a method takes by firmware, the gates of Session.execute in   *)
(* their order, and the caches that a call checks or captures before it    *)
(* waits for the port and that another call's reply changes meanwhile.     *)
(*                                                                         *)
(* Only one client, already proved to serialise transactions, is needed    *)
(* here: a port is the queue of the tasks that wait for their reply.       *)
(* Methods that neither read nor write a cache commute with everything     *)
(* but their own transaction and run on a quiet session.                   *)
(***************************************************************************)
EXTENDS Catalog, Integers, Sequences, FiniteSets

CONSTANTS
    Tasks,      \* coroutines that call the facade
    Profiles,   \* the devices: firmware, kind, media, capabilities, fields of the frame
    Values,     \* set-points
    FullScale,  \* [variable -> [units -> the largest set-point]]
    None        \* no value, not probed

Variables == DOMAIN FullScale
Units == UNION {DOMAIN FullScale[v] : v \in Variables}
Sources == {"S", "A"}

ASSUME SessionAssumption ==
    /\ Values \subseteq Int
    /\ FullScale \in [Variables -> [Units -> Nat]]
    /\ None \notin Units \cup Variables \cup Sources
    /\ \A p \in Profiles :
        /\ p.firmware \in [family : Families, number : Nat]
        /\ p.firmware.family = "GP" => p.firmware = GP
        /\ p.scale \in Units /\ p.fields \subseteq Variables

VARIABLES
    info,       \* Session._info: one of the Profiles, with the units of its full_scale
    dev,        \* the device: units, set-point source, loop-control variable
    cache,      \* _data_frame_format (its units), _setpoint_source, _loop_control_variable,
                \* and `ranged`, the keys of DeviceInfo.full_scale
    line,       \* tasks on the port, the first one is being served
    job,        \* what a task sent, and what it took from the cache before it waited
    doubt       \* history: a change was sent and its reply was lost

vars == <<info, dev, cache, line, job, doubt>>

-----------------------------------------------------------------------------
\* The gates of Session.execute.

InRange(c) ==
    /\ ~Older(info.firmware, c.since)
    /\ ~(Comparable(info.firmware, c.until) /\ info.firmware.number > c.until.number)

FirmwareOpen(c) == info.firmware.family \in c.families /\ InRange(c)

HardwareOpen(c) ==
    /\ info.kind \in c.kinds
    /\ c.media \cap info.media # {}
    /\ c.needs \subseteq info.caps

\* The request carries the confirmation.
Passes(c, confirmed) == FirmwareOpen(c) /\ HardwareOpen(c) /\ (c.confirm => confirmed)

-----------------------------------------------------------------------------
\* The facade's routes.

\* Mutant: the cutoff itself is left to the legacy command.
UsesModernGas_After(fw) == fw.family = "V10" /\ fw.number > LateCutoff.number

UsesModernGas(fw) == NotOlder(fw, LateCutoff)

UsesModernSetpoint(fw) == fw.family = "V10" \/ NotOlder(fw, Setpoint.since)

\* Device.gas and setpoint pick the command; without a modern one there is no query.
Route(method, query) ==
    LET modern == IF method = "gas" THEN UsesModernGas(info.firmware)
                                    ELSE UsesModernSetpoint(info.firmware)
        legacy == IF method = "gas" THEN "gas_select_legacy" ELSE "setpoint_legacy"
    IN  IF modern THEN IF method = "gas" THEN "gas_select" ELSE "setpoint"
                  ELSE IF query THEN None ELSE legacy

\* What the facade puts back into a result whose reply does not carry it.
Fills(name) ==
    CASE name \in {"engineering_units", "full_scale_query"} -> {"statistic"}
      [] name = "average_timing" -> {"statistic"}
      [] name \in {"stp_ntp_pressure", "stp_ntp_temperature"} -> {"mode"}
      [] name = "analog_output_source" -> {"channel"}
      [] name = "user_data" -> {"slot"}
      [] name = "totalizer_config" -> {"totalizer"}
      [] OTHER -> {}

\* poll, tares, holds, resets and display locks look the format up first.
LooksUp(name) == Commands[name].framed /\ name \notin {"gas_select_legacy", "setpoint_legacy"}

\* These change what another call may have cached.
Changes == {"engineering_units", "setpoint_source", "loop_control_variable"}
Cached == Changes \cup {"setpoint", "setpoint_legacy", "poll_data"}
Plain == DOMAIN Commands \ Cached

-----------------------------------------------------------------------------
\* The device (external).

LTokens == {"L", "LS", "LSS", "LV", "LCDB"}

\* The commands a device takes a token with n arguments for.  1v to 7v firmware locks
\* its display at any token that begins with L.
Interprets(token, prefixed, n) ==
    IF info.firmware.family = "V1_V7" /\ token \in LTokens THEN {"lock_display"}
    ELSE {name \in DOMAIN Commands :
            LET c == Commands[name] IN
            /\ c.token = token /\ n \in c.asks \cup c.sets
            /\ FirmwareOpen(c)
            /\ prefixed = (info.firmware = GP /\ ~c.bare)}

\* What a set does to it.  A set-point from the serial port is ignored while the
\* source is analog; nothing here depends on its value.
Effect(name, arg) ==
    [dev EXCEPT
        !.units = IF name = "engineering_units" THEN arg ELSE @,
        !.source = IF name = "setpoint_source" THEN arg ELSE @,
        !.lv = IF name = "loop_control_variable" THEN arg ELSE @]

-----------------------------------------------------------------------------
Unread == [fmt |-> None, source |-> None, lv |-> None, ranged |-> {}]
With(fmt) == [Unread EXCEPT !.fmt = fmt]
Idle ==
    [step |-> "idle", name |-> None, arg |-> None, n |-> 0, seen |-> Unread, crossed |-> FALSE]

\* What open_device leaves in the cache.  LV, and FPF of each field of the data frame, are
\* probed where the gates let them, as best they can: a lost or refused reply leaves out a
\* range, or the variable.
Probed ==
    {[fmt |-> info.scale, source |-> None, lv |-> lv, ranged |-> ranged] :
        lv \in {None} \cup (IF FirmwareOpen(LoopControlVariable)
                                 /\ HardwareOpen(LoopControlVariable)
                            THEN {dev.lv} ELSE {}),
        ranged \in IF FirmwareOpen(FullScaleQuery) THEN SUBSET info.fields ELSE {{}}}

Init ==
    /\ info \in Profiles
    /\ dev \in [units : {info.scale}, source : Sources, lv : Variables]
    /\ cache \in Probed
    /\ line = <<>>
    /\ job = [t \in Tasks |-> Idle]
    /\ doubt = FALSE

\* What a call keeps from before it waited: a framed reply the format it is decoded with, a
\* set-point also what it was checked against.
Captured(name) ==
    LET fmt == IF Commands[name].framed THEN cache.fmt ELSE None
    IN  IF name \in {"setpoint", "setpoint_legacy"} THEN [cache EXCEPT !.fmt = fmt]
                                                   ELSE With(fmt)

\* A transaction is queued.
Enqueue(t, step, name, arg, n) ==
    /\ line' = Append(line, t)
    /\ job' = [job EXCEPT ![t] = [step |-> step, name |-> name, arg |-> arg, n |-> n,
                                  seen |-> Captured(name), crossed |-> FALSE]]
    /\ UNCHANGED <<info, dev, cache, doubt>>

\* Session.execute, or Session.refresh_data_frame_format before it.
Send(t, name, arg, n, confirmed) ==
    /\ job[t].step = "idle"
    /\ IF LooksUp(name) /\ cache.fmt = None
       THEN Enqueue(t, "format", name, arg, n)
       ELSE Passes(Commands[name], confirmed) /\ Enqueue(t, "sent", name, arg, n)

\* A method that uses no cache but, for a framed reply, the format.
CallPlain(t) ==
    \E name \in Plain : \E n \in Commands[name].asks \cup Commands[name].sets :
        /\ line = <<>>
        /\ Send(t, name, None, n, TRUE)

Poll(t) == Send(t, "poll_data", None, 0, FALSE)

\* engineering_units, setpoint_source, loop_control_variable: query or set.
Change(t) ==
    \E name \in Changes :
        LET c == Commands[name]
            options == CASE name = "engineering_units" -> Units
                         [] name = "setpoint_source" -> Sources
                         [] OTHER -> Variables
        IN  \/ \E n \in c.asks : Send(t, name, None, n, FALSE)
            \/ \E n \in c.sets, arg \in options : Send(t, name, arg, n, FALSE)

Bidirectional == "bidirectional" \in info.caps

\* The check is skipped when the loop's variable or its full scale is not known.
InFullScale(value) ==
    cache.lv \in cache.ranged =>
        LET top == FullScale[cache.lv][info.scale]
        IN  (IF Bidirectional THEN -top ELSE 0) <= value /\ value <= top

\* Mutant: the source is not looked at.
Allowed_Unsourced(value) == (value < 0 => Bidirectional) /\ InFullScale(value)

\* _validate_setpoint_preconditions: the sign, the cached source, the range found at open.
Allowed(value) ==
    /\ value < 0 => Bidirectional
    /\ cache.source # "A"
    /\ InFullScale(value)

SetSetpoint(t) ==
    \E value \in Values :
        /\ Allowed(value)
        /\ Route("setpoint", FALSE) # None
        /\ Send(t, Route("setpoint", FALSE), value, 1, FALSE)

\* The task's transaction is over; a change that took effect crosses those still queued.
Over(t, changed) ==
    /\ line' = Tail(line)
    /\ job' = [u \in Tasks |->
                IF u = t THEN Idle
                ELSE [job[u] EXCEPT !.crossed = @ \/ (changed /\ job[u].step # "idle")]]

Served(t) == line # <<>> /\ Head(line) = t

\* refresh_data_frame_format stores the format, and the method goes on to its command.
FormatRead(t) ==
    /\ Served(t) /\ job[t].step = "format"
    /\ cache' = [cache EXCEPT !.fmt = dev.units]
    /\ IF Passes(Commands[job[t].name], TRUE)
       THEN /\ line' = Append(Tail(line), t)
            /\ job' = [job EXCEPT ![t].step = "sent", ![t].seen = With(dev.units),
                                  ![t].crossed = FALSE]
       ELSE Over(t, FALSE)
    /\ UNCHANGED <<info, dev, doubt>>

\* Mutant: the format outlives a change of the units.
Learns_KeepsFormat(name, arg) ==
    [cache EXCEPT
        !.source = IF name = "setpoint_source" THEN dev'.source ELSE @,
        !.lv = IF name = "loop_control_variable" THEN dev'.lv ELSE @]

\* What the facade stores of a reply, queries included.
Learns(name, arg) ==
    [cache EXCEPT
        !.fmt = IF name = "engineering_units" /\ arg # None THEN None ELSE @,
        !.source = IF name = "setpoint_source" THEN dev'.source ELSE @,
        !.lv = IF name = "loop_control_variable" THEN dev'.lv ELSE @]

\* The device acts and answers; decoding, the lock's release and the cache update
\* follow without an await.
Answered(t) ==
    LET name == job[t].name
        changed == name \in Changes /\ job[t].arg # None
    IN  /\ Served(t) /\ job[t].step = "sent"
        /\ dev' = IF changed THEN Effect(name, job[t].arg) ELSE dev
        /\ cache' = Learns(name, job[t].arg)
        /\ Over(t, changed)
        /\ UNCHANGED <<info, doubt>>

\* No reply in time; the device may have done it.
Lost(t) ==
    LET name == job[t].name
        change == job[t].step = "sent" /\ name \in Changes /\ job[t].arg # None
    IN  /\ Served(t)
        /\ \/ dev' = dev
           \/ change /\ dev' = Effect(name, job[t].arg)
        /\ doubt' = (doubt \/ change)
        /\ Over(t, change)
        /\ UNCHANGED <<info, cache>>

Next ==
    \E t \in Tasks :
        \/ CallPlain(t) \/ Poll(t) \/ Change(t) \/ SetSetpoint(t)
        \/ FormatRead(t) \/ Answered(t) \/ Lost(t)

Spec == Init /\ [][Next]_vars

-----------------------------------------------------------------------------
\* Properties.

\* Tokens are short and reused (T and T n, TP and TP n), firmware reads them its own way,
\* and a forgotten gate would lock a display for a set-point: what the gates let through
\* the device takes for the command that was meant, a query never for a set, and the
\* caller is told what the reply is about even where the reply does not say.
Understood ==
    \A t \in Tasks : job[t].step = "sent" =>
        LET c == Commands[job[t].name]
            prefixed == info.firmware = GP /\ ~c.bare
        IN  /\ Interprets(c.token, prefixed, job[t].n) = {job[t].name}
            /\ c.asks \cap c.sets = {}
            /\ c.lacks = Fills(job[t].name)

\* The facade's choice between a modern and a legacy command and the firmware gates of
\* those commands are written in different places: gas() and setpoint() are never
\* refused by the firmware gate of their own choice.  GP set-points are: the docstring of
\* uses_modern_setpoint sends them to S, whose families leave GP out.
RoutesOpen ==
    \A method \in {"gas", "setpoint"}, query \in BOOLEAN :
        LET name == Route(method, query) IN
        name # None /\ ~(method = "setpoint" /\ info.firmware = GP)
            => FirmwareOpen(Commands[name])

\* A reading is labelled with the units its values have, unless a change of another
\* task was answered while it waited, or the reply of a change was lost.
LabelsTrue ==
    [][\A t \in Tasks :
        (Answered(t) /\ Commands[job[t].name].framed /\ ~job[t].crossed /\ ~doubt)
            => job[t].seen.fmt = dev.units]_vars

\* A set-point the facade let through is not negative on a device that takes no negative
\* one; it finds the device on a serial source if the source had been asked for, and
\* within the range of the loop's variable if the variable and its full scale were known:
\* unless another task's change was answered while it waited, a change's reply was lost,
\* or the units are not the ones the range was read in when the device was opened.
SetpointSound ==
    [][\A t \in Tasks :
        LET j == job[t]
            top == FullScale[dev.lv][dev.units]
        IN  (Answered(t) /\ j.name \in {"setpoint", "setpoint_legacy"} /\ j.arg # None
                /\ ~j.crossed /\ ~doubt)
            => /\ j.arg < 0 => Bidirectional
               /\ j.seen.source # None => dev.source # "A"
               /\ j.seen.lv \in j.seen.ranged /\ dev.units = info.scale =>
                    (IF Bidirectional THEN -top ELSE 0) <= j.arg /\ j.arg <= top]_vars

=============================================================================
