------------------------------- MODULE Catalog -------------------------------
(***************************************************************************)
(* The command catalogue of commands/: what each Command declares, the     *)
(* forms its encode can put on the wire, and how many fields of a reply    *)
(* its decode takes.  Pure definitions; AlicatSession executes them.       *)
(*                                                                         *)
(* A form is the number of arguments after the token.  `asks` are the      *)
(* forms that only query, `sets` those that change something.  `fields`    *)
(* are the reply lengths decode accepts; a framed reply is a data frame    *)
(* and needs the session's format.  `lacks` names what the reply does not  *)
(* carry, and decode fills with a placeholder.                             *)
(***************************************************************************)
EXTENDS Naturals

-----------------------------------------------------------------------------
\* Firmware, kinds, media, capabilities.

Numeric == {"V1_V7", "V8_V9", "V10"}
Families == {"GP"} \cup Numeric

\* major and minor as one number: versions of a family compare numerically.
Version(family, major, minor) == [family |-> family, number |-> 100 * major + minor]
GP == Version("GP", 0, 0)

\* FirmwareVersion.parse: a GP mark wins over digits, else the major decides.
Parse(gp, major, minor) ==
    IF gp THEN GP
    ELSE Version(IF major <= 7 THEN "V1_V7" ELSE IF major <= 9 THEN "V8_V9" ELSE "V10",
                 major, minor)

\* __lt__ and its kin raise TypeError across families.
Comparable(f, g) == f.family = g.family
Older(f, g) == Comparable(f, g) /\ f.number < g.number
NotOlder(f, g) == Comparable(f, g) /\ f.number >= g.number

FlowKinds == {"flow_meter", "flow_controller"}
Controllers == {"flow_controller", "pressure_controller"}
AllKinds == FlowKinds \cup Controllers \cup {"pressure_meter", "unknown"}
KnownKinds == AllKinds \ {"unknown"}
AllMedia == {"gas", "liquid"}

-----------------------------------------------------------------------------
\* Commands.

Unbounded == Version("none", 0, 0)

\* The defaults of the dataclass.
Command(token, kinds, asks, sets, fields) ==
    [token |-> token, kinds |-> kinds, asks |-> asks, sets |-> sets, fields |-> fields,
     media |-> AllMedia, needs |-> {}, families |-> Families,
     since |-> Unbounded, until |-> Unbounded,
     confirm |-> FALSE, framed |-> FALSE, bare |-> FALSE, lacks |-> {}]

\* The same, answered by the data frame after the operation.
Framed(token, kinds, asks, sets) ==
    [Command(token, kinds, asks, sets, {}) EXCEPT !.framed = TRUE]

Since(c, families, family, major, minor) ==
    [c EXCEPT !.families = families, !.since = Version(family, major, minor)]

LateCutoff == Version("V10", 10, 5)
Late(c) == Since(c, {"V10"}, "V10", 10, 5)
Modern == {"V8_V9", "V10"}

Ve == Command("VE", AllKinds, {0}, {}, {2, 3})
ManufacturingInfo == [Command("??M*", AllKinds, {0}, {}, {10}) EXCEPT !.bare = TRUE]
DataFrameFormat == [Command("??D*", AllKinds, {0}, {}, 1..64) EXCEPT !.bare = TRUE]

PollData == [Framed("", AllKinds, {0}, {}) EXCEPT !.bare = TRUE]
RequestData == [Command("DV", AllKinds, 2..14, {}, 1..13) EXCEPT !.families = Numeric]

\* The limit keeps 10v05 and later away from G; every other family passes it.
GasSelectLegacy ==
    [Framed("G", FlowKinds, {}, {1}) EXCEPT !.media = {"gas"}, !.until = Version("V10", 10, 4)]
GasSelect == [Late(Command("GS", FlowKinds, {0}, {1, 2}, {4})) EXCEPT !.media = {"gas"}]
GasList == [Command("??G*", FlowKinds, {0}, {}, 1..256) EXCEPT !.media = {"gas"}, !.bare = TRUE]

EngineeringUnits ==
    [Late(Command("DCU", AllKinds, {1}, {2, 3, 4}, {3})) EXCEPT !.lacks = {"statistic"}]
FullScaleQuery ==
    [Command("FPF", AllKinds, {1}, {}, {4}) EXCEPT
        !.lacks = {"statistic"}, !.families = Numeric]

TareFlow == [Framed("T", FlowKinds, {}, {0}) EXCEPT !.families = Numeric]
TareGaugePressure == [Framed("TP", KnownKinds, {}, {0}) EXCEPT !.families = Numeric]
TareAbsolutePressure ==
    [Framed("PC", KnownKinds, {}, {0}) EXCEPT
        !.families = Numeric, !.needs = {"tareable_absolute"}]
AutoTare == Late(Command("ZCA", Controllers, {0}, {1, 2}, {3}))
PowerUpTare == Late(Command("ZCP", AllKinds, {0}, {1}, {2}))

ZeroBand == Late(Command("DCZ", AllKinds, {0}, {2}, {3}))
AverageTiming ==
    [Late(Command("DCA", AllKinds, {1}, {2}, {2, 3})) EXCEPT !.lacks = {"statistic"}]
StpNtp(token) ==
    [Late(Command(token, FlowKinds, {1}, {3}, {4})) EXCEPT
        !.media = {"gas"}, !.lacks = {"mode"}]
StpNtpPressure == StpNtp("DCFRP")
StpNtpTemperature == StpNtp("DCFRT")

AnalogOutputSource ==
    [Late(Command("ASOCV", AllKinds, {1}, {2, 3}, {4})) EXCEPT
        !.needs = {"analog_output"}, !.lacks = {"channel"}]

BlinkDisplay ==
    [Since(Command("FFP", AllKinds, {0}, {1}, {2}), Modern, "V8_V9", 8, 28) EXCEPT
        !.needs = {"display"}]
LockDisplay == [Framed("L", AllKinds, {}, {0}) EXCEPT !.needs = {"display"}]
UnlockDisplay == Framed("U", AllKinds, {}, {0})

\* An empty value ends in a blank: on the wire it is the query.
UserData ==
    [Since(Command("UD", AllKinds, {1}, 2..5, 1..6), Modern, "V8_V9", 8, 24) EXCEPT
        !.lacks = {"slot"}]

TotalizerConfig ==
    [Since(Command("TC", FlowKinds, {1}, {2, 6}, {6, 7}), {"V10"}, "V10", 10, 0) EXCEPT
        !.lacks = {"totalizer"}]
Resets(token) ==
    [Since(Framed(token, FlowKinds, {}, {1}), Modern, "V8_V9", 8, 0) EXCEPT !.confirm = TRUE]
TotalizerReset == Resets("T")
TotalizerResetPeak == Resets("TP")
TotalizerSave == Late(Command("TCR", FlowKinds, {0}, {1}, {2}))

Setpoint == Since(Command("LS", Controllers, {0}, {1}, {5}), Modern, "V8_V9", 9, 0)
SetpointLegacy ==
    [Framed("S", Controllers, {}, {1}) EXCEPT
        !.families = {"V1_V7", "V8_V9"}, !.until = Version("V8_V9", 8, 99)]
SetpointSource == Late(Command("LSS", Controllers, {0}, {1, 2}, {2}))

\* Mutant: no gate on the firmware.
LoopControlVariable_Ungated == Command("LV", Controllers, {0}, {1}, {2})

LoopControlVariable == Since(Command("LV", Controllers, {0}, {1}, {2}), Modern, "V8_V9", 9, 0)

RampRate == Since(Command("SR", Controllers, {0}, {2}, {5}), Numeric, "V1_V7", 7, 11)
DeadbandLimit == Late(Command("LCDB", Controllers, {0}, {2}, {4}))

Hold(token) == Since(Framed(token, Controllers, {}, {0}), Numeric, "V1_V7", 5, 7)
HoldValves == Hold("HP")
HoldValvesClosed == [Hold("HC") EXCEPT !.confirm = TRUE]
CancelValveHold == [Framed("C", Controllers, {}, {0}) EXCEPT !.families = Numeric]
ValveDrive == Since(Command("VD", Controllers, {0}, {}, 2..5), Modern, "V8_V9", 8, 18)

StreamingRate == Late(Command("NCS", AllKinds, {0}, {1}, {2}))

\* Commands by the name they carry.
Commands ==
    [ve_query |-> Ve, manufacturing_info |-> ManufacturingInfo,
     data_frame_format_query |-> DataFrameFormat, poll_data |-> PollData,
     request_data |-> RequestData, gas_select |-> GasSelect,
     gas_select_legacy |-> GasSelectLegacy, gas_list |-> GasList,
     engineering_units |-> EngineeringUnits, full_scale_query |-> FullScaleQuery,
     tare_flow |-> TareFlow, tare_gauge_pressure |-> TareGaugePressure,
     tare_absolute_pressure |-> TareAbsolutePressure, auto_tare |-> AutoTare,
     power_up_tare |-> PowerUpTare, zero_band |-> ZeroBand, average_timing |-> AverageTiming,
     stp_ntp_pressure |-> StpNtpPressure, stp_ntp_temperature |-> StpNtpTemperature,
     analog_output_source |-> AnalogOutputSource, blink_display |-> BlinkDisplay,
     lock_display |-> LockDisplay, unlock_display |-> UnlockDisplay, user_data |-> UserData,
     totalizer_config |-> TotalizerConfig, totalizer_reset |-> TotalizerReset,
     totalizer_reset_peak |-> TotalizerResetPeak, totalizer_save |-> TotalizerSave,
     setpoint |-> Setpoint, setpoint_legacy |-> SetpointLegacy,
     setpoint_source |-> SetpointSource, loop_control_variable |-> LoopControlVariable,
     ramp_rate |-> RampRate, deadband_limit |-> DeadbandLimit, hold_valves |-> HoldValves,
     hold_valves_closed |-> HoldValvesClosed, cancel_valve_hold |-> CancelValveHold,
     valve_drive |-> ValveDrive, streaming_rate |-> StreamingRate]

=============================================================================
