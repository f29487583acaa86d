------------------------------- MODULE Opening -------------------------------
(***************************************************************************)
(* open_device, identify_device, the probes of devices/factory.py, and     *)
(* find_devices of devices/discovery.py: what is asked of a device whose   *)
(* dialect is not known yet, what is concluded when it does not answer,    *)
(* and who holds which serial port meanwhile.                              *)
(*                                                                         *)
(* A job is one open_device or one probe of a search.  A job asks, waits   *)
(* and goes on; several jobs run at a time, on their own transports.       *)
(***************************************************************************)
EXTENDS Catalog, Sequences, FiniteSets

CONSTANTS
    Scenarios,      \* [devs : what is connected, jobs : what is asked for, stop :
                    \*  stop_on_first_hit, slots : max_concurrency]; devs, jobs are sequences
    MaxLost,        \* this many replies may be lost
    None

\* home is the id a device has before anybody stops a stream; sheet, the lines of its
\* answer to ??M* that matter, None if it has no such answer.
IsDevice(d) ==
    /\ d = [port |-> d.port, id |-> d.id, home |-> d.home, rate |-> d.rate,
            streams |-> d.streams, firmware |-> d.firmware, model |-> d.model,
            sheet |-> d.sheet, caps |-> d.caps]
    /\ d.streams \in BOOLEAN
    /\ d.firmware.family \in Families /\ (d.firmware.family = "GP" => d.firmware = GP)

ASSUME OpeningAssumption ==
    /\ MaxLost \in Nat /\ None # "ok"
    /\ \A s \in Scenarios :
        /\ s.stop \in BOOLEAN /\ s.slots \in Nat \ {0} /\ s.jobs # <<>>
        \* find_devices has no hint to give.
        /\ \A j \in DOMAIN s.jobs :
            /\ s.jobs[j].how \in {"probe", "path", "transport", "client"}
            /\ s.jobs[j].how = "probe" => s.jobs[j].hint = None
        \* A bus has one device of an id.
        /\ \A d \in DOMAIN s.devs :
            /\ IsDevice(s.devs[d]) /\ s.devs[d].home = s.devs[d].id
            /\ \A c \in DOMAIN s.devs :
                s.devs[c].port = s.devs[d].port /\ s.devs[c].id = s.devs[d].id => c = d

VARIABLES
    devs,       \* the devices: where they are, what they are, what they do
    call,       \* the jobs, and how they were asked for
    step,       \* [job -> the await it is at]
    info,       \* [job -> DeviceInfo so far]
    open,       \* jobs whose transport is open
    result,     \* [job -> None, "ok" or how it failed]
    rate,       \* find_devices.confirmed_baud
    lost,       \* history: replies lost
    broken,     \* history: jobs whose port failed under an exchange
    strayed     \* history: a device that was not meant obeyed a stop

vars == <<devs, call, step, info, open, result, rate, lost, broken, strayed>>

Jobs == DOMAIN call.jobs
Job(j) == call.jobs[j]
IsProbe(j) == Job(j).how = "probe"

-----------------------------------------------------------------------------
\* The model rules.  No prefix begins another: each ends in its own dash.

Rules == <<
    [kind |-> "flow_controller", media |-> {"gas"},
     prefixes |-> {"MCRWD-", "MCDW-", "MCRH-", "MCRW-", "MCRD-", "MCS-", "MCQ-", "MCW-",
                   "MCD-", "MCV-", "MCE-", "MCH-", "MCP-", "MCR-", "MCT-", "MC-", "SFF-",
                   "BC-"}],
    [kind |-> "flow_meter", media |-> {"gas"},
     prefixes |-> {"MWB-", "MBS-", "MS-", "MQ-", "MW-", "MB-", "M-", "B-"}],
    [kind |-> "pressure_controller", media |-> {"gas", "liquid"},
     prefixes |-> {"PCRD3S-", "PCRDS-", "PCDS-"}],
    [kind |-> "pressure_controller", media |-> {"gas"},
     prefixes |-> {"PCRD3-", "EPCD-", "PCD3-", "PCRD-", "PCR3-", "PCAS-", "PCPD-", "PC3-",
                   "PCS-", "PCD-", "PCH-", "PCP-", "PCR-", "EPC-", "IVC-", "PC-"}],
    [kind |-> "pressure_meter", media |-> {"gas"}, prefixes |-> {"PB-", "PS-", "EP-", "P-"}],
    [kind |-> "flow_controller", media |-> {"liquid"}, prefixes |-> {"LCR-", "LC-"}],
    [kind |-> "flow_meter", media |-> {"liquid"}, prefixes |-> {"LB-", "L-"}],
    [kind |-> "flow_meter", media |-> AllMedia, prefixes |-> {"KM-", "K-"}],
    [kind |-> "flow_controller", media |-> AllMedia, prefixes |-> {"KC-", "KF-", "KG-"}]>>

RuleFor(model) == {i \in DOMAIN Rules : model \in Rules[i].prefixes}
Kind(model) ==
    IF RuleFor(model) = {} THEN "unknown" ELSE Rules[CHOOSE i \in RuleFor(model) : TRUE].kind
Media(model) ==
    IF RuleFor(model) = {} THEN {} ELSE Rules[CHOOSE i \in RuleFor(model) : TRUE].media

-----------------------------------------------------------------------------
\* What is asked, and who answers.

\* The gates of a session with this info; a bootstrap session has none but the firmware's.
Allowed(i, c) ==
    /\ i.firmware.family \in c.families
    /\ ~Older(i.firmware, c.since)
    /\ i.kind \in c.kinds /\ c.media \cap i.media # {} /\ c.needs \subseteq i.caps

\* The devices on the wire of a job.
Near(j) == {d \in DOMAIN devs : devs[d].port = Job(j).port /\ devs[d].rate = Job(j).rate}
Addressed(j) == {d \in Near(j) : ~devs[d].streams /\ devs[d].id = Job(j).id}

\* GP devices want a prefix that others do not understand.
Hears(d, i, c) == c.bare \/ (i.firmware = GP <=> devs[d].firmware = GP)

\* Does device d answer the command, as session i words it?
Takes(d, i, c) ==
    /\ Hears(d, i, c)
    /\ devs[d].firmware.family \in c.families
    /\ ~Older(devs[d].firmware, c.since)
    /\ c.token = "??M*" => devs[d].sheet # None

Answering(j, c) == {d \in Addressed(j) : Takes(d, info[j], c)}

\* "answer" of the one device addressed; a refusal; silence; two at once, or a stream;
\* a port that fails.
Outcomes(j, c) ==
    LET who == {d \in Addressed(j) : Hears(d, info[j], c)}
        answers == Answering(j, c)
        noisy == \E d \in Near(j) : devs[d].streams
    IN  (IF Cardinality(answers) = 1 /\ ~noisy THEN {"answer"} ELSE {})
        \cup (IF answers = {} /\ who # {} /\ ~noisy THEN {"rejected"} ELSE {})
        \cup (IF Cardinality(answers) > 1 \/ noisy THEN {"garbled"} ELSE {})
        \cup (IF answers = {} \/ lost < MaxLost THEN {"timeout"} ELSE {})
        \cup {"broken"}

\* A silence is a loss if somebody would have answered.
Asks(j, c, out) ==
    /\ out \in Outcomes(j, c)
    /\ lost' = IF out = "timeout" /\ Answering(j, c) # {}
               THEN lost + 1 ELSE lost
    /\ broken' = IF out = "broken" THEN broken \cup {j} ELSE broken

Answerer(j, c) == CHOOSE d \in Answering(j, c) : TRUE

-----------------------------------------------------------------------------
\* How a job ends.

\* Mutant: any answer at all confirms the rate.
Confirms_Anything(res) == res # "unopened"

\* A hit, or a stream: the other rates of the port need not be tried.
Confirms(res) == res \in {"ok", "streaming"}

\* Mutant: `except Exception` does not see a cancellation.
Closes_NotCancelled(j, res) ==
    \/ IsProbe(j)
    \/ Job(j).how = "path" /\ res \notin {"ok", "cancelled"}

\* probe closes its transport whatever happened; open_device one it made, on failure.
Closes(j, res) == IsProbe(j) \/ (Job(j).how = "path" /\ res # "ok")

Ends(j, res) ==
    /\ step' = [step EXCEPT ![j] = "done"]
    /\ result' = [result EXCEPT ![j] = res]
    /\ open' = IF Closes(j, res) THEN open \ {j} ELSE open
    /\ rate' = IF IsProbe(j) /\ call.stop /\ Confirms(res)
               THEN [rate EXCEPT ![Job(j).port] = Job(j).rate] ELSE rate

Goes(j, s) == step' = [step EXCEPT ![j] = s] /\ UNCHANGED <<open, result, rate>>

Bus == <<devs, call, strayed>>

-----------------------------------------------------------------------------
\* What is known before anything was asked: VE is asked of a 10v05 of any kind.
Unknown ==
    [firmware |-> Version("V10", 10, 5), model |-> None, kind |-> "unknown",
     media |-> AllMedia, caps |-> {}, report |-> None, unit |-> None, scale |-> None,
     variable |-> None, format |-> FALSE]

Init ==
    /\ \E s \in Scenarios : devs = s.devs /\ call = [jobs |-> s.jobs, stop |-> s.stop, slots |-> s.slots]
    /\ step = [j \in Jobs |-> "start"]
    /\ info = [j \in Jobs |-> Unknown]
    \* A caller's transport may be open already; a caller's client has an open one.
    /\ \E given \in SUBSET {j \in Jobs : Job(j).how = "transport"} :
        open = given \cup {j \in Jobs : Job(j).how = "client"}
    /\ result = [j \in Jobs |-> None]
    /\ rate = [p \in {Job(j).port : j \in Jobs} |-> None]
    /\ lost = 0 /\ broken = {} /\ strayed = FALSE

\* _run: the port's lock; a combination of another rate than the confirmed one is left out.
LockPort(j) ==
    /\ IsProbe(j) /\ step[j] = "start"
    /\ \A k \in Jobs : Job(k).port = Job(j).port => step[k] \in {"start", "done"}
    /\ IF rate[Job(j).port] \notin {None, Job(j).rate} THEN Ends(j, "skipped")
       ELSE Goes(j, "limited")
    /\ UNCHANGED <<info, lost, broken>> /\ UNCHANGED Bus

Probing == {j \in Jobs : IsProbe(j) /\ step[j] \notin {"start", "limited", "done"}}

TakeSlot(j) ==
    /\ step[j] = "limited" /\ Cardinality(Probing) < call.slots
    /\ Goes(j, "open")
    /\ UNCHANGED <<info, lost, broken>> /\ UNCHANGED Bus

\* open_device: a client, or an open transport, is taken as it is.
Begin(j) ==
    /\ ~IsProbe(j) /\ step[j] = "start"
    /\ Goes(j, IF j \notin open THEN "open"
               ELSE IF Job(j).recover /\ Job(j).how # "client" THEN "recover" ELSE "ve")
    /\ UNCHANGED <<info, lost, broken>> /\ UNCHANGED Bus

\* A port somebody else holds, or one the kernel refuses, does not open.
OpenPort(j) ==
    /\ step[j] = "open"
    /\ \A k \in open : Job(k).port # Job(j).port
    /\ open' = open \cup {j}
    /\ step' = [step EXCEPT ![j] = IF IsProbe(j) THEN "sniff"
                                   ELSE IF Job(j).recover THEN "recover" ELSE "ve"]
    /\ UNCHANGED <<info, result, rate, lost, broken>> /\ UNCHANGED Bus

OpenFails(j) ==
    /\ step[j] = "open" /\ Ends(j, "unopened")
    /\ UNCHANGED <<info, lost, broken>> /\ UNCHANGED Bus

\* A stream's frame is heard in the window, if it is not too slow.
Sniff(j) ==
    /\ step[j] = "sniff"
    /\ \/ (\E d \in Near(j) : devs[d].streams) /\ Ends(j, "streaming")
       \/ Goes(j, "ve")
    /\ UNCHANGED <<info, lost, broken>> /\ UNCHANGED Bus

\* Mutant: the stop carries the default id.
StopsAs_Default(j) == "A"

StopsAs(j) == Job(j).id

\* "@@ id" stops whoever streams, and gives it that id.
Obeys(j) ==
    LET heard == {d \in Near(j) : devs[d].streams} IN
    /\ devs' = [d \in DOMAIN devs |->
                    IF d \in heard THEN [devs[d] EXCEPT !.streams = FALSE, !.id = StopsAs(j)]
                    ELSE devs[d]]
    /\ strayed' = (strayed \/ \E d \in heard : devs[d].home # Job(j).id)

\* _recover_from_stream: a read that fails gives up, quietly; a write that fails does not.
Recover(j) ==
    /\ step[j] = "recover"
    /\ \/ Goes(j, "ve") /\ UNCHANGED <<devs, strayed>>
       \/ Goes(j, "ve") /\ Obeys(j)
       \/ Ends(j, "unwritten") /\ UNCHANGED <<devs, strayed>>
       \/ Ends(j, "unwritten") /\ Obeys(j)
    /\ UNCHANGED <<call, info, lost, broken>>

-----------------------------------------------------------------------------
\* identify_device.

\* Those the code has a probe for, and all the flags.
Probes == {"barometer", "secondary_pressure"}
Capabilities ==
    Probes \cup {"tareable_absolute", "analog_input", "analog_output",
                 "secondary_analog_output", "remote_tare_pin", "multi_valve", "third_valve",
                 "bidirectional", "totalizer", "display"}

\* probe_capabilities reports absent what it has not asked, or never will.
AllAbsent == [c \in Capabilities |-> "absent"]

\* A search is over with the identity; open_device goes on to the capabilities, of which
\* a GP device is asked none.
Identified(j, firmware, model) ==
    /\ info' = [info EXCEPT ![j] =
                    [@ EXCEPT !.firmware = firmware, !.model = model, !.kind = Kind(model),
                              !.media = Media(model),
                              !.report = IF IsProbe(j) THEN info[j].report ELSE AllAbsent]]
    /\ IF IsProbe(j) THEN Ends(j, "ok")
       ELSE Goes(j, IF firmware.family = "GP" THEN "format" ELSE "barometer")

\* The hint names the model, or the identification fails.
ByHint(j, firmware) ==
    IF Job(j).hint # None THEN Identified(j, firmware, Job(j).hint)
    ELSE Ends(j, "unnamed") /\ UNCHANGED info

Asked(j, c) == devs[Answerer(j, c)]

\* VE.  Only a timeout leads to the fallback.
AskVe(j) ==
    /\ step[j] = "ve"
    /\ \/ /\ Asks(j, Ve, "answer")
          /\ info' = [info EXCEPT ![j].firmware = Asked(j, Ve).firmware]
          /\ Goes(j, "sheet")
       \/ /\ Asks(j, Ve, "timeout")
          /\ info' = [info EXCEPT ![j].firmware = GP]
          /\ Goes(j, "gp")
       \/ \E out \in {"rejected", "garbled", "broken"} :
            Asks(j, Ve, out) /\ Ends(j, out) /\ UNCHANGED info
    /\ UNCHANGED Bus

\* ??M* of a device whose firmware is known.
AskSheet(j) ==
    /\ step[j] = "sheet"
    /\ \E out \in {"answer", "rejected", "garbled", "timeout", "broken"} :
        /\ Asks(j, ManufacturingInfo, out)
        /\ IF out = "broken" THEN Ends(j, out) /\ UNCHANGED info
           ELSE IF out = "answer" /\ "model" \in Asked(j, ManufacturingInfo).sheet
           THEN Identified(j, info[j].firmware, Asked(j, ManufacturingInfo).model)
           ELSE ByHint(j, info[j].firmware)
    /\ UNCHANGED Bus

\* Mutant: no answer to VE is taken for a GP device, whatever its sheet says.
Software_Unread(d) == GP

\* The software line, parsed; GP if there is none.
Software(d) == IF "software" \in devs[d].sheet THEN devs[d].firmware ELSE GP

\* _identify_without_ve.
AskSheetBlind(j) ==
    /\ step[j] = "gp"
    /\ \E out \in {"answer", "rejected", "garbled", "timeout", "broken"} :
        /\ Asks(j, ManufacturingInfo, out)
        /\ IF out = "broken" THEN Ends(j, out) /\ UNCHANGED info
           ELSE IF out # "answer" THEN ByHint(j, GP)
           ELSE IF "model" \in Asked(j, ManufacturingInfo).sheet
                THEN Identified(j, Software(Answerer(j, ManufacturingInfo)), Asked(j, ManufacturingInfo).model)
                ELSE ByHint(j, Software(Answerer(j, ManufacturingInfo)))
    /\ UNCHANGED Bus

-----------------------------------------------------------------------------
\* The rest of open_device.

\* _probe_fpf_capability.  FPF of a statistic the device has not answers zero; the last
\* except says absent where the port failed.
Says(out, has) ==
    CASE out = "answer" -> IF has THEN "present" ELSE "absent"
      [] out = "broken" -> "absent"
      [] out = "garbled" -> "parse_error"
      [] OTHER -> out

Probed(i, capability, says) ==
    [i EXCEPT !.caps = IF says = "present" THEN i.caps \cup {capability} ELSE i.caps,
              !.report = [i.report EXCEPT ![capability] = says]]

AskCapability(j) ==
    /\ step[j] \in Probes
    /\ \E out \in {"answer", "rejected", "garbled", "timeout", "broken"} :
        /\ Asks(j, FullScaleQuery, out)
        /\ LET has == out = "answer" /\ step[j] \in Asked(j, FullScaleQuery).caps
           IN  info' = [info EXCEPT ![j] = Probed(info[j], step[j], Says(out, has))]
    /\ Goes(j, IF step[j] = "barometer" THEN "secondary_pressure" ELSE "format")
    /\ UNCHANGED Bus

\* What the caller vouches for.
Assume(j) ==
    [info[j] EXCEPT !.caps = @ \cup Job(j).caps,
                    !.media = IF Job(j).media = None THEN @ ELSE Job(j).media]

\* ??D* is asked by a session with that info: a device of no medium is refused everything.
AskFormat(j) ==
    /\ step[j] = "format"
    /\ IF ~Allowed(Assume(j), DataFrameFormat)
       THEN Ends(j, "refused") /\ UNCHANGED <<info, lost, broken>>
       ELSE \E out \in {"answer", "rejected", "garbled", "timeout", "broken"} :
            /\ Asks(j, DataFrameFormat, out)
            /\ IF out = "answer"
               THEN info' = [info EXCEPT ![j] = [Assume(j) EXCEPT !.format = TRUE]] /\ Goes(j, "unit")
               ELSE Ends(j, out) /\ UNCHANGED info
    /\ UNCHANGED Bus

\* The last probes, whose failures are ignored: DCU, FPF, LV, in this order.
Extra == [unit |-> EngineeringUnits, scale |-> FullScaleQuery, variable |-> LoopControlVariable]
After(s) == IF s = "unit" THEN "scale" ELSE "variable"

Wanted(j) ==
    /\ step[j] = "scale" => info[j].firmware.family # "GP"
    /\ step[j] = "variable" => info[j].kind \in Controllers

AskExtra(j) ==
    LET s == step[j] IN
    /\ s \in DOMAIN Extra
    /\ IF ~Wanted(j) \/ ~Allowed(info[j], Extra[s]) THEN UNCHANGED <<info, lost, broken>>
       ELSE \E out \in {"answer", "rejected", "garbled", "timeout", "broken"} :
            /\ Asks(j, Extra[s], out)
            /\ info' = IF out = "answer" THEN [info EXCEPT ![j] = [@ EXCEPT ![s] = Answerer(j, Extra[s])]]
                       ELSE info
    /\ IF s = "variable" THEN Ends(j, "ok") ELSE Goes(j, After(s))
    /\ UNCHANGED Bus

\* The caller's scope is cancelled: BaseException.
Cancel(j) ==
    /\ ~IsProbe(j) /\ step[j] \notin {"start", "done"}
    /\ Ends(j, "cancelled")
    /\ UNCHANGED <<info, lost, broken>> /\ UNCHANGED Bus

-----------------------------------------------------------------------------

Identify(j) == AskVe(j) \/ AskSheet(j) \/ AskSheetBlind(j)
Search(j) == LockPort(j) \/ TakeSlot(j) \/ Sniff(j)
OpenDevice(j) == Begin(j) \/ Recover(j) \/ AskCapability(j) \/ AskFormat(j) \/ AskExtra(j)
Runs(j) == Search(j) \/ OpenPort(j) \/ OpenFails(j) \/ Identify(j) \/ OpenDevice(j)

Next == \E j \in Jobs : Runs(j) \/ Cancel(j)

\* The event loop resumes a job whose await is over.
Spec == Init /\ [][Next]_vars /\ \A j \in UNION {DOMAIN s.jobs : s \in Scenarios} :
                                    WF_vars(j \in Jobs /\ Runs(j))

-----------------------------------------------------------------------------
\* Properties.

\* Lines of the answer to ??M*.
Shows(d, line) == devs[d].sheet # None /\ line \in devs[d].sheet

Meant(j) == {d \in Near(j) : devs[d].home = Job(j).id}

\* What a device is opened, or found, as is what it is, on every path of fallbacks and
\* refusals: its model unless the caller's hint had to name it, its firmware unless lost
\* replies to both queries, or to VE where the sheet names none, made it pass for GP;
\* no capability it lacks is claimed (devices/factory.py: "should never falsely claim the
\* hardware is present"), one that is reported present it has, and what it has is reported
\* absent only if nobody asked for it, if it passed for GP or if the port failed; units,
\* full scale and loop variable were read from it.  A device that was moved to another id
\* by the stop of an open_device may be taken for another.
FactsTrue ==
    \A j \in Jobs : (result[j] = "ok" /\ ~strayed) =>
        \E d \in Meant(j) :
            LET i == info[j] is == devs[d] IN
            /\ \/ i.firmware = is.firmware
               \/ i.firmware = GP /\ (lost > 1 \/ (lost = 1 /\ ~Shows(d, "software")))
            /\ \/ i.model = is.model
               \/ i.model = Job(j).hint /\ (lost > 0 \/ ~Shows(d, "model"))
            /\ i.caps \subseteq is.caps \cup Job(j).caps
            /\ ~IsProbe(j) => \A c \in Capabilities :
                /\ i.report[c] = "present" => c \in is.caps
                /\ c \in i.caps => i.report[c] = "present" \/ c \in Job(j).caps
                /\ i.report[c] = "absent" /\ c \in is.caps =>
                    c \notin Probes \/ i.firmware = GP \/ j \in broken
            /\ {i.unit, i.scale, i.variable} \subseteq {None, d}
            /\ ~IsProbe(j) => i.format

\* Opening a device leaves the addresses of the others alone, as long as nobody but the
\* device being opened streams on the bus.
RecoveryAimed ==
    ~strayed => \A c, d \in DOMAIN devs :
        (devs[c].port = devs[d].port /\ devs[c].id = devs[d].id) => c = d

\* A search holds a port only while it probes it, and its combinations never meet on one;
\* open_device keeps the transport it made only with the device it returns, and never
\* closes a caller's.
PortsAccounted ==
    \A j \in Jobs :
        /\ step[j] = "done" =>
            CASE Job(j).how = "probe" -> j \notin open
              [] Job(j).how = "path" -> j \in open <=> result[j] = "ok"
              [] Job(j).how = "client" -> j \in open
              [] OTHER -> result[j] = "ok" => j \in open
        /\ IsProbe(j) /\ step[j] = "open" =>
            \A k \in open : Job(k).port = Job(j).port => ~IsProbe(k)

\* Every search and every open ends; and if no reply was lost, nobody streamed and the
\* devices of a port share a rate, a search lists every device that can name itself and
\* whose port opened and worked: stop_on_first_hit skips nothing but rates without a device.
SearchComplete ==
    <>[](\A j \in Jobs :
            /\ step[j] = "done"
            /\ \A d \in Meant(j) :
                (/\ IsProbe(j) /\ lost = 0 /\ j \notin broken /\ result[j] # "unopened"
                 /\ Shows(d, "model")
                 /\ \A c \in DOMAIN devs : devs[c].port = Job(j).port =>
                        ~devs[c].streams /\ devs[c].rate = devs[d].rate)
                => result[j] = "ok")

=============================================================================
