--------------------------- MODULE Opening_proofs ---------------------------
(***************************************************************************)
(* Proofs about Opening, for any devices on any ports and any jobs: who    *)
(* holds which port, what a stop does to the ids, and that what a device   *)
(* is opened as is what it is.                                             *)
(***************************************************************************)
EXTENDS Opening, FiniteSetTheorems, TLAPS

-----------------------------------------------------------------------------
(* The inductive invariants.                                               *)

\* Who waits for nothing yet, or for nothing any more.
Before == {"start", "limited", "open"}
Asking == {"ve", "sheet", "gp"}
Extras == {"unit", "scale", "variable"}
Named == {"barometer", "secondary_pressure", "format"} \cup Extras
Stages == Before \cup {"sniff", "recover", "done"} \cup Asking \cup Named

Typed ==
    /\ \E s \in Scenarios : call = [jobs |-> s.jobs, stop |-> s.stop, slots |-> s.slots]
    /\ \A d \in DOMAIN devs :
        /\ IsDevice(devs[d])
        /\ \A c \in DOMAIN devs :
            devs[c].port = devs[d].port /\ devs[c].home = devs[d].home => c = d
    /\ step \in [Jobs -> Stages]
    /\ open \subseteq Jobs
    /\ result = [j \in Jobs |-> result[j]]
    /\ info = [j \in Jobs |-> info[j]]
    /\ lost \in Nat /\ strayed \in BOOLEAN

\* A job that talks has its transport open, and a search has none when it does not.
Holds(j) ==
    /\ step[j] \notin Before \cup {"done"} => j \in open
    /\ Job(j).how = "client" => j \in open
    /\ IsProbe(j) => step[j] # "recover" /\ (step[j] \in Before \cup {"done"} => j \notin open)
    /\ ~IsProbe(j) => step[j] \notin {"limited", "sniff"}
    /\ step[j] = "recover" => Job(j).recover
    /\ step[j] = "done" /\ Job(j).how = "path" => (j \in open <=> result[j] = "ok")
    /\ step[j] = "done" /\ result[j] = "ok" => j \in open \/ IsProbe(j)

\* The combinations of a search take their turns on a port.
Turns ==
    \A j, k \in Jobs :
        (/\ IsProbe(j) /\ IsProbe(k) /\ Job(j).port = Job(k).port
         /\ step[j] \notin {"start", "done"} /\ step[k] \notin {"start", "done"}) => j = k

\* As long as no stop went astray, everybody has the id it came with.
IdsAtHome == strayed \/ \A d \in DOMAIN devs : devs[d].id = devs[d].home

PortsInv == Typed /\ Turns /\ IdsAtHome /\ \A j \in Jobs : Holds(j)

\* Nobody near the job streams.
Quiet(j) == \A d \in Near(j) : ~devs[d].streams

FirmwareTrue(i, d) ==
    \/ i.firmware = devs[d].firmware
    \/ i.firmware = GP /\ (lost > 1 \/ (lost = 1 /\ ~Shows(d, "software")))
ModelTrue(i, d, j) ==
    \/ i.model = devs[d].model
    \/ i.model = Job(j).hint /\ (lost > 0 \/ ~Shows(d, "model"))
\* The capabilities a job at this await has yet to ask for.
ToAsk(s) ==
    CASE s = "barometer" -> Probes
      [] s = "secondary_pressure" -> {"secondary_pressure"}
      [] OTHER -> {}

ReportTrue(i, d, j) ==
    \A c \in Capabilities :
        /\ i.report[c] = "present" => c \in devs[d].caps
        /\ c \in i.caps => i.report[c] = "present" \/ c \in Job(j).caps
        /\ i.report[c] = "absent" /\ c \in devs[d].caps =>
            c \notin Probes \ ToAsk(step[j]) \/ i.firmware = GP \/ j \in broken
CapsTrue(i, d, j) ==
    /\ i.caps \subseteq devs[d].caps \cup Job(j).caps
    /\ ~IsProbe(j) => ReportTrue(i, d, j)

Blank(i) == i.caps = {} /\ i.report = None /\ i.unit = None /\ i.scale = None /\ i.variable = None

Info(firmware, model, kind, media, caps, report, unit, scale, variable, format) ==
    [firmware |-> firmware, model |-> model, kind |-> kind, media |-> media, caps |-> caps,
     report |-> report, unit |-> unit, scale |-> scale, variable |-> variable,
     format |-> format]

\* What a job knows at each of its awaits, of the device that is meant, if no stream
\* disturbs it; a job that was answered by a data frame format was not disturbed.
Learned(j) ==
    LET i == info[j] IN
    /\ i = Info(i.firmware, i.model, i.kind, i.media, i.caps, i.report, i.unit, i.scale,
                i.variable, i.format)
    /\ step[j] \in Before \cup {"sniff", "recover", "ve"} => i = Unknown
    /\ step[j] # "done" => result[j] # "ok"
    /\ step[j] \in {"sheet", "gp"} => Blank(i)
    /\ step[j] = "gp" => i.firmware = GP
    /\ ~strayed /\ Quiet(j) => \A d \in Meant(j) :
        /\ step[j] = "sheet" => i.firmware = devs[d].firmware
        /\ step[j] = "gp" => devs[d].firmware = GP \/ lost > 0
        /\ step[j] \in Named => FirmwareTrue(i, d) /\ ModelTrue(i, d, j) /\ CapsTrue(i, d, j)
    /\ step[j] \in Named \ Extras =>
        ~IsProbe(j) /\ i.unit = None /\ i.scale = None /\ i.variable = None
    /\ step[j] \in Named => i.report = [c \in Capabilities |-> i.report[c]]
    /\ step[j] = "barometer" => i.caps = {}
    /\ step[j] = "secondary_pressure" => i.caps \subseteq {"barometer"}
    /\ step[j] \in Extras => ~IsProbe(j) /\ i.format
    /\ ~strayed /\ step[j] \in Extras =>
        Quiet(j) /\ Meant(j) # {} /\ {i.unit, i.scale, i.variable} \subseteq {None} \cup Meant(j)

\* FactsTrue, for one job.
Found(j) ==
    result[j] = "ok" /\ ~strayed =>
        \E d \in Meant(j) :
            /\ FirmwareTrue(info[j], d) /\ ModelTrue(info[j], d, j) /\ CapsTrue(info[j], d, j)
            /\ {info[j].unit, info[j].scale, info[j].variable} \subseteq {None, d}
            /\ ~IsProbe(j) => info[j].format

FactsInv == PortsInv /\ \A j \in Jobs : Learned(j) /\ Found(j)

\* No port is shared by a job that stops a stream.
AloneOnPort ==
    \A s \in Scenarios : \A j, k \in DOMAIN s.jobs :
        s.jobs[j].how # "probe" /\ s.jobs[j].recover /\ s.jobs[j].port = s.jobs[k].port => j = k

-----------------------------------------------------------------------------
(* Jobs and how they end.                                                  *)

LEMMA JobsAre ==
    ASSUME Typed, NEW j \in Jobs
    PROVE  /\ Job(j).how \in {"probe", "path", "transport", "client"}
           /\ IsProbe(j) => Job(j).hint = None
  BY OpeningAssumption DEF Typed, Jobs, Job, IsProbe

\* The call never changes.
LEMMA CallKept ==
    ASSUME call' = call
    PROVE  /\ Jobs' = Jobs
           /\ \A j : Job(j)' = Job(j) /\ IsProbe(j)' = IsProbe(j)
  BY DEF Jobs, Job, IsProbe

\* A job that goes on from a stage with its transport as it should be.
LEMMA GoesKeeps ==
    ASSUME PortsInv, NEW k \in Jobs, NEW s \in Stages \ {"start", "done"}, Goes(k, s),
           call' = call,
           k \in open \/ s \in Before,
           IsProbe(k) => s # "recover" /\ (s \in Before => k \notin open),
           ~IsProbe(k) => s \notin {"limited", "sniff"},
           s = "recover" => Job(k).recover,
           step[k] = "start" /\ IsProbe(k) =>
                \A j \in Jobs : Job(j).port = Job(k).port => step[j] \in {"start", "done"},
           step[k] # "done"
    PROVE  /\ step' \in [Jobs -> Stages] /\ Turns' /\ \A j \in Jobs : Holds(j)'
           /\ step'[k] = s /\ \A j \in Jobs : j # k => step'[j] = step[j]
<1>1. /\ step' \in [Jobs -> Stages] /\ step'[k] = s
      /\ \A j \in Jobs : j # k => step'[j] = step[j]
  BY DEF PortsInv, Typed, Goes
<1>2. open' = open /\ result' = result
  BY DEF Goes
<1>3. ASSUME NEW j \in Jobs PROVE Holds(j)'
  BY <1>1, <1>2, CallKept DEF PortsInv, Holds, Before
<1>4. Turns'
  BY <1>1, CallKept DEF PortsInv, Turns
<1> QED
  BY <1>1, <1>3, <1>4

\* A job that ends, and the transport it leaves.
LEMMA EndsKeeps ==
    ASSUME PortsInv, NEW k \in Jobs, NEW res, Ends(k, res), call' = call, step[k] # "done",
           res = "ok" => k \in open
    PROVE  /\ step' \in [Jobs -> Stages] /\ Turns' /\ \A j \in Jobs : Holds(j)'
           /\ open' \subseteq Jobs
           /\ result' = [j \in Jobs |-> result'[j]]
           /\ step'[k] = "done" /\ result'[k] = res
           /\ \A j \in Jobs : j # k => step'[j] = step[j] /\ result'[j] = result[j]
<1>1. /\ step' \in [Jobs -> Stages] /\ step'[k] = "done"
      /\ \A j \in Jobs : j # k => step'[j] = step[j]
  BY DEF PortsInv, Typed, Ends, Stages
<1>2. /\ open' \subseteq open
      /\ \A j \in open : j # k => j \in open'
      /\ k \in open' <=> k \in open /\ ~Closes(k, res)
  BY DEF Ends
<1>3. /\ result' = [j \in Jobs |-> result'[j]] /\ result'[k] = res
      /\ \A j \in Jobs : j # k => result'[j] = result[j]
  <2>1. result' = [result EXCEPT ![k] = res] /\ result = [j \in Jobs |-> result[j]]
    BY DEF PortsInv, Typed, Ends
  <2> QED
    BY <2>1
<1>4. ASSUME NEW j \in Jobs PROVE Holds(j)'
  <2>1. CASE j = k
    BY <2>1, <1>1, <1>2, <1>3, CallKept, JobsAre
    DEF PortsInv, Holds, Before, Closes, IsProbe
  <2>2. CASE j # k
    BY <2>2, <1>1, <1>2, <1>3, CallKept DEF PortsInv, Holds
  <2> QED
    BY <2>1, <2>2
<1>5. Turns'
  BY <1>1, CallKept DEF PortsInv, Turns
<1> QED
  BY <1>1, <1>2, <1>3, <1>4, <1>5 DEF PortsInv, Typed

-----------------------------------------------------------------------------
(* What a step of a job leaves alone.                                      *)

LEMMA LossesCount ==
    ASSUME Typed, NEW j, NEW c, NEW out, Asks(j, c, out)
    PROVE  lost' \in Nat /\ lost <= lost' /\ broken \subseteq broken'
  BY DEF Typed, Asks

LEMMA StepIs ==
    ASSUME Typed, NEW k \in Jobs, Runs(k) \/ Cancel(k)
    PROVE  /\ call' = call
           /\ lost' \in Nat /\ lost <= lost' /\ broken \subseteq broken'
           /\ info' = [j \in Jobs |-> info'[j]]
           /\ \A j \in Jobs : j # k => info'[j] = info[j]
<1>t. lost \in Nat /\ info = [j \in Jobs |-> info[j]]
  BY DEF Typed
<1>1. CASE LockPort(k) \/ TakeSlot(k) \/ Sniff(k) \/ OpenPort(k) \/ OpenFails(k) \/ Begin(k)
           \/ Recover(k) \/ Cancel(k)
  <2>1. UNCHANGED <<call, info, lost, broken>>
    BY <1>1 DEF LockPort, TakeSlot, Sniff, OpenPort, OpenFails, Begin, Recover, Cancel, Bus
  <2> QED
    BY <1>t, <2>1
<1>2. ASSUME NEW i, info' = [info EXCEPT ![k] = i]
      PROVE  /\ info' = [j \in Jobs |-> info'[j]]
             /\ \A j \in Jobs : j # k => info'[j] = info[j]
  BY <1>2, <1>t
<1>h. ASSUME NEW firmware, ByHint(k, firmware)
      PROVE  info' = info \/ \E i : info' = [info EXCEPT ![k] = i]
  BY <1>h, Zenon DEF ByHint, Identified
<1>3. CASE AskVe(k)
  <2>1. call' = call /\ \E out : Asks(k, Ve, out)
    BY <1>3 DEF AskVe, Bus
  <2>2. info' = info \/ \E i : info' = [info EXCEPT ![k] = i]
    BY <1>3, Zenon DEF AskVe
  <2> QED
    BY <1>t, <1>2, <2>1, <2>2, LossesCount
<1>4. CASE AskSheet(k)
  <2>1. call' = call /\ \E out : Asks(k, ManufacturingInfo, out)
    BY <1>4 DEF AskSheet, Bus
  <2>2. info' = info \/ \E i : info' = [info EXCEPT ![k] = i]
    BY <1>4, <1>h, Zenon DEF AskSheet, Identified
  <2> QED
    BY <1>t, <1>2, <2>1, <2>2, LossesCount
<1>5. CASE AskSheetBlind(k)
  <2>1. call' = call /\ \E out : Asks(k, ManufacturingInfo, out)
    BY <1>5 DEF AskSheetBlind, Bus
  <2>2. info' = info \/ \E i : info' = [info EXCEPT ![k] = i]
    BY <1>5, <1>h, Zenon DEF AskSheetBlind, Identified
  <2> QED
    BY <1>t, <1>2, <2>1, <2>2, LossesCount
<1>6. CASE AskCapability(k)
  <2>1. call' = call /\ \E out : Asks(k, FullScaleQuery, out)
    BY <1>6 DEF AskCapability, Bus
  <2>2. \E i : info' = [info EXCEPT ![k] = i]
    BY <1>6, Zenon DEF AskCapability
  <2> QED
    BY <1>t, <1>2, <2>1, <2>2, LossesCount
<1>7. CASE AskFormat(k)
  <2>1. call' = call /\ (UNCHANGED <<lost, broken>> \/ \E out : Asks(k, DataFrameFormat, out))
    BY <1>7 DEF AskFormat, Bus
  <2>2. info' = info \/ \E i : info' = [info EXCEPT ![k] = i]
    BY <1>7, Zenon DEF AskFormat
  <2> QED
    BY <1>t, <1>2, <2>1, <2>2, LossesCount
<1>8. CASE AskExtra(k)
  <2>1. call' = call /\ (UNCHANGED <<lost, broken>> \/ \E c, out : Asks(k, c, out))
    BY <1>8 DEF AskExtra, Bus
  <2>2. info' = info \/ \E i : info' = [info EXCEPT ![k] = i]
    BY <1>8, Zenon DEF AskExtra
  <2> QED
    BY <1>t, <1>2, <2>1, <2>2, LossesCount
<1> QED
  BY <1>1, <1>3, <1>4, <1>5, <1>6, <1>7, <1>8 DEF Runs, Search, Identify, OpenDevice

\* Only a stop changes devices.
LEMMA DevicesKept ==
    ASSUME NEW k, Runs(k) \/ Cancel(k)
    PROVE  \/ devs' = devs /\ strayed' = strayed
           \/ step[k] = "recover" /\ Recover(k) /\ Obeys(k)
<1>1. CASE Recover(k)
  BY <1>1 DEF Recover
<1>2. CASE ~Recover(k)
  BY <1>2 DEF Runs, Search, Identify, OpenDevice, LockPort, TakeSlot, Sniff, OpenPort, OpenFails,
              Begin, Cancel, AskVe, AskSheet, AskSheetBlind, AskCapability, AskFormat, AskExtra,
              Bus
<1> QED
  BY <1>1, <1>2

LEMMA StoppedIs ==
    ASSUME NEW d, NEW x, NEW p, NEW i, NEW h, NEW r, NEW s, NEW f, NEW m, NEW l, NEW c, NEW o,
           d = [port |-> p, id |-> i, home |-> h, rate |-> r, streams |-> s, firmware |-> f,
                model |-> m, sheet |-> l, caps |-> c]
    PROVE  [d EXCEPT !.streams = o, !.id = x] =
              [port |-> d.port, id |-> x, home |-> d.home, rate |-> d.rate, streams |-> o,
               firmware |-> d.firmware, model |-> d.model, sheet |-> d.sheet, caps |-> d.caps]
<1> DEFINE a == [d EXCEPT !.streams = o]
           b == [a EXCEPT !.id = x]
<1>1. a = [port |-> p, id |-> i, home |-> h, rate |-> r, streams |-> o, firmware |-> f,
           model |-> m, sheet |-> l, caps |-> c]
  OBVIOUS
<1> HIDE DEF a
<1>2. b = [port |-> p, id |-> x, home |-> h, rate |-> r, streams |-> o, firmware |-> f,
           model |-> m, sheet |-> l, caps |-> c]
  BY <1>1
<1>3. b = [d EXCEPT !.streams = o, !.id = x]
  BY Zenon DEF a, b
<1>4. /\ d.port = p /\ d.home = h /\ d.rate = r /\ d.firmware = f /\ d.model = m
      /\ d.sheet = l /\ d.caps = c
  OBVIOUS
<1> QED
  BY <1>2, <1>3, <1>4, Zenon

Stopped(e, d, x) ==
    /\ IsDevice(e) /\ ~e.streams /\ e.id = x
    /\ e.port = d.port /\ e.home = d.home /\ e.rate = d.rate /\ e.firmware = d.firmware
    /\ e.model = d.model /\ e.sheet = d.sheet /\ e.caps = d.caps

LEMMA StoppedDevice ==
    ASSUME NEW d, IsDevice(d), NEW x, NEW e, e = [d EXCEPT !.streams = FALSE, !.id = x]
    PROVE  Stopped(e, d, x)
<1>1. d = [port |-> d.port, id |-> d.id, home |-> d.home, rate |-> d.rate,
           streams |-> d.streams, firmware |-> d.firmware, model |-> d.model,
           sheet |-> d.sheet, caps |-> d.caps]
  BY Zenon DEF IsDevice
<1>2. e = [port |-> d.port, id |-> x, home |-> d.home, rate |-> d.rate, streams |-> FALSE,
           firmware |-> d.firmware, model |-> d.model, sheet |-> d.sheet, caps |-> d.caps]
  BY <1>1, StoppedIs, Zenon
<1> QED
  BY <1>2 DEF IsDevice, Stopped

\* What a stop leaves of the devices.
LEMMA ObeysIs ==
    ASSUME Typed, NEW k \in Jobs, Obeys(k)
    PROVE  LET heard == {d \in Near(k) : devs[d].streams} IN
           /\ DOMAIN devs' = DOMAIN devs
           /\ \A d \in DOMAIN devs :
                /\ IsDevice(devs'[d])
                /\ devs'[d].port = devs[d].port /\ devs'[d].home = devs[d].home
                /\ devs'[d].rate = devs[d].rate /\ devs'[d].firmware = devs[d].firmware
                /\ devs'[d].model = devs[d].model /\ devs'[d].sheet = devs[d].sheet
                /\ devs'[d].caps = devs[d].caps
                /\ d \notin heard => devs'[d] = devs[d]
                /\ d \in heard => ~devs'[d].streams /\ devs'[d].id = Job(k).id
           /\ strayed' = (strayed \/ \E d \in heard : devs[d].home # Job(k).id)
<1> DEFINE heard == {d \in Near(k) : devs[d].streams}
<1>1. devs' = [d \in DOMAIN devs |->
                 IF d \in heard THEN [devs[d] EXCEPT !.streams = FALSE, !.id = Job(k).id]
                 ELSE devs[d]]
      /\ strayed' = (strayed \/ \E d \in heard : devs[d].home # Job(k).id)
  BY DEF Obeys, StopsAs
<1>2. ASSUME NEW d \in DOMAIN devs, d \in heard
      PROVE  /\ devs'[d] = [devs[d] EXCEPT !.streams = FALSE, !.id = Job(k).id]
             /\ IsDevice(devs[d])
  BY <1>1, <1>2 DEF Typed
<1>3. ASSUME NEW d \in DOMAIN devs, d \notin heard
      PROVE  devs'[d] = devs[d] /\ IsDevice(devs[d])
  BY <1>1, <1>3 DEF Typed
<1>4. ASSUME NEW d \in DOMAIN devs, d \in heard
      PROVE  /\ IsDevice(devs'[d])
             /\ devs'[d].port = devs[d].port /\ devs'[d].home = devs[d].home
             /\ devs'[d].rate = devs[d].rate /\ devs'[d].firmware = devs[d].firmware
             /\ devs'[d].model = devs[d].model /\ devs'[d].sheet = devs[d].sheet
             /\ devs'[d].caps = devs[d].caps
             /\ ~devs'[d].streams /\ devs'[d].id = Job(k).id
  <2>1. IsDevice(devs[d])
    BY <1>2, <1>4
  <2>2. devs'[d] = [devs[d] EXCEPT !.streams = FALSE, !.id = Job(k).id]
    BY <1>2, <1>4
  <2>3. \A e : e = [devs[d] EXCEPT !.streams = FALSE, !.id = Job(k).id]
                => Stopped(e, devs[d], Job(k).id)
    BY <2>1, StoppedDevice, Zenon
  <2>4. Stopped(devs'[d], devs[d], Job(k).id)
    BY <2>2, <2>3, Zenon
  <2> QED
    BY <2>4 DEF Stopped
<1>5. DOMAIN devs' = DOMAIN devs
  BY <1>1
<1> HIDE DEF heard
<1>6. \A d \in DOMAIN devs :
        /\ IsDevice(devs'[d])
        /\ devs'[d].port = devs[d].port /\ devs'[d].home = devs[d].home
        /\ devs'[d].rate = devs[d].rate /\ devs'[d].firmware = devs[d].firmware
        /\ devs'[d].model = devs[d].model /\ devs'[d].sheet = devs[d].sheet
        /\ devs'[d].caps = devs[d].caps
        /\ d \notin heard => devs'[d] = devs[d]
        /\ d \in heard => ~devs'[d].streams /\ devs'[d].id = Job(k).id
  BY <1>3, <1>4
<1> QED
  BY <1>1, <1>5, <1>6 DEF heard

-----------------------------------------------------------------------------
(* Ports and ids.                                                          *)

\* What a step has to keep, besides what StepIs and DevicesKept say.
Moved == /\ step' \in [Jobs -> Stages] /\ open' \subseteq Jobs
         /\ result' = [j \in Jobs |-> result'[j]]
         /\ Turns' /\ \A j \in Jobs : Holds(j)'

LEMMA Goes2 ==
    ASSUME PortsInv, NEW k \in Jobs, NEW s \in Stages \ {"start", "done"}, Goes(k, s),
           call' = call,
           k \in open \/ s \in Before,
           IsProbe(k) => s # "recover" /\ (s \in Before => k \notin open),
           ~IsProbe(k) => s \notin {"limited", "sniff"},
           s = "recover" => Job(k).recover,
           step[k] = "start" /\ IsProbe(k) =>
                \A j \in Jobs : Job(j).port = Job(k).port => step[j] \in {"start", "done"},
           step[k] # "done"
    PROVE  Moved
<1>1. open' = open /\ result' = result
  BY DEF Goes
<1>2. open' \subseteq Jobs /\ result' = [j \in Jobs |-> result'[j]]
  BY <1>1 DEF PortsInv, Typed
<1>3. step' \in [Jobs -> Stages] /\ Turns' /\ \A j \in Jobs : Holds(j)'
  BY GoesKeeps, Zenon
<1> QED
  BY <1>2, <1>3 DEF Moved

LEMMA Ends2 ==
    ASSUME PortsInv, NEW k \in Jobs, NEW res, Ends(k, res), call' = call, step[k] # "done",
           res = "ok" => k \in open
    PROVE  Moved
  BY EndsKeeps, Zenon DEF Moved

\* A job that goes on in a conversation with its device.
LEMMA TalksOn ==
    ASSUME PortsInv, NEW k \in Jobs, call' = call,
           step[k] \in {"sniff", "recover"} \cup Asking \cup Named,
           \/ \E s \in Asking \cup Named : Goes(k, s)
           \/ \E res : Ends(k, res)
    PROVE  Moved
<1>1. k \in open /\ step[k] \notin {"start", "done"}
  BY DEF PortsInv, Holds, Before, Asking, Named, Extras
<1>2. ASSUME NEW s \in Asking \cup Named, Goes(k, s) PROVE Moved
  BY <1>1, <1>2, Goes2 DEF Asking, Named, Extras, Before, Stages
<1>3. ASSUME NEW res, Ends(k, res) PROVE Moved
  BY <1>1, <1>3, Ends2
<1> QED
  BY <1>2, <1>3

LEMMA TalksOnBy ==
    ASSUME NEW k, Identify(k) \/ AskCapability(k) \/ AskFormat(k) \/ AskExtra(k) \/ Recover(k)
    PROVE  /\ step[k] \in {"sniff", "recover"} \cup Asking \cup Named
           /\ \/ \E s \in Asking \cup Named : Goes(k, s)
              \/ \E res : Ends(k, res)
<1>i. ASSUME NEW f, NEW m, Identified(k, f, m)
      PROVE  (\E s \in Asking \cup Named : Goes(k, s)) \/ (\E res : Ends(k, res))
  BY <1>i DEF Identified, Named
<1>h. ASSUME NEW f, ByHint(k, f)
      PROVE  (\E s \in Asking \cup Named : Goes(k, s)) \/ (\E res : Ends(k, res))
  BY <1>h, <1>i DEF ByHint
<1>1. CASE AskVe(k)
  BY <1>1 DEF AskVe, Asking
<1>2. CASE AskSheet(k)
  BY <1>2, <1>i, <1>h DEF AskSheet, Asking
<1>3. CASE AskSheetBlind(k)
  BY <1>3, <1>i, <1>h DEF AskSheetBlind, Asking
<1>4. CASE AskCapability(k)
  BY <1>4 DEF AskCapability, Named, Probes
<1>5. CASE AskFormat(k)
  BY <1>5 DEF AskFormat, Named, Extras
<1>6. CASE AskExtra(k)
  BY <1>6 DEF AskExtra, Extra, After, Named, Extras
<1>7. CASE Recover(k)
  BY <1>7 DEF Recover, Asking
<1> QED
  BY <1>1, <1>2, <1>3, <1>4, <1>5, <1>6, <1>7 DEF Identify

LEMMA PortOpened ==
    ASSUME PortsInv, NEW k \in Jobs, OpenPort(k), call' = call
    PROVE  Moved
<1> DEFINE s == IF IsProbe(k) THEN "sniff" ELSE IF Job(k).recover THEN "recover" ELSE "ve"
<1>1. /\ step[k] = "open" /\ step' = [step EXCEPT ![k] = s] /\ result' = result
      /\ open' = open \cup {k}
  BY DEF OpenPort
<1>2. /\ s \in {"sniff", "recover", "ve"} /\ (s = "sniff" <=> IsProbe(k))
      /\ (s = "recover" => Job(k).recover /\ ~IsProbe(k))
  OBVIOUS
<1> HIDE DEF s
<1>3. /\ step' \in [Jobs -> Stages] /\ step'[k] = s
      /\ \A j \in Jobs : j # k => step'[j] = step[j]
  BY <1>1, <1>2 DEF PortsInv, Typed, Stages, Asking
<1>4. ASSUME NEW j \in Jobs PROVE Holds(j)'
  BY <1>1, <1>2, <1>3, CallKept DEF PortsInv, Holds, Before
<1>5. Turns'
  BY <1>1, <1>2, <1>3, CallKept DEF PortsInv, Turns
<1> QED
  BY <1>1, <1>3, <1>4, <1>5 DEF Moved, PortsInv, Typed

LEMMA JobMoves ==
    ASSUME PortsInv, NEW k \in Jobs, Runs(k) \/ Cancel(k)
    PROVE  Moved
<1>c. call' = call
  BY StepIs DEF PortsInv
<1>h. Holds(k) /\ step[k] \in Stages
  BY DEF PortsInv, Typed
<1>1. CASE LockPort(k)
  <2>1. /\ IsProbe(k) /\ step[k] = "start" /\ (Ends(k, "skipped") \/ Goes(k, "limited"))
        /\ \A j \in Jobs : Job(j).port = Job(k).port => step[j] \in {"start", "done"}
    BY <1>1 DEF LockPort
  <2>2. CASE Ends(k, "skipped")
    BY <1>c, <2>1, <2>2, Ends2
  <2>3. CASE Goes(k, "limited")
    BY <1>c, <1>h, <2>1, <2>3, Goes2 DEF Holds, Before, Stages
  <2> QED
    BY <2>1, <2>2, <2>3
<1>2. CASE TakeSlot(k)
  BY <1>c, <1>h, <1>2, Goes2 DEF TakeSlot, Holds, Before, Stages
<1>3. CASE Sniff(k)
  <2>1. step[k] = "sniff" /\ (Ends(k, "streaming") \/ Goes(k, "ve"))
    BY <1>3 DEF Sniff
  <2> QED
    BY <1>c, <2>1, TalksOn DEF Asking
<1>4. CASE Begin(k)
  <2> DEFINE s == IF k \notin open THEN "open"
                  ELSE IF Job(k).recover /\ Job(k).how # "client" THEN "recover" ELSE "ve"
  <2>1. ~IsProbe(k) /\ step[k] = "start" /\ Goes(k, s)
    BY <1>4 DEF Begin
  <2>2. /\ s \in {"open", "recover", "ve"} /\ (s # "open" => k \in open)
        /\ (s = "recover" => Job(k).recover)
    OBVIOUS
  <2> HIDE DEF s
  <2> QED
    BY <1>c, <2>1, <2>2, Goes2 DEF Before, Stages, Asking
<1>5. CASE OpenPort(k)
  BY <1>c, <1>5, PortOpened
<1>6. CASE OpenFails(k)
  BY <1>c, <1>6, Ends2 DEF OpenFails
<1>7. CASE Cancel(k)
  BY <1>c, <1>7, Ends2 DEF Cancel
<1>8. CASE Identify(k) \/ AskCapability(k) \/ AskFormat(k) \/ AskExtra(k) \/ Recover(k)
  BY <1>c, <1>8, TalksOn, TalksOnBy
<1> QED
  BY <1>1, <1>2, <1>3, <1>4, <1>5, <1>6, <1>7, <1>8 DEF Runs, Search, OpenDevice

LEMMA PortsStep ==
    ASSUME PortsInv, NEW k \in Jobs, Runs(k) \/ Cancel(k)
    PROVE  PortsInv'
<1>1. /\ call' = call /\ lost' \in Nat
      /\ info' = [j \in Jobs |-> info'[j]]
  BY StepIs DEF PortsInv
<1>2. Moved /\ Jobs' = Jobs
  BY <1>1, JobMoves, CallKept
<1>3. CASE devs' = devs /\ strayed' = strayed
  BY <1>1, <1>2, <1>3 DEF PortsInv, Typed, IdsAtHome, Moved
<1>4. CASE Obeys(k)
  <2>1. /\ DOMAIN devs' = DOMAIN devs
        /\ \A d \in DOMAIN devs :
            /\ IsDevice(devs'[d])
            /\ devs'[d].port = devs[d].port /\ devs'[d].home = devs[d].home
            /\ \/ devs'[d] = devs[d]
               \/ devs'[d].id = Job(k).id /\ (strayed' \/ devs[d].home = Job(k).id)
        /\ strayed' \in BOOLEAN /\ (strayed => strayed')
    BY <1>4, ObeysIs DEF PortsInv, Typed
  <2>2. IdsAtHome'
    BY <2>1 DEF PortsInv, IdsAtHome
  <2>3. Typed'
    BY <1>1, <1>2, <2>1 DEF PortsInv, Typed, Moved, IsDevice
  <2> QED
    BY <1>2, <2>2, <2>3 DEF PortsInv, Moved
<1> QED
  BY <1>3, <1>4, DevicesKept

LEMMA PortsInit == Init => PortsInv
<1> SUFFICES ASSUME Init PROVE PortsInv
  OBVIOUS
<1>1. PICK s \in Scenarios :
        devs = s.devs /\ call = [jobs |-> s.jobs, stop |-> s.stop, slots |-> s.slots]
  BY DEF Init
<1>2. /\ step = [j \in Jobs |-> "start"] /\ result = [j \in Jobs |-> None]
      /\ info = [j \in Jobs |-> Unknown] /\ lost = 0 /\ strayed = FALSE
      /\ \A j \in Jobs : j \in open => Job(j).how \in {"transport", "client"}
      /\ \A j \in Jobs : Job(j).how = "client" => j \in open
      /\ open \subseteq Jobs
  BY DEF Init
<1>3. Typed /\ IdsAtHome
  <2>1. /\ \A d \in DOMAIN devs :
            /\ IsDevice(devs[d]) /\ devs[d].home = devs[d].id
            /\ \A c \in DOMAIN devs :
                devs[c].port = devs[d].port /\ devs[c].id = devs[d].id => c = d
    BY <1>1, OpeningAssumption
  <2>2. /\ step \in [Jobs -> Stages] /\ result = [j \in Jobs |-> result[j]]
        /\ info = [j \in Jobs |-> info[j]] /\ lost \in Nat /\ strayed \in BOOLEAN
    BY <1>2 DEF Stages, Before
  <2>3. \A d \in DOMAIN devs : \A c \in DOMAIN devs :
            devs[c].port = devs[d].port /\ devs[c].home = devs[d].home => c = d
    BY <2>1
  <2> QED
    BY <1>1, <1>2, <2>1, <2>2, <2>3, Zenon DEF Typed, IdsAtHome
<1>4. Turns /\ \A j \in Jobs : Holds(j)
  BY <1>2 DEF Turns, Holds, Before, IsProbe
<1> QED
  BY <1>3, <1>4 DEF PortsInv

LEMMA PortsInvariant == Spec => []PortsInv
<1>1. PortsInv /\ [Next]_vars => PortsInv'
  <2> SUFFICES ASSUME PortsInv, [Next]_vars PROVE PortsInv'
    OBVIOUS
  <2>1. CASE UNCHANGED vars
    BY <2>1 DEF vars, PortsInv, Typed, Turns, IdsAtHome, Holds, Jobs, Job, IsProbe
  <2>2. CASE Next
    BY <2>2, PortsStep DEF Next
  <2> QED
    BY <2>1, <2>2
<1> QED
  BY <1>1, PortsInit, PTL DEF Spec

\* A search holds a port only while it probes it and its combinations never meet on one;
\* open_device keeps the transport it made only with the device it returns, and never
\* closes a caller's (find_devices._run, probe, open_device: except BaseException).
THEOREM PortsAreAccounted == Spec => []PortsAccounted
<1>1. PortsInv => PortsAccounted
  <2> SUFFICES ASSUME PortsInv, NEW j \in Jobs
               PROVE  /\ step[j] = "done" =>
                            CASE Job(j).how = "probe" -> j \notin open
                              [] Job(j).how = "path" -> j \in open <=> result[j] = "ok"
                              [] Job(j).how = "client" -> j \in open
                              [] OTHER -> result[j] = "ok" => j \in open
                      /\ IsProbe(j) /\ step[j] = "open" =>
                            \A k \in open : Job(k).port = Job(j).port => ~IsProbe(k)
    BY DEF PortsAccounted
  <2> QED
    BY JobsAre DEF PortsInv, Typed, Holds, Turns, Before, IsProbe
<1> QED
  BY <1>1, PortsInvariant, PTL

\* Opening a device leaves the addresses of the others alone, as long as nobody but the
\* device being opened streams on the bus (_recover_from_stream: "@@ id").
THEOREM RecoveryIsAimed == Spec => []RecoveryAimed
<1>1. PortsInv => RecoveryAimed
  BY DEF PortsInv, Typed, IdsAtHome, RecoveryAimed
<1> QED
  BY <1>1, PortsInvariant, PTL

-----------------------------------------------------------------------------
(* What a job learns: the others.                                          *)

\* What the others do is not seen near a job, unless one of them stops a stream there.
LEMMA NearKept ==
    ASSUME PortsInv, AloneOnPort, NEW k \in Jobs, Runs(k) \/ Cancel(k), NEW j \in Jobs, j # k
    PROVE  /\ Near(j)' = Near(j) /\ Meant(j)' = Meant(j) /\ (Quiet(j)' <=> Quiet(j))
           /\ \A d \in Near(j) : devs'[d] = devs[d]
           /\ strayed => strayed'
<1>c. call' = call
  BY StepIs DEF PortsInv
<1>j. /\ Job(j)' = Job(j) /\ IsProbe(j)' = IsProbe(j)
  BY <1>c, CallKept
<1>1. CASE devs' = devs /\ strayed' = strayed
  BY <1>1, <1>j DEF Near, Meant, Quiet
<1>2. CASE step[k] = "recover" /\ Obeys(k)
  <2>1. Job(k).port # Job(j).port
    <3>1. ~IsProbe(k) /\ Job(k).recover
      BY <1>2 DEF PortsInv, Holds
    <3>2. PICK s \in Scenarios : call = [jobs |-> s.jobs, stop |-> s.stop, slots |-> s.slots]
      BY DEF PortsInv, Typed
    <3> QED
      BY <3>1, <3>2 DEF AloneOnPort, Jobs, Job, IsProbe
  <2>2. /\ DOMAIN devs' = DOMAIN devs
        /\ \A d \in DOMAIN devs :
            /\ devs'[d].port = devs[d].port /\ devs'[d].home = devs[d].home
            /\ devs'[d].rate = devs[d].rate
            /\ devs[d].port # Job(k).port => devs'[d] = devs[d]
        /\ strayed => strayed'
    <3>1. \A d \in {e \in Near(k) : devs[e].streams} : devs[d].port = Job(k).port
      BY DEF Near
    <3> QED
      BY <1>2, <3>1, ObeysIs DEF PortsInv, Typed
  <2>3. Near(j)' = Near(j) /\ \A d \in Near(j) : devs'[d] = devs[d]
    BY <1>j, <2>1, <2>2 DEF Near
  <2> QED
    BY <1>j, <2>2, <2>3 DEF Near, Meant, Quiet
<1> QED
  BY <1>1, <1>2, DevicesKept

\* What is true of a device stays true as replies get lost.
LEMMA TrueStays ==
    ASSUME lost \in Nat, lost' \in Nat, lost <= lost', broken \subseteq broken',
           NEW j, Job(j)' = Job(j), IsProbe(j)' <=> IsProbe(j), step'[j] = step[j],
           NEW d, devs'[d] = devs[d], NEW i
    PROVE  /\ FirmwareTrue(i, d) => FirmwareTrue(i, d)'
           /\ ModelTrue(i, d, j) => ModelTrue(i, d, j)'
           /\ CapsTrue(i, d, j) => CapsTrue(i, d, j)'
<1> USE DEF FirmwareTrue, ModelTrue, CapsTrue, ReportTrue, Shows
<1>1. FirmwareTrue(i, d) => FirmwareTrue(i, d)'
  OBVIOUS
<1>2. ModelTrue(i, d, j) => ModelTrue(i, d, j)'
  OBVIOUS
<1>3. CapsTrue(i, d, j) => CapsTrue(i, d, j)'
  OBVIOUS
<1> QED
  BY <1>1, <1>2, <1>3

\* The others neither move nor end.
LEMMA OthersWait ==
    ASSUME PortsInv, NEW k \in Jobs, Runs(k) \/ Cancel(k), NEW j \in Jobs, j # k
    PROVE  step'[j] = step[j] /\ result'[j] = result[j]
<1>1. ASSUME NEW s, Goes(k, s) PROVE step'[j] = step[j] /\ result'[j] = result[j]
  BY <1>1 DEF Goes, PortsInv, Typed
<1>2. ASSUME NEW res, Ends(k, res) PROVE step'[j] = step[j] /\ result'[j] = result[j]
  <2>1. step' = [step EXCEPT ![k] = "done"] /\ result' = [result EXCEPT ![k] = res]
    BY <1>2 DEF Ends
  <2>2. step'[j] = step[j]
    BY <2>1 DEF PortsInv, Typed
  <2>3. result = [i \in Jobs |-> result[i]]
    BY DEF PortsInv, Typed
  <2> QED
    BY <2>1, <2>2, <2>3
<1>3. CASE LockPort(k)
  BY <1>1, <1>2, <1>3 DEF LockPort
<1>4. CASE TakeSlot(k) \/ Sniff(k) \/ Begin(k) \/ OpenFails(k) \/ Cancel(k)
  BY <1>1, <1>2, <1>4 DEF TakeSlot, Sniff, Begin, OpenFails, Cancel
<1>5. CASE OpenPort(k)
  BY <1>5 DEF OpenPort, PortsInv, Typed
<1>6. CASE Identify(k) \/ AskCapability(k) \/ AskFormat(k) \/ AskExtra(k) \/ Recover(k)
  BY <1>1, <1>2, <1>6, TalksOnBy
<1> QED
  BY <1>3, <1>4, <1>5, <1>6 DEF Runs, Search, OpenDevice

LEMMA OthersKeep ==
    ASSUME FactsInv, AloneOnPort, NEW k \in Jobs, Runs(k) \/ Cancel(k), NEW j \in Jobs, j # k
    PROVE  Learned(j)' /\ Found(j)'
<1>p. PortsInv /\ Learned(j) /\ Found(j) /\ Typed
  BY DEF FactsInv, PortsInv
<1>1. /\ step'[j] = step[j] /\ result'[j] = result[j] /\ info'[j] = info[j]
      /\ Job(j)' = Job(j) /\ (IsProbe(j)' <=> IsProbe(j))
  BY <1>p, OthersWait, StepIs, CallKept
<1>2. /\ Near(j)' = Near(j) /\ Meant(j)' = Meant(j) /\ (Quiet(j)' <=> Quiet(j))
      /\ \A d \in Near(j) : devs'[d] = devs[d]
      /\ strayed => strayed'
  BY <1>p, NearKept
<1>3. lost \in Nat /\ lost' \in Nat /\ lost <= lost' /\ broken \subseteq broken'
  BY <1>p, StepIs DEF Typed
<1>4. ASSUME NEW d \in Meant(j)
      PROVE  /\ d \in Near(j) /\ devs'[d] = devs[d]
             /\ FirmwareTrue(info[j], d) => FirmwareTrue(info[j], d)'
             /\ ModelTrue(info[j], d, j) => ModelTrue(info[j], d, j)'
             /\ CapsTrue(info[j], d, j) => CapsTrue(info[j], d, j)'
  <2>1. d \in Near(j) /\ devs'[d] = devs[d]
    BY <1>2 DEF Meant
  <2>2. ASSUME NEW i
        PROVE  /\ FirmwareTrue(i, d) => FirmwareTrue(i, d)'
               /\ ModelTrue(i, d, j) => ModelTrue(i, d, j)'
               /\ CapsTrue(i, d, j) => CapsTrue(i, d, j)'
    BY <1>1, <1>3, <2>1, TrueStays
  <2> QED
    BY <2>1, <2>2, <1>1 DEF FirmwareTrue, ModelTrue, CapsTrue, ReportTrue
<1>5. ASSUME NEW d \in Meant(j)
      PROVE  /\ FirmwareTrue(info[j], d) => FirmwareTrue(info[j], d)'
             /\ ModelTrue(info[j], d, j) => ModelTrue(info[j], d, j)'
             /\ CapsTrue(info[j], d, j) => CapsTrue(info[j], d, j)'
  BY <1>4
<1>6. Found(j)'
  BY <1>p, <1>1, <1>2, <1>5 DEF Found
<1>7. Learned(j)'
  BY <1>p, <1>1, <1>2, <1>3, <1>4 DEF Learned, Blank, Unknown, Info
<1> QED
  BY <1>6, <1>7

-----------------------------------------------------------------------------
(* Updates of what is known.                                               *)

Complete(i) ==
    \E f, m, kd, md, c, r, u, sc, v, o : i = Info(f, m, kd, md, c, r, u, sc, v, o)

LEMMA SetFirmware ==
    ASSUME NEW i, Complete(i), NEW x
    PROVE  [i EXCEPT !.firmware = x] =
             Info(x, i.model, i.kind, i.media, i.caps, i.report, i.unit, i.scale, i.variable,
                  i.format)
<1>o. PICK f, m, kd, md, c, r, u, sc, v, o : i = Info(f, m, kd, md, c, r, u, sc, v, o)
  BY Zenon DEF Complete
<1>i. /\ i.firmware = f /\ i.model = m /\ i.kind = kd /\ i.media = md /\ i.caps = c
      /\ i.report = r /\ i.unit = u /\ i.scale = sc /\ i.variable = v /\ i.format = o
  BY <1>o DEF Info
<1>1. [i EXCEPT !.firmware = x] = Info(x, m, kd, md, c, r, u, sc, v, o)
  BY <1>o DEF Info
<1> QED
  BY <1>1, <1>i, Zenon

Identity(i, f2, m2, kd2, md2, r2) ==
    [i EXCEPT !.firmware = f2, !.model = m2, !.kind = kd2, !.media = md2, !.report = r2]

LEMMA SetIdentity ==
    ASSUME NEW i, Complete(i), NEW f2, NEW m2, NEW kd2, NEW md2, NEW r2
    PROVE  Identity(i, f2, m2, kd2, md2, r2) =
             Info(f2, m2, kd2, md2, i.caps, r2, i.unit, i.scale, i.variable, i.format)
<1>o. PICK f, m, kd, md, c, r, u, sc, v, o : i = Info(f, m, kd, md, c, r, u, sc, v, o)
  BY Zenon DEF Complete
<1>i. /\ i.firmware = f /\ i.model = m /\ i.kind = kd /\ i.media = md /\ i.caps = c
      /\ i.report = r /\ i.unit = u /\ i.scale = sc /\ i.variable = v /\ i.format = o
  BY <1>o DEF Info
<1> DEFINE a == [i EXCEPT !.firmware = f2]
           b == [a EXCEPT !.model = m2]
           d == [b EXCEPT !.kind = kd2]
           e == [d EXCEPT !.media = md2]
           g == [e EXCEPT !.report = r2]
<1>1. g = Identity(i, f2, m2, kd2, md2, r2)
  BY Zenon DEF a, b, d, e, g, Identity
<1>2. a = Info(f2, m, kd, md, c, r, u, sc, v, o)
  BY <1>o DEF Info
<1> HIDE DEF a
<1>3. b = Info(f2, m2, kd, md, c, r, u, sc, v, o)
  BY <1>2 DEF Info
<1> HIDE DEF b
<1>4. d = Info(f2, m2, kd2, md, c, r, u, sc, v, o)
  BY <1>3 DEF Info
<1> HIDE DEF d
<1>5. e = Info(f2, m2, kd2, md2, c, r, u, sc, v, o)
  BY <1>4 DEF Info
<1> HIDE DEF e
<1>6. g = Info(f2, m2, kd2, md2, c, r2, u, sc, v, o)
  BY <1>5 DEF Info
<1> QED
  BY <1>1, <1>i, <1>6, Zenon

Capable(i, c2, r2) ==
    [i EXCEPT !.caps = c2, !.report = r2]

LEMMA SetCapability ==
    ASSUME NEW i, Complete(i), NEW c2, NEW r2
    PROVE  Capable(i, c2, r2) =
             Info(i.firmware, i.model, i.kind, i.media, c2, r2, i.unit, i.scale, i.variable, i.format)
<1>o. PICK f, m, kd, md, c, r, u, sc, v, o : i = Info(f, m, kd, md, c, r, u, sc, v, o)
  BY Zenon DEF Complete
<1>i. /\ i.firmware = f /\ i.model = m /\ i.kind = kd /\ i.media = md /\ i.caps = c
      /\ i.report = r /\ i.unit = u /\ i.scale = sc /\ i.variable = v /\ i.format = o
  BY <1>o DEF Info
<1> DEFINE a == [i EXCEPT !.caps = c2]
           b == [a EXCEPT !.report = r2]
<1>1. b = Capable(i, c2, r2)
  BY Zenon DEF a, b, Capable
<1>2. a = Info(f, m, kd, md, c2, r, u, sc, v, o)
  BY <1>o DEF Info
<1> HIDE DEF a
<1>3. b = Info(f, m, kd, md, c2, r2, u, sc, v, o)
  BY <1>2 DEF Info
<1> QED
  BY <1>1, <1>i, <1>3, Zenon

Assumed(i, c2, md2, o2) ==
    [[i EXCEPT !.caps = c2, !.media = md2] EXCEPT !.format = o2]

LEMMA SetAssumed ==
    ASSUME NEW i, Complete(i), NEW c2, NEW md2, NEW o2
    PROVE  Assumed(i, c2, md2, o2) =
             Info(i.firmware, i.model, i.kind, md2, c2, i.report, i.unit, i.scale, i.variable, o2)
<1>o. PICK f, m, kd, md, c, r, u, sc, v, o : i = Info(f, m, kd, md, c, r, u, sc, v, o)
  BY Zenon DEF Complete
<1>i. /\ i.firmware = f /\ i.model = m /\ i.kind = kd /\ i.media = md /\ i.caps = c
      /\ i.report = r /\ i.unit = u /\ i.scale = sc /\ i.variable = v /\ i.format = o
  BY <1>o DEF Info
<1> DEFINE a == [i EXCEPT !.caps = c2]
           b == [a EXCEPT !.media = md2]
           d == [b EXCEPT !.format = o2]
<1>1. d = Assumed(i, c2, md2, o2)
  BY Zenon DEF a, b, d, Assumed
<1>2. a = Info(f, m, kd, md, c2, r, u, sc, v, o)
  BY <1>o DEF Info
<1> HIDE DEF a
<1>3. b = Info(f, m, kd, md2, c2, r, u, sc, v, o)
  BY <1>2 DEF Info
<1> HIDE DEF b
<1>4. d = Info(f, m, kd, md2, c2, r, u, sc, v, o2)
  BY <1>3 DEF Info
<1> QED
  BY <1>1, <1>i, <1>4, Zenon

LEMMA SetExtra ==
    ASSUME NEW i, Complete(i), NEW s \in Extras, NEW x
    PROVE  \E u2, sc2, v2 :
              /\ [i EXCEPT ![s] = x] = Info(i.firmware, i.model, i.kind, i.media, i.caps,
                                           i.report, u2, sc2, v2, i.format)
              /\ u2 \in {i.unit, x} /\ sc2 \in {i.scale, x} /\ v2 \in {i.variable, x}
<1>o. PICK f, m, kd, md, c, r, u, sc, v, o : i = Info(f, m, kd, md, c, r, u, sc, v, o)
  BY Zenon DEF Complete
<1>i. /\ i.firmware = f /\ i.model = m /\ i.kind = kd /\ i.media = md /\ i.caps = c
      /\ i.report = r /\ i.unit = u /\ i.scale = sc /\ i.variable = v /\ i.format = o
  BY <1>o DEF Info
<1>1. CASE s = "unit"
  <2>1. [i EXCEPT ![s] = x] = Info(f, m, kd, md, c, r, x, sc, v, o)
    BY <1>o, <1>1 DEF Info
  <2> QED
    BY <2>1, <1>i
<1>2. CASE s = "scale"
  <2>1. [i EXCEPT ![s] = x] = Info(f, m, kd, md, c, r, u, x, v, o)
    BY <1>o, <1>2 DEF Info
  <2> QED
    BY <2>1, <1>i
<1>3. CASE s = "variable"
  <2>1. [i EXCEPT ![s] = x] = Info(f, m, kd, md, c, r, u, sc, x, o)
    BY <1>o, <1>3 DEF Info
  <2> QED
    BY <2>1, <1>i
<1> QED
  BY <1>1, <1>2, <1>3 DEF Extras

-----------------------------------------------------------------------------
(* Answers.                                                                *)

\* The only answer comes from the device that is meant, and nobody streams.
LEMMA AnswerIs ==
    ASSUME PortsInv, ~strayed, NEW k \in Jobs, NEW c, Asks(k, c, "answer")
    PROVE  /\ Quiet(k)
           /\ Meant(k) = {Answerer(k, c)}
           /\ Takes(Answerer(k, c), info[k], c)
<1>1. Cardinality(Answering(k, c)) = 1 /\ ~\E d \in Near(k) : devs[d].streams
  BY DEF Asks, Outcomes
<1>2. Answering(k, c) # {}
  BY <1>1, FS_EmptySet
<1>3. Answerer(k, c) \in Answering(k, c)
  BY <1>2 DEF Answerer
<1>4. Answerer(k, c) \in Meant(k) /\ Takes(Answerer(k, c), info[k], c)
  BY <1>3 DEF Answering, Addressed, Near, Meant, PortsInv, IdsAtHome
<1>5. \A d \in Meant(k) : d = Answerer(k, c)
  BY <1>4 DEF Near, Meant, PortsInv, Typed
<1> QED
  BY <1>1, <1>4, <1>5 DEF Quiet

\* The device that is meant fails to answer what it takes only if its answer is lost.
LEMMA NoAnswerIs ==
    ASSUME PortsInv, ~strayed, NEW k \in Jobs, NEW c, NEW out, Asks(k, c, out),
           out \notin {"answer", "broken"}, Quiet(k), NEW d \in Meant(k), Takes(d, info[k], c)
    PROVE  lost' = lost + 1
<1>1. d \in Answering(k, c)
  BY DEF Answering, Addressed, Near, Meant, Quiet, PortsInv, IdsAtHome
<1>2. Answering(k, c) = {d}
  BY <1>1 DEF Answering, Addressed, Near, Meant, PortsInv, Typed, IdsAtHome
<1>3. Cardinality(Answering(k, c)) = 1
  BY <1>2, FS_Singleton
<1>4. out = "timeout"
  BY <1>1, <1>3 DEF Asks, Outcomes, Quiet
<1> QED
  BY <1>1, <1>4 DEF Asks

-----------------------------------------------------------------------------
(* What a job learns: its own steps.                                       *)

LEMMA OwnInfo ==
    ASSUME FactsInv, NEW k \in Jobs
    PROVE  Complete(info[k])
<1>1. Learned(k)
  BY DEF FactsInv
<1>2. info[k] = Info(info[k].firmware, info[k].model, info[k].kind, info[k].media, info[k].caps,
                     info[k].report, info[k].unit, info[k].scale, info[k].variable,
                     info[k].format)
  BY <1>1, Zenon DEF Learned
<1> QED
  BY <1>2, Zenon DEF Complete

LEMMA SceneKept ==
    ASSUME call' = call, devs' = devs, strayed' = strayed, NEW k
    PROVE  /\ Near(k)' = Near(k) /\ Meant(k)' = Meant(k) /\ (Quiet(k)' <=> Quiet(k))
           /\ Job(k)' = Job(k) /\ (IsProbe(k)' <=> IsProbe(k))
  BY CallKept DEF Near, Meant, Quiet, Job

\* A job that ends without a device.
LEMMA EndsBadly ==
    ASSUME FactsInv, NEW k \in Jobs, NEW res, res # "ok", Ends(k, res), info' = info
    PROVE  Learned(k)' /\ Found(k)'
<1>1. step'[k] = "done" /\ result'[k] = res
  BY DEF Ends, FactsInv, PortsInv, Typed
<1>2. info'[k] = Info(info'[k].firmware, info'[k].model, info'[k].kind, info'[k].media,
                     info'[k].caps, info'[k].report, info'[k].unit, info'[k].scale,
                     info'[k].variable, info'[k].format)
  BY Zenon DEF FactsInv, Learned
<1>3. Found(k)'
  BY <1>1 DEF Found
<1>4. Learned(k)'
  BY <1>1, <1>2, Zenon DEF Learned, Before, Asking, Named, Extras
<1> QED
  BY <1>3, <1>4

\* A job that goes on before it has asked anything.
LEMMA UnknownKept ==
    ASSUME FactsInv, NEW k \in Jobs, info' = info,
           step[k] \in Before \cup {"sniff", "recover", "ve"},
           step'[k] \in Before \cup {"sniff", "recover", "ve"}, result'[k] = result[k]
    PROVE  Learned(k)' /\ Found(k)'
<1>1. info'[k] = Unknown /\ result'[k] # "ok"
  BY DEF FactsInv, Learned, Before
<1>2. step'[k] \notin Named \cup {"sheet", "gp", "done"}
  BY DEF Before, Named, Extras
<1>3. info'[k] = Info(info'[k].firmware, info'[k].model, info'[k].kind, info'[k].media,
                     info'[k].caps, info'[k].report, info'[k].unit, info'[k].scale,
                     info'[k].variable, info'[k].format)
  BY Zenon DEF FactsInv, Learned
<1>4. Found(k)'
  BY <1>1 DEF Found
<1>5. Learned(k)'
  BY <1>1, <1>2, <1>3, Zenon DEF Learned, Named
<1> QED
  BY <1>4, <1>5

\* How a job that knows something goes on.
LEMMA GoesOn ==
    ASSUME FactsInv, NEW k \in Jobs, NEW s, Goes(k, s), NEW i, info' = [info EXCEPT ![k] = i]
    PROVE  step'[k] = s /\ info'[k] = i /\ result'[k] = result[k]
  BY DEF FactsInv, PortsInv, Typed, Goes

LEMMA EndsWith ==
    ASSUME FactsInv, NEW k \in Jobs, NEW res, Ends(k, res), NEW i,
           info' = [info EXCEPT ![k] = i]
    PROVE  step'[k] = "done" /\ info'[k] = i /\ result'[k] = res
<1>1. step'[k] = "done" /\ info'[k] = i
  BY DEF FactsInv, PortsInv, Typed, Ends
<1>2. result' = [result EXCEPT ![k] = res] /\ result = [j \in Jobs |-> result[j]]
  BY DEF FactsInv, PortsInv, Typed, Ends
<1> QED
  BY <1>1, <1>2

LEMMA VeLearns ==
    ASSUME FactsInv, NEW k \in Jobs, AskVe(k)
    PROVE  Learned(k)' /\ Found(k)'
<1>p. PortsInv /\ Learned(k) /\ step[k] = "ve" /\ lost \in Nat
  BY DEF FactsInv, PortsInv, Typed, AskVe
<1>k. UNCHANGED <<devs, call, strayed>>
  BY DEF AskVe, Bus
<1>s. /\ Meant(k)' = Meant(k) /\ (Quiet(k)' <=> Quiet(k))
  BY <1>k, SceneKept
<1>i. info[k] = Unknown /\ result[k] # "ok"
  BY <1>p DEF Learned, Before
<1>o. Complete(info[k])
  BY OwnInfo
<1>b. Blank(info[k])
  BY <1>i DEF Unknown, Blank
<1> DEFINE n == info[k]
<1>1. ASSUME Asks(k, Ve, "answer"), Goes(k, "sheet"),
             info' = [info EXCEPT ![k].firmware = Asked(k, Ve).firmware]
      PROVE  Learned(k)' /\ Found(k)'
  <2> DEFINE f == Asked(k, Ve).firmware
             i == Info(f, n.model, n.kind, n.media, n.caps, n.report, n.unit, n.scale, n.variable,
                       n.format)
  <2>1. [info[k] EXCEPT !.firmware = f] = i
    BY <1>o, SetFirmware
  <2>2. info' = [info EXCEPT ![k] = i]
    BY <1>1, <2>1
  <2>3. step'[k] = "sheet" /\ info'[k] = i /\ result'[k] = result[k]
    BY <1>1, <2>2, GoesOn
  <2>4. ~strayed => \A d \in Meant(k) : f = devs[d].firmware
    BY <1>1, <1>p, AnswerIs DEF Asked
  <2>5. info'[k].firmware = f /\ Blank(info'[k])
    BY <1>b, <2>3 DEF Info, Blank
  <2>6. Found(k)'
    BY <1>i, <2>3 DEF Found
  <2>7. Learned(k)'
    BY <1>i, <1>k, <1>s, <2>3, <2>4, <2>5 DEF Learned, Before, Named, Extras, Info
  <2> QED
    BY <2>6, <2>7
<1>2. ASSUME Asks(k, Ve, "timeout"), Goes(k, "gp"), info' = [info EXCEPT ![k].firmware = GP]
      PROVE  Learned(k)' /\ Found(k)'
  <2> DEFINE i == Info(GP, n.model, n.kind, n.media, n.caps, n.report, n.unit, n.scale, n.variable,
                       n.format)
  <2>1. [info[k] EXCEPT !.firmware = GP] = i
    BY <1>o, SetFirmware
  <2>2. info' = [info EXCEPT ![k] = i]
    BY <1>2, <2>1
  <2>3. step'[k] = "gp" /\ info'[k] = i /\ result'[k] = result[k]
    BY <1>2, <2>2, GoesOn
  <2>4. ASSUME ~strayed, Quiet(k), NEW d \in Meant(k), devs[d].firmware # GP
        PROVE  lost' > 0
    <3>1. info[k].firmware # GP
      BY <1>i DEF Unknown, Version, GP
    <3>2. Takes(d, info[k], Ve)
      <4>1. devs[d].firmware.family \in Families
        BY <1>p DEF PortsInv, Typed, IsDevice, Meant, Near
      <4> QED
        BY <2>4, <3>1, <4>1 DEF Takes, Hears, Ve, Command, Older, Comparable, Unbounded, Version,
                                Families, Numeric
    <3> QED
      BY <1>2, <1>p, <2>4, <3>2, NoAnswerIs
  <2>5. info'[k].firmware = GP /\ Blank(info'[k])
    BY <1>b, <2>3 DEF Info, Blank
  <2>6. Found(k)'
    BY <1>i, <2>3 DEF Found
  <2>7. Learned(k)'
    BY <1>i, <1>k, <1>s, <2>3, <2>4, <2>5 DEF Learned, Before, Named, Extras, Info
  <2> QED
    BY <2>6, <2>7
<1>3. ASSUME NEW out \in {"rejected", "garbled", "broken"}, Ends(k, out), info' = info
      PROVE  Learned(k)' /\ Found(k)'
  BY <1>3, EndsBadly
<1> QED
  BY <1>1, <1>2, <1>3 DEF AskVe

FirmwareSaid(f, d) ==
    \/ f = devs[d].firmware
    \/ f = GP /\ (lost' > 1 \/ (lost' = 1 /\ ~Shows(d, "software")))
ModelSaid(m, d, k) ==
    \/ m = devs[d].model
    \/ m = Job(k).hint /\ (lost' > 0 \/ ~Shows(d, "model"))

LEMMA IdentifiedLearns ==
    ASSUME FactsInv, NEW k \in Jobs, step[k] \in {"sheet", "gp"},
           NEW f, NEW m, Identified(k, f, m), UNCHANGED <<devs, call, strayed>>,
           ~strayed /\ Quiet(k) => \A d \in Meant(k) : FirmwareSaid(f, d) /\ ModelSaid(m, d, k),
           ~strayed /\ IsProbe(k) => Quiet(k) /\ Meant(k) # {}
    PROVE  Learned(k)' /\ Found(k)'
<1>s. /\ Meant(k)' = Meant(k) /\ (Quiet(k)' <=> Quiet(k)) /\ (IsProbe(k)' <=> IsProbe(k))
      /\ Job(k)' = Job(k)
  BY SceneKept
<1>o. Complete(info[k])
  BY OwnInfo
<1>p. PortsInv
  BY DEF FactsInv
<1>b. Blank(info[k]) /\ result[k] # "ok"
  BY DEF FactsInv, Learned
<1> DEFINE kd == Kind(m)
           md == Media(m)
           n == info[k]
           report == IF IsProbe(k) THEN n.report ELSE AllAbsent
           i == Info(f, m, kd, md, n.caps, report, n.unit, n.scale, n.variable, n.format)
           e == [info[k] EXCEPT !.firmware = f, !.model = m, !.kind = kd, !.media = md,
                                !.report = report]
<1>1. info' = [info EXCEPT ![k] = e]
  BY Zenon DEF Identified
<1>2. e = i
  <2> HIDE DEF kd, md, report
  <2>1. Identity(info[k], f, m, kd, md, report) = i
    BY <1>o, SetIdentity, Zenon
  <2> QED
    BY <2>1, Zenon DEF Identity
<1>3. info' = [info EXCEPT ![k] = i]
  BY <1>1, <1>2
<1> HIDE DEF kd, md, e
<1>4. /\ i.firmware = f /\ i.model = m /\ i.caps = {} /\ (~IsProbe(k) => i.report = AllAbsent)
      /\ i.unit = None /\ i.scale = None /\ i.variable = None
  BY <1>b DEF Info, Blank
<1>5. i = Info(i.firmware, i.model, i.kind, i.media, i.caps, i.report, i.unit, i.scale,
               i.variable, i.format)
  BY DEF Info
<1> HIDE DEF i
<1>6. ASSUME NEW d \in Meant(k), ~strayed, Quiet(k), info'[k] = i
      PROVE  FirmwareTrue(info[k], d)' /\ ModelTrue(info[k], d, k)' /\ CapsTrue(info[k], d, k)'
  <2>1. FirmwareSaid(f, d) /\ ModelSaid(m, d, k)
    BY <1>6
  <2>2. FirmwareTrue(info[k], d)'
    BY <2>1, <1>4, <1>6 DEF FirmwareTrue, FirmwareSaid, Shows
  <2>3. ModelTrue(info[k], d, k)'
    BY <2>1, <1>4, <1>6, <1>s DEF ModelTrue, ModelSaid, Shows
  <2>4. CapsTrue(info[k], d, k)'
    <3>1. CASE IsProbe(k)
      BY <1>4, <1>6, <1>s, <3>1 DEF CapsTrue
    <3>2. CASE ~IsProbe(k)
      <4>1. f.family = "GP" => f = GP
        BY <1>p, <1>6, <2>1 DEF PortsInv, Typed, IsDevice, Meant, Near, FirmwareSaid
      <4>2. f # GP => step'[k] = "barometer"
        BY <1>p, <3>2, <4>1 DEF Identified, Goes, PortsInv, Typed
      <4>3. f # GP => ToAsk(step'[k]) = Probes
        BY <4>2 DEF ToAsk
      <4>4. \A c \in Capabilities : i.report[c] = "absent"
        BY <1>4, <3>2 DEF AllAbsent
      <4> QED
        BY <1>4, <1>6, <1>s, <4>3, <4>4 DEF CapsTrue, ReportTrue
    <3> QED
      BY <3>1, <3>2
  <2> QED
    BY <2>2, <2>3, <2>4
<1>7. CASE IsProbe(k)
  <2>1. Ends(k, "ok")
    BY <1>7 DEF Identified
  <2>2. step'[k] = "done" /\ info'[k] = i /\ result'[k] = "ok"
    BY <1>3, <2>1, EndsWith
  <2>3. Found(k)'
    BY <1>4, <1>6, <1>7, <1>s, <2>2 DEF Found
  <2>4. Learned(k)'
    BY <1>5, <2>2, Zenon DEF Learned, Before, Named, Extras
  <2> QED
    BY <2>3, <2>4
<1>8. CASE ~IsProbe(k)
  <2>1. PICK s \in {"format", "barometer"} : Goes(k, s)
    BY <1>8 DEF Identified
  <2>2. step'[k] = s /\ info'[k] = i /\ result'[k] = result[k]
    BY <1>3, <2>1, GoesOn
  <2>3. Found(k)'
    BY <1>b, <2>2 DEF Found
  <2>4. s \in Named /\ s \notin Extras \cup Before \cup {"sniff", "recover", "ve", "sheet", "gp", "done"}
    BY DEF Named, Extras, Before
  <2>5. Learned(k)'
    BY <1>b, <1>4, <1>5, <1>6, <1>8, <1>s, <2>2, <2>4 DEF Learned, AllAbsent
  <2> QED
    BY <2>3, <2>5
<1> QED
  BY <1>7, <1>8

LEMMA HintLearns ==
    ASSUME FactsInv, NEW k \in Jobs, step[k] \in {"sheet", "gp"},
           NEW f, ByHint(k, f), UNCHANGED <<devs, call, strayed>>,
           ~strayed /\ Quiet(k) => \A d \in Meant(k) :
                FirmwareSaid(f, d) /\ (lost' > 0 \/ ~Shows(d, "model"))
    PROVE  Learned(k)' /\ Found(k)'
<1>1. CASE Job(k).hint # None
  <2>1. Identified(k, f, Job(k).hint)
    BY <1>1 DEF ByHint
  <2>2. ~IsProbe(k)
    BY <1>1, JobsAre DEF FactsInv, PortsInv
  <2>3. ~strayed /\ Quiet(k) => \A d \in Meant(k) :
            FirmwareSaid(f, d) /\ ModelSaid(Job(k).hint, d, k)
    BY DEF ModelSaid
  <2> QED
    BY <2>1, <2>2, <2>3, IdentifiedLearns, Zenon
<1>2. CASE Job(k).hint = None
  BY <1>2, EndsBadly DEF ByHint
<1> QED
  BY <1>1, <1>2

LEMMA SheetLearns ==
    ASSUME FactsInv, NEW k \in Jobs, AskSheet(k)
    PROVE  Learned(k)' /\ Found(k)'
<1>p. /\ PortsInv /\ Learned(k) /\ step[k] = "sheet" /\ lost \in Nat
      /\ UNCHANGED <<devs, call, strayed>>
  BY DEF FactsInv, PortsInv, Typed, AskSheet, Bus
<1>f. ~strayed /\ Quiet(k) => \A d \in Meant(k) : FirmwareSaid(info[k].firmware, d)
  BY <1>p DEF Learned, FirmwareSaid
<1>b. ASSUME NEW out, Ends(k, out), out = "broken", info' = info PROVE Learned(k)' /\ Found(k)'
  BY <1>b, EndsBadly
<1>1. PICK out : Asks(k, ManufacturingInfo, out) /\
        IF out = "broken" THEN Ends(k, out) /\ info' = info
        ELSE IF out = "answer" /\ "model" \in Asked(k, ManufacturingInfo).sheet
        THEN Identified(k, info[k].firmware, Asked(k, ManufacturingInfo).model)
        ELSE ByHint(k, info[k].firmware)
  BY DEF AskSheet
<1>2. CASE out = "answer" /\ "model" \in Asked(k, ManufacturingInfo).sheet
  <2>1. ~strayed => /\ Quiet(k) /\ Meant(k) # {}
                    /\ \A d \in Meant(k) : devs[d].model = Asked(k, ManufacturingInfo).model
    BY <1>1, <1>2, <1>p, AnswerIs DEF Asked
  <2>2. ~strayed /\ Quiet(k) => \A d \in Meant(k) :
            /\ FirmwareSaid(info[k].firmware, d)
            /\ ModelSaid(Asked(k, ManufacturingInfo).model, d, k)
    BY <1>f, <2>1 DEF ModelSaid
  <2> QED
    BY <1>1, <1>2, <1>p, <2>1, <2>2, IdentifiedLearns
<1>4. CASE out = "broken"
  BY <1>1, <1>4, <1>b
<1>3. CASE out # "broken" /\ ~(out = "answer" /\ "model" \in Asked(k, ManufacturingInfo).sheet)
  <2>1. ASSUME ~strayed, Quiet(k), NEW d \in Meant(k), Shows(d, "model") PROVE lost' > 0
    <3>1. CASE out = "answer"
      BY <1>1, <1>3, <1>p, <2>1, <3>1, AnswerIs DEF Asked, Shows
    <3>2. CASE out # "answer"
      <4>1. info[k].firmware = devs[d].firmware /\ devs[d].firmware.family \in Families
        BY <1>p, <2>1 DEF Learned, PortsInv, Typed, IsDevice, Meant, Near
      <4>2. Takes(d, info[k], ManufacturingInfo)
        BY <2>1, <4>1 DEF Takes, Hears, Shows, ManufacturingInfo, Command, Older, Comparable,
                          Unbounded, Version, Families, Numeric
      <4> QED
        BY <1>1, <1>3, <1>p, <2>1, <3>2, <4>2, NoAnswerIs
    <3> QED
      BY <3>1, <3>2
  <2> QED
    BY <1>1, <1>3, <1>f, <1>p, <2>1, HintLearns
<1> QED
  BY <1>2, <1>3, <1>4

\* A device that has an answer to ??M* takes the question.
LEMMA SheetTaken ==
    ASSUME PortsInv, NEW k, NEW d \in Meant(k), devs[d].sheet # None, NEW i
    PROVE  Takes(d, i, ManufacturingInfo)
<1>1. devs[d].firmware.family \in Families
  BY DEF PortsInv, Typed, IsDevice, Meant, Near
<1> QED
  BY <1>1 DEF Takes, Hears, ManufacturingInfo, Command, Older, Comparable, Unbounded, Version,
              Families, Numeric

LEMMA BlindLearns ==
    ASSUME FactsInv, NEW k \in Jobs, AskSheetBlind(k)
    PROVE  Learned(k)' /\ Found(k)'
<1> DEFINE a == Answerer(k, ManufacturingInfo)
<1>p. /\ PortsInv /\ Learned(k) /\ step[k] = "gp" /\ lost \in Nat
      /\ UNCHANGED <<devs, call, strayed>>
  BY DEF FactsInv, PortsInv, Typed, AskSheetBlind, Bus
<1>g. ~strayed /\ Quiet(k) => \A d \in Meant(k) : devs[d].firmware = GP \/ lost > 0
  BY <1>p DEF Learned
<1>b. ASSUME NEW out, Ends(k, out), out = "broken", info' = info PROVE Learned(k)' /\ Found(k)'
  BY <1>b, EndsBadly
<1>1. PICK out : Asks(k, ManufacturingInfo, out) /\
        IF out = "broken" THEN Ends(k, out) /\ info' = info
        ELSE IF out # "answer" THEN ByHint(k, GP)
        ELSE IF "model" \in devs[a].sheet THEN Identified(k, Software(a), devs[a].model)
             ELSE ByHint(k, Software(a))
  BY DEF AskSheetBlind, Asked
<1>l. lost' \in Nat /\ lost <= lost'
  BY <1>1, <1>p, LossesCount DEF PortsInv
<1>2. CASE out = "answer"
  <2>1. ~strayed => Quiet(k) /\ Meant(k) = {a} /\ Takes(a, info[k], ManufacturingInfo)
    BY <1>1, <1>2, <1>p, AnswerIs
  <2>2. ~strayed => devs[a].sheet # None
    BY <2>1 DEF Takes, ManufacturingInfo, Command
  <2> HIDE DEF a
  <2>3. ~strayed => FirmwareSaid(Software(a), a)
    BY <1>g, <1>l, <1>p, <2>1, <2>2 DEF FirmwareSaid, Software, Shows
  <2>4. CASE "model" \in devs[a].sheet
    <3>1. Identified(k, Software(a), devs[a].model)
      BY <1>1, <1>2, <2>4
    <3>2. ~strayed /\ Quiet(k) => \A d \in Meant(k) :
            FirmwareSaid(Software(a), d) /\ ModelSaid(devs[a].model, d, k)
      BY <2>1, <2>3 DEF ModelSaid
    <3>3. ~strayed /\ IsProbe(k) => Quiet(k) /\ Meant(k) # {}
      BY <2>1
    <3> QED
      BY <1>p, <3>1, <3>2, <3>3, IdentifiedLearns
  <2>5. CASE "model" \notin devs[a].sheet
    <3>1. ByHint(k, Software(a))
      BY <1>1, <1>2, <2>5
    <3>2. ~strayed /\ Quiet(k) => \A d \in Meant(k) :
            FirmwareSaid(Software(a), d) /\ (lost' > 0 \/ ~Shows(d, "model"))
      BY <2>1, <2>3, <2>5 DEF Shows
    <3> QED
      BY <1>p, <3>1, <3>2, HintLearns
  <2> QED
    BY <2>4, <2>5
<1>4. CASE out = "broken"
  BY <1>1, <1>4, <1>b
<1>3. CASE out \notin {"answer", "broken"}
  <2>1. ASSUME ~strayed, Quiet(k), NEW d \in Meant(k), devs[d].sheet # None PROVE lost' = lost + 1
    BY <1>1, <1>3, <1>p, <2>1, SheetTaken, NoAnswerIs
  <2>2. ~strayed /\ Quiet(k) => \A d \in Meant(k) :
            FirmwareSaid(GP, d) /\ (lost' > 0 \/ ~Shows(d, "model"))
    BY <1>g, <1>l, <1>p, <2>1 DEF FirmwareSaid, Shows
  <2>3. ByHint(k, GP)
    BY <1>1, <1>3
  <2> QED
    BY <1>p, <2>2, <2>3, HintLearns
<1> QED
  BY <1>2, <1>3, <1>4

\* A job that has identified its device goes on among the probes of open_device.
LEMMA CapabilityLearns ==
    ASSUME FactsInv, NEW k \in Jobs, AskCapability(k)
    PROVE  Learned(k)' /\ Found(k)'
<1> DEFINE n == info[k]
<1>p. /\ PortsInv /\ Learned(k) /\ lost \in Nat /\ step[k] \in {"barometer", "secondary_pressure"}
      /\ UNCHANGED <<devs, call, strayed>>
  BY DEF FactsInv, PortsInv, Typed, AskCapability, Bus, Probes
<1>1. PICK out \in {"answer", "rejected", "garbled", "timeout", "broken"} :
        /\ Asks(k, FullScaleQuery, out)
        /\ LET has == out = "answer" /\ step[k] \in Asked(k, FullScaleQuery).caps
           IN  info' = [info EXCEPT ![k] = Probed(info[k], step[k], Says(out, has))]
  BY Zenon DEF AskCapability
<1> DEFINE has == out = "answer" /\ step[k] \in Asked(k, FullScaleQuery).caps
           says == Says(out, has)
           caps == IF says = "present" THEN n.caps \cup {step[k]} ELSE n.caps
           report == [n.report EXCEPT ![step[k]] = says]
           i == Info(n.firmware, n.model, n.kind, n.media, caps, report, n.unit, n.scale,
                     n.variable, n.format)
<1>l. lost' \in Nat /\ lost <= lost' /\ broken \subseteq broken'
  BY <1>1, <1>p, LossesCount DEF PortsInv
<1>s. /\ Meant(k)' = Meant(k) /\ (Quiet(k)' <=> Quiet(k)) /\ (IsProbe(k)' <=> IsProbe(k))
      /\ Job(k)' = Job(k)
  BY <1>p, SceneKept
<1>2. info' = [info EXCEPT ![k] = Probed(n, step[k], says)]
  BY <1>1, Zenon
<1>3. Probed(n, step[k], says) = i
  <2>1. Complete(n)
    BY OwnInfo DEF n
  <2>2. Capable(n, caps, report) = Probed(n, step[k], says)
    BY Zenon DEF Capable, Probed
  <2> HIDE DEF caps, report, n, says
  <2>3. Capable(n, caps, report) = i
    BY <2>1, SetCapability, Zenon
  <2> QED
    BY <2>2, <2>3, Zenon
<1>4. PICK s \in {"secondary_pressure", "format"} : Goes(k, s)
  BY DEF AskCapability
<1>5. step'[k] = s /\ info'[k] = i /\ result'[k] = result[k]
  BY <1>2, <1>3, <1>4, GoesOn
<1>6. /\ step[k] \in Named \ Extras
      /\ s \in Named /\ s # "barometer"
      /\ s \notin Extras \cup Before \cup {"sniff", "recover", "ve", "sheet", "gp", "done"}
      /\ step[k] # "done"
  BY <1>p DEF Named, Extras, Before
<1>7. ASSUME ~strayed, Quiet(k), NEW d \in Meant(k) PROVE FirmwareTrue(n, d) /\ ModelTrue(n, d, k) /\ CapsTrue(n, d, k)
  BY <1>p, <1>6, <1>7 DEF Learned
<1>r. /\ n.report = [c \in Capabilities |-> n.report[c]]
      /\ step[k] \in Capabilities
  BY <1>p, <1>6 DEF Learned, Capabilities, Probes
<1>y. step[k] \notin n.caps
  BY <1>p DEF Learned
<1>z. s = "secondary_pressure" => caps \subseteq {"barometer"}
  <2>1. s = "secondary_pressure" => step[k] = "barometer"
    BY <1>4, <1>p, <1>5 DEF AskCapability, Goes, FactsInv, PortsInv, Typed
  <2> QED
    BY <1>p, <2>1 DEF Learned
<1>t. ToAsk(step[k]) = ToAsk(s) \cup {step[k]}
  <2>1. s = IF step[k] = "barometer" THEN "secondary_pressure" ELSE "format"
    BY <1>4, <1>p, <1>5 DEF AskCapability, Goes, FactsInv, PortsInv, Typed
  <2> QED
    BY <1>p, <2>1 DEF ToAsk, Probes
<1>w. says = "absent" => out \in {"answer", "broken"} /\ ~has
  BY <1>1 DEF Says
<1>v. says = "present" => has
  BY <1>1 DEF Says
<1>x. out = "broken" => k \in broken'
  BY <1>1 DEF Asks
<1>h. has => out = "answer" /\ step[k] \in Asked(k, FullScaleQuery).caps
  OBVIOUS
<1>a. out = "answer" /\ ~has => step[k] \notin Asked(k, FullScaleQuery).caps
  OBVIOUS
<1>8. ASSUME ~strayed, Quiet(k), NEW d \in Meant(k)
      PROVE  /\ caps \subseteq devs[d].caps \cup Job(k).caps
             /\ \A c \in Capabilities :
                  /\ report[c] = "present" => c \in devs[d].caps
                  /\ c \in caps => report[c] = "present" \/ c \in Job(k).caps
                  /\ report[c] = "absent" /\ c \in devs[d].caps =>
                        c \notin Probes \ ToAsk(s) \/ n.firmware = GP \/ k \in broken'
  <2>1. out = "answer" => Asked(k, FullScaleQuery).caps = devs[d].caps
    BY <1>1, <1>p, <1>8, AnswerIs DEF Asked
  <2>2. says = "absent" => step[k] \notin devs[d].caps \/ k \in broken'
    BY <1>w, <1>x, <1>a, <2>1
  <2>3. says = "present" => step[k] \in devs[d].caps
    BY <1>v, <1>h, <2>1
  <2> HIDE DEF says, has
  <2>4. /\ report[step[k]] = says
        /\ \A c \in Capabilities : c # step[k] => report[c] = n.report[c]
    <3> HIDE DEF n
    <3> QED BY <1>r
  <2>5. caps = IF says = "present" THEN n.caps \cup {step[k]} ELSE n.caps
    OBVIOUS
  <2>6. /\ n.caps \subseteq devs[d].caps \cup Job(k).caps
        /\ \A c \in Capabilities :
            /\ n.report[c] = "present" => c \in devs[d].caps
            /\ c \in n.caps => n.report[c] = "present" \/ c \in Job(k).caps
            /\ n.report[c] = "absent" /\ c \in devs[d].caps =>
                c \notin Probes \ ToAsk(step[k]) \/ n.firmware = GP \/ k \in broken
    BY <1>7, <1>8, <1>p, <1>6 DEF CapsTrue, ReportTrue, Learned
  <2> HIDE DEF caps, report, n
  <2>7. caps \subseteq devs[d].caps \cup Job(k).caps
    BY <2>3, <2>5, <2>6
  <2>8. ASSUME NEW c \in Capabilities
        PROVE  /\ report[c] = "present" => c \in devs[d].caps
               /\ c \in caps => report[c] = "present" \/ c \in Job(k).caps
               /\ report[c] = "absent" /\ c \in devs[d].caps =>
                     c \notin Probes \ ToAsk(s) \/ n.firmware = GP \/ k \in broken'
    <3>1. CASE c = step[k]
      <4>1. report[c] = says
        BY <2>4, <3>1
      <4>2. c \in caps => says = "present" \/ c \in Job(k).caps
        BY <1>y, <2>5, <2>6, <3>1
      <4> QED
        BY <2>2, <2>3, <3>1, <4>1, <4>2
    <3>2. CASE c # step[k]
      BY <1>l, <1>t, <2>4, <2>5, <2>6, <3>2
    <3> QED
      BY <3>1, <3>2
  <2> QED
    BY <2>7, <2>8
<1>9. /\ i.firmware = n.firmware /\ i.model = n.model /\ i.caps = caps /\ i.report = report
      /\ i.unit = n.unit /\ i.scale = n.scale /\ i.variable = n.variable /\ i.format = n.format
      /\ i = Info(i.firmware, i.model, i.kind, i.media, i.caps, i.report, i.unit, i.scale,
                  i.variable, i.format)
  <2> HIDE DEF caps, report, n
  <2> QED BY DEF Info
<1>10. result[k] # "ok" /\ ~IsProbe(k) /\ n.unit = None /\ n.scale = None /\ n.variable = None
  BY <1>p, <1>6 DEF Learned
<1> HIDE DEF i, caps, report, says
<1>11. ASSUME NEW d \in Meant(k), ~strayed, Quiet(k)
       PROVE  FirmwareTrue(info[k], d)' /\ ModelTrue(info[k], d, k)' /\ CapsTrue(info[k], d, k)'
  <2>1. FirmwareTrue(info[k], d)'
    BY <1>5, <1>7, <1>9, <1>11, <1>l, <1>p DEF FirmwareTrue, Shows
  <2>2. ModelTrue(info[k], d, k)'
    BY <1>5, <1>7, <1>9, <1>11, <1>l, <1>p, <1>s DEF ModelTrue, Shows
  <2>3. CapsTrue(info[k], d, k)'
    BY <1>5, <1>8, <1>9, <1>11, <1>p, <1>s DEF CapsTrue, ReportTrue
  <2> QED
    BY <2>1, <2>2, <2>3
<1>12. Found(k)'
  BY <1>5, <1>10 DEF Found
<1>c. report = [c \in Capabilities |-> report[c]]
  <2> HIDE DEF says, n
  <2> QED BY <1>r DEF report
<1>13. Learned(k)'
  BY <1>p, <1>5, <1>6, <1>9, <1>10, <1>11, <1>c, <1>s, <1>z DEF Learned
<1> QED
  BY <1>12, <1>13

\* What the rest of open_device keeps of what is known.
LEMMA StillTrue ==
    ASSUME PortsInv, NEW k \in Jobs, UNCHANGED <<devs, call, strayed>>,
           lost \in Nat, lost' \in Nat, lost <= lost', broken \subseteq broken',
           NEW d, NEW i, NEW n, ~IsProbe(k), ToAsk(step[k]) = {},
           n.firmware = i.firmware, n.model = i.model, n.report = i.report,
           n.caps \subseteq i.caps \cup Job(k).caps, info'[k] = n,
           ToAsk(step'[k]) = {},
           FirmwareTrue(i, d), ModelTrue(i, d, k), CapsTrue(i, d, k)
    PROVE  FirmwareTrue(info[k], d)' /\ ModelTrue(info[k], d, k)' /\ CapsTrue(info[k], d, k)'
<1>j. Job(k)' = Job(k)
  BY CallKept
<1>1. FirmwareTrue(info[k], d)'
  BY DEF FirmwareTrue, Shows
<1>2. ModelTrue(info[k], d, k)'
  BY <1>j DEF ModelTrue, Shows
<1>3. CapsTrue(info[k], d, k)'
  BY <1>j DEF CapsTrue, ReportTrue
<1> QED
  BY <1>1, <1>2, <1>3

LEMMA FormatLearns ==
    ASSUME FactsInv, NEW k \in Jobs, AskFormat(k)
    PROVE  Learned(k)' /\ Found(k)'
<1> DEFINE n == info[k]
           caps == n.caps \cup Job(k).caps
           media == IF Job(k).media = None THEN n.media ELSE Job(k).media
           i == Info(n.firmware, n.model, n.kind, media, caps, n.report, n.unit, n.scale,
                     n.variable, TRUE)
<1>p. /\ PortsInv /\ Learned(k) /\ step[k] = "format" /\ lost \in Nat
      /\ UNCHANGED <<devs, call, strayed>>
  BY DEF FactsInv, PortsInv, Typed, AskFormat, Bus
<1>s. /\ Meant(k)' = Meant(k) /\ (Quiet(k)' <=> Quiet(k)) /\ (IsProbe(k)' <=> IsProbe(k))
      /\ Job(k)' = Job(k)
  BY <1>p, SceneKept
<1>1. ASSUME NEW res, res # "ok", Ends(k, res), info' = info PROVE Learned(k)' /\ Found(k)'
  BY <1>1, EndsBadly
<1>t. ToAsk(step[k]) = {} /\ ToAsk("unit") = {}
  BY <1>p DEF ToAsk
<1>2. ASSUME Asks(k, DataFrameFormat, "answer"), Goes(k, "unit"),
             info' = [info EXCEPT ![k] = [Assume(k) EXCEPT !.format = TRUE]]
      PROVE  Learned(k)' /\ Found(k)'
  <2>l. lost' \in Nat /\ lost <= lost' /\ broken \subseteq broken'
    BY <1>2, <1>p, LossesCount DEF PortsInv
  <2>1. [Assume(k) EXCEPT !.format = TRUE] = i
    <3> HIDE DEF caps, media
    <3>1. Complete(info[k])
      BY OwnInfo
    <3>2. Assumed(info[k], caps, media, TRUE) = i
      BY <3>1, SetAssumed, Zenon
    <3>3. Assumed(info[k], caps, media, TRUE) = [Assume(k) EXCEPT !.format = TRUE]
      BY Zenon DEF Assumed, Assume, caps, media
    <3> QED
      BY <3>2, <3>3, Zenon
  <2>2. step'[k] = "unit" /\ info'[k] = i /\ result'[k] = result[k]
    BY <1>2, <2>1, GoesOn
  <2>3. /\ i.firmware = n.firmware /\ i.model = n.model /\ i.caps = caps /\ i.report = n.report
        /\ i.unit = n.unit /\ i.scale = n.scale /\ i.variable = n.variable /\ i.format
        /\ i = Info(i.firmware, i.model, i.kind, i.media, i.caps, i.report, i.unit, i.scale,
                    i.variable, i.format)
    <3> HIDE DEF caps, media, n
    <3> QED BY DEF Info
  <2>4. ~strayed => Quiet(k) /\ Meant(k) # {}
    BY <1>2, <1>p, AnswerIs
  <2>5. "format" \in Named \ Extras /\ "unit" \in Named \cap Extras
        /\ "unit" \notin Before \cup {"sniff", "recover", "ve", "sheet", "gp", "done"}
    BY DEF Named, Extras, Before
  <2>6. result[k] # "ok" /\ ~IsProbe(k) /\ n.unit = None /\ n.scale = None /\ n.variable = None
    BY <1>p, <2>5 DEF Learned
  <2>7. ASSUME NEW d \in Meant(k), ~strayed, Quiet(k)
        PROVE  FirmwareTrue(n, d) /\ ModelTrue(n, d, k) /\ CapsTrue(n, d, k)
    BY <1>p, <2>5, <2>7 DEF Learned
  <2> HIDE DEF i
  <2>8. ASSUME NEW d \in Meant(k), ~strayed, Quiet(k)
        PROVE  FirmwareTrue(info[k], d)' /\ ModelTrue(info[k], d, k)' /\ CapsTrue(info[k], d, k)'
    BY <1>p, <1>t, <2>2, <2>3, <2>6, <2>7, <2>8, <2>l, StillTrue
  <2>9. Found(k)'
    BY <2>2, <2>6 DEF Found
  <2>r. n.report = [c \in Capabilities |-> n.report[c]]
    BY <1>p, <2>5 DEF Learned
  <2>10. Learned(k)'
    <3>1. {i.unit, i.scale, i.variable} \subseteq {None}
      BY <2>3, <2>6
    <3>2. i.report = [c \in Capabilities |-> i.report[c]]
      BY <2>3, <2>r
    <3>3. "unit" # "barometer" /\ "unit" # "secondary_pressure"
      OBVIOUS
    <3>4. strayed' = strayed /\ i.format
      BY <1>p, <2>3
    <3>5. i = Info(i.firmware, i.model, i.kind, i.media, i.caps, i.report, i.unit, i.scale,
                   i.variable, i.format)
      BY <2>3
    <3> HIDE DEF n
    <3> QED
      BY <1>s, <2>2, <2>4, <2>5, <2>6, <2>8, <3>1, <3>2, <3>3, <3>4, <3>5 DEF Learned
  <2> QED
    BY <2>9, <2>10
<1> QED
  BY <1>1, <1>2 DEF AskFormat

\* What one of the last probes adds.
OneMore(k, n, i) ==
    /\ info' = [info EXCEPT ![k] = i]
    /\ i.firmware = n.firmware /\ i.model = n.model /\ i.caps = n.caps
    /\ i.report = n.report /\ i.format = n.format
    /\ ~strayed => {i.unit, i.scale, i.variable} \subseteq {None} \cup Meant(k)
    /\ i = Info(i.firmware, i.model, i.kind, i.media, i.caps, i.report, i.unit, i.scale,
                i.variable, i.format)
    /\ lost' \in Nat /\ lost <= lost' /\ broken \subseteq broken'

LEMMA ExtraLearns ==
    ASSUME FactsInv, NEW k \in Jobs, AskExtra(k)
    PROVE  Learned(k)' /\ Found(k)'
<1> DEFINE n == info[k]
<1>p. /\ PortsInv /\ Learned(k) /\ step[k] \in Extras /\ lost \in Nat
      /\ UNCHANGED <<devs, call, strayed>>
  BY DEF FactsInv, PortsInv, Typed, AskExtra, Bus, Extra, Extras
<1>s. /\ Meant(k)' = Meant(k) /\ (Quiet(k)' <=> Quiet(k)) /\ (IsProbe(k)' <=> IsProbe(k))
      /\ Job(k)' = Job(k)
  BY <1>p, SceneKept
<1>e. /\ Extras \subseteq Named
      /\ Extras \cap (Before \cup {"sniff", "recover", "ve", "sheet", "gp", "done"}) = {}
  BY DEF Named, Extras, Before
<1>k. /\ ~IsProbe(k) /\ n.format /\ result[k] # "ok"
      /\ ~strayed => /\ Quiet(k) /\ Meant(k) # {}
                     /\ {n.unit, n.scale, n.variable} \subseteq {None} \cup Meant(k)
      /\ ~strayed => \A d \in Meant(k) :
            FirmwareTrue(n, d) /\ ModelTrue(n, d, k) /\ CapsTrue(n, d, k)
  BY <1>p, <1>e DEF Learned
<1>1. \E i : OneMore(k, n, i)
  <2>1. CASE UNCHANGED <<info, lost, broken>>
    <3>1. info' = [info EXCEPT ![k] = n]
      BY <2>1, <1>p DEF PortsInv, Typed
    <3>2. n = Info(n.firmware, n.model, n.kind, n.media, n.caps, n.report, n.unit, n.scale,
                   n.variable, n.format)
      BY <1>p, Zenon DEF Learned
    <3>3. lost' \in Nat /\ lost <= lost' /\ broken \subseteq broken'
      BY <1>p, <2>1
    <3> HIDE DEF n
    <3>4. OneMore(k, n, n)
      BY <1>k, <3>1, <3>2, <3>3 DEF OneMore
    <3> QED
      BY <3>4
  <2>2. ASSUME NEW c, NEW out, Asks(k, c, out),
               info' = IF out = "answer" THEN [info EXCEPT ![k] = [@ EXCEPT ![step[k]] = Answerer(k, c)]]
                       ELSE info
        PROVE  \E i : OneMore(k, n, i)
    <3>l. lost' \in Nat /\ lost <= lost' /\ broken \subseteq broken'
      BY <2>2, <1>p, LossesCount DEF PortsInv
    <3>1. CASE out # "answer"
      <4>1. info' = [info EXCEPT ![k] = n]
        BY <2>2, <3>1, <1>p DEF PortsInv, Typed
      <4>2. n = Info(n.firmware, n.model, n.kind, n.media, n.caps, n.report, n.unit, n.scale,
                     n.variable, n.format)
        BY <1>p, Zenon DEF Learned
      <4> HIDE DEF n
      <4> QED
        BY <1>k, <3>l, <4>1, <4>2 DEF OneMore
    <3>2. CASE out = "answer"
      <4> DEFINE x == Answerer(k, c)
                 s == step[k]
                 i == [n EXCEPT ![s] = x]
      <4>1. info' = [info EXCEPT ![k] = i]
        BY <2>2, <3>2
      <4>2. ~strayed => x \in Meant(k)
        BY <2>2, <3>2, <1>p, AnswerIs
      <4>3. Complete(n) /\ s \in Extras
        BY OwnInfo, <1>p
      <4> HIDE DEF x, s, n
      <4>4. PICK u, sc, v :
              /\ i = Info(n.firmware, n.model, n.kind, n.media, n.caps, n.report, u, sc, v, n.format)
              /\ u \in {n.unit, x} /\ sc \in {n.scale, x} /\ v \in {n.variable, x}
        BY <4>3, SetExtra
      <4> HIDE DEF i
      <4>5. /\ i.firmware = n.firmware /\ i.model = n.model /\ i.caps = n.caps
            /\ i.report = n.report /\ i.format = n.format
            /\ i.unit = u /\ i.scale = sc /\ i.variable = v
            /\ i = Info(i.firmware, i.model, i.kind, i.media, i.caps, i.report, i.unit, i.scale,
                        i.variable, i.format)
        BY <4>4 DEF Info
      <4>6. ~strayed => {i.unit, i.scale, i.variable} \subseteq {None} \cup Meant(k)
        <5>1. ~strayed => {n.unit, n.scale, n.variable} \subseteq {None} \cup Meant(k)
          BY <1>k
        <5>2. i.unit \in {n.unit, x} /\ i.scale \in {n.scale, x} /\ i.variable \in {n.variable, x}
          BY <4>4, <4>5
        <5> QED
          BY <4>2, <5>1, <5>2
      <4> QED
        BY <3>l, <4>1, <4>5, <4>6 DEF OneMore
    <3> QED
      BY <3>1, <3>2
  <2>3. \/ UNCHANGED <<info, lost, broken>>
        \/ \E out :
            /\ Asks(k, Extra[step[k]], out)
            /\ info' = IF out = "answer"
                       THEN [info EXCEPT ![k] = [@ EXCEPT ![step[k]] = Answerer(k, Extra[step[k]])]]
                       ELSE info
    BY Zenon DEF AskExtra
  <2> QED
    BY <2>1, <2>2, <2>3, Zenon
<1>2. PICK i : OneMore(k, n, i)
  BY <1>1
<1>3. info'[k] = i
  BY <1>2, <1>p DEF OneMore, PortsInv, Typed
<1>r. n.report = [c \in Capabilities |-> n.report[c]]
  BY <1>p, <1>e DEF Learned
<1>t. ToAsk(step[k]) = {} /\ ToAsk(step'[k]) = {}
  <2>1. step'[k] \in Extras \cup {"done"}
    BY <1>p DEF AskExtra, Ends, Goes, After, PortsInv, Typed, Extras
  <2> QED
    BY <1>p, <2>1 DEF ToAsk, Extras
<1>4. ASSUME NEW d \in Meant(k), ~strayed
      PROVE  FirmwareTrue(info[k], d)' /\ ModelTrue(info[k], d, k)' /\ CapsTrue(info[k], d, k)'
  <2>1. n.caps \subseteq i.caps \cup Job(k).caps /\ i.caps \subseteq n.caps \cup Job(k).caps
    BY <1>2 DEF OneMore
  <2> HIDE DEF n
  <2> QED
    BY <1>2, <1>3, <1>4, <1>k, <1>p, <1>t, <2>1, StillTrue DEF OneMore
<1>5. CASE step[k] = "variable"
  <2>1. Ends(k, "ok")
    BY <1>5 DEF AskExtra
  <2>2. step'[k] = "done" /\ result'[k] = "ok"
    BY <1>2, <2>1, EndsWith DEF OneMore
  <2>3. Learned(k)'
    BY <1>2, <1>3, <2>2, Zenon DEF Learned, OneMore, Before, Named, Extras
  <2>4. Found(k)'
    <3>1. ASSUME ~strayed PROVE \E d \in Meant(k) : {i.unit, i.scale, i.variable} \subseteq {None, d}
      <4>1. PICK d \in Meant(k) : TRUE
        BY <1>k, <3>1
      <4>2. \A c \in Meant(k) : c = d
        BY <1>p, <4>1 DEF PortsInv, Typed, Meant, Near
      <4> QED
        BY <1>2, <3>1, <4>1, <4>2 DEF OneMore
    <3>2. info'[k].format /\ Meant(k)' = Meant(k) /\ strayed' = strayed
      BY <1>2, <1>3, <1>k, <1>p, <1>s DEF OneMore
    <3>3. ~strayed => \E d \in Meant(k) :
            /\ FirmwareTrue(info[k], d)' /\ ModelTrue(info[k], d, k)' /\ CapsTrue(info[k], d, k)'
            /\ {info'[k].unit, info'[k].scale, info'[k].variable} \subseteq {None, d}
      BY <1>3, <1>4, <3>1
    <3> QED
      BY <3>2, <3>3, Zenon DEF Found
  <2> QED
    BY <2>3, <2>4
<1>6. CASE step[k] # "variable"
  <2>1. PICK s \in Extras : Goes(k, s)
    BY <1>6 DEF AskExtra, After, Extras
  <2>2. step'[k] = s /\ result'[k] = result[k]
    BY <1>2, <2>1, GoesOn DEF OneMore
  <2>3. Found(k)'
    BY <1>k, <2>2 DEF Found
  <2>4. Learned(k)'
    <3> HIDE DEF n
    <3>1. s \in Named /\ s \notin Before \cup {"sniff", "recover", "ve", "sheet", "gp", "done"}
      BY <1>e
    <3>2. i.report = [c \in Capabilities |-> i.report[c]]
      BY <1>2, <1>r DEF OneMore
    <3>3. s # "barometer" /\ s # "secondary_pressure"
      BY DEF Extras
    <3>4. strayed' = strayed /\ i.format /\ ~IsProbe(k)
      BY <1>2, <1>k, <1>p DEF OneMore
    <3>5. i = Info(i.firmware, i.model, i.kind, i.media, i.caps, i.report, i.unit, i.scale,
                   i.variable, i.format)
      BY <1>2 DEF OneMore
    <3>6. ~strayed => /\ Quiet(k) /\ Meant(k) # {}
                      /\ {i.unit, i.scale, i.variable} \subseteq {None} \cup Meant(k)
      BY <1>2, <1>k DEF OneMore
    <3>7. result'[k] # "ok"
      BY <1>k, <2>2
    <3> QED
      BY <1>3, <1>4, <1>s, <2>1, <2>2, <3>1, <3>2, <3>3, <3>4, <3>5, <3>6, <3>7 DEF Learned
  <2> QED
    BY <2>3, <2>4
<1> QED
  BY <1>5, <1>6

\* Before it asks, a job learns nothing.
LEMMA NothingYet ==
    ASSUME FactsInv, NEW k \in Jobs,
           \/ LockPort(k) \/ TakeSlot(k) \/ Begin(k) \/ OpenPort(k) \/ OpenFails(k) \/ Sniff(k)
           \/ Recover(k) \/ Cancel(k)
    PROVE  Learned(k)' /\ Found(k)'
<1>i. info' = info
  BY DEF LockPort, TakeSlot, Begin, OpenPort, OpenFails, Sniff, Recover, Cancel
<1>1. \/ \E res : res # "ok" /\ Ends(k, res)
      \/ /\ step[k] \in Before \cup {"sniff", "recover", "ve"}
         /\ \/ \E s \in Before \cup {"sniff", "recover", "ve"} : Goes(k, s)
            \/ \E s \in {"sniff", "recover", "ve"} :
                    step' = [step EXCEPT ![k] = s] /\ result' = result
  <2>1. CASE LockPort(k)
    BY <2>1 DEF LockPort, Before
  <2>2. CASE TakeSlot(k)
    BY <2>2 DEF TakeSlot, Before
  <2>3. CASE Begin(k)
    BY <2>3 DEF Begin, Before
  <2>4. CASE OpenPort(k)
    BY <2>4 DEF OpenPort, Before
  <2>5. CASE OpenFails(k) \/ Sniff(k) \/ Recover(k) \/ Cancel(k)
    BY <2>5 DEF OpenFails, Sniff, Recover, Cancel
  <2> QED
    BY <2>1, <2>2, <2>3, <2>4, <2>5
<1>2. ASSUME NEW s \in Before \cup {"sniff", "recover", "ve"},
             step[k] \in Before \cup {"sniff", "recover", "ve"},
             step' = [step EXCEPT ![k] = s], result' = result
      PROVE  Learned(k)' /\ Found(k)'
  <2>1. step'[k] = s
    BY <1>2 DEF FactsInv, PortsInv, Typed
  <2> QED
    BY <1>2, <1>i, <2>1, UnknownKept
<1>3. ASSUME NEW s, Goes(k, s) PROVE step' = [step EXCEPT ![k] = s] /\ result' = result
  BY <1>3 DEF Goes
<1> QED
  BY <1>1, <1>2, <1>3, <1>i, EndsBadly

LEMMA FactsInit == Init => FactsInv
<1> SUFFICES ASSUME Init PROVE FactsInv
  OBVIOUS
<1>1. PortsInv
  BY PortsInit
<1>2. ASSUME NEW j \in Jobs PROVE Learned(j) /\ Found(j)
  <2>1. step[j] = "start" /\ info[j] = Unknown /\ result[j] # "ok"
    BY OpeningAssumption DEF Init
  <2>2. Unknown = Info(Unknown.firmware, Unknown.model, Unknown.kind, Unknown.media,
                       Unknown.caps, Unknown.report, Unknown.unit, Unknown.scale,
                       Unknown.variable, Unknown.format)
    BY DEF Unknown, Info
  <2>3. Learned(j)
    BY <2>1, <2>2, Zenon DEF Learned, Named, Extras
  <2> QED
    BY <2>1, <2>3 DEF Found
<1> QED
  BY <1>1, <1>2 DEF FactsInv

LEMMA FactsStep ==
    ASSUME AloneOnPort, FactsInv, [Next]_vars
    PROVE  FactsInv'
<1>1. CASE UNCHANGED vars
  <2>1. PortsInv'
    BY <1>1 DEF vars, FactsInv, PortsInv, Typed, Turns, IdsAtHome, Holds, Jobs, Job, IsProbe
  <2>2. ASSUME NEW j \in Jobs PROVE Learned(j)' /\ Found(j)'
    <3>1. /\ Learned(j) /\ Found(j) /\ Job(j)' = Job(j) /\ (IsProbe(j)' <=> IsProbe(j))
          /\ Near(j)' = Near(j) /\ Meant(j)' = Meant(j) /\ (Quiet(j)' <=> Quiet(j))
      BY <1>1, SceneKept DEF FactsInv, vars
    <3> QED
      BY <1>1, <3>1 DEF vars, Learned, Found, FirmwareTrue, ModelTrue, CapsTrue, ReportTrue,
                        Shows, Blank
  <2>3. Jobs' = Jobs
    BY <1>1, CallKept DEF vars
  <2> QED
    BY <2>1, <2>2, <2>3 DEF FactsInv
<1>2. ASSUME NEW k \in Jobs, Runs(k) \/ Cancel(k) PROVE FactsInv'
  <2>1. PortsInv' /\ Jobs' = Jobs
    BY <1>2, PortsStep, StepIs, CallKept DEF FactsInv, PortsInv
  <2>2. Learned(k)' /\ Found(k)'
    BY <1>2, NothingYet, VeLearns, SheetLearns, BlindLearns, CapabilityLearns, FormatLearns,
       ExtraLearns DEF Runs, Search, Identify, OpenDevice
  <2>3. ASSUME NEW j \in Jobs, j # k PROVE Learned(j)' /\ Found(j)'
    BY <1>2, <2>3, OthersKeep
  <2> QED
    BY <2>1, <2>2, <2>3 DEF FactsInv
<1> QED
  BY <1>1, <1>2 DEF Next

\* What a device is opened, or found, as is what it is, on every path of fallbacks and
\* refusals, however many replies are lost, if no job stops a stream on a port that
\* another job asks on (identify_device, _identify_without_ve, the probes of
\* devices/factory.py, probe of devices/discovery.py).
THEOREM FactsAreTrue ==
    ASSUME AloneOnPort
    PROVE  Spec => []FactsTrue
<1>1. FactsInv /\ [Next]_vars => FactsInv'
  BY FactsStep
<1>2. FactsInv => FactsTrue
  <2>1. ASSUME FactsInv, NEW j \in Jobs, result[j] = "ok" PROVE ToAsk(step[j]) = {}
    BY <2>1 DEF FactsInv, Learned, ToAsk
  <2> QED
    BY <2>1 DEF FactsInv, FactsTrue, Found, FirmwareTrue, ModelTrue, CapsTrue, ReportTrue
<1> QED
  BY <1>1, <1>2, FactsInit, PTL DEF Spec

=============================================================================
