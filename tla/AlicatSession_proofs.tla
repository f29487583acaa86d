-------------------------- MODULE AlicatSession_proofs --------------------------
(***************************************************************************)
(* What a Session knows of its device is true when it is used: readings    *)
(* carry the units they were taken in, set-points were checked against     *)
(* what the device is set to, the route of a method is one its firmware    *)
(* takes, and what passes the gates is understood as it was meant.         *)
(* Proofs for every device and any number of tasks.                        *)
(***************************************************************************)
EXTENDS AlicatSession, TLAPS

\* What the argument of a change may be.
Options(name) ==
    CASE name = "engineering_units" -> Units
      [] name = "setpoint_source" -> Sources
      [] OTHER -> Variables

Typed ==
    /\ info \in Profiles
    /\ dev \in [units : Units, source : Sources, lv : Variables]
    /\ cache \in [fmt : Units \cup {None}, source : Sources \cup {None},
                  lv : Variables \cup {None}, ranged : SUBSET Variables]
    /\ job = [t \in Tasks |-> job[t]]

\* Only a change of the units takes the format away; what is cached is what the device
\* has, unless a reply was lost.
CachesTrue ==
    /\ cache.fmt = None => FirmwareOpen(EngineeringUnits)
    /\ ~doubt => /\ cache.fmt \in {None, dev.units}
                 /\ cache.source \in {None, dev.source}
                 /\ cache.lv \in {None, dev.lv}

\* A job is one that the gates let through, and its argument fits.
Gated(j) ==
    /\ j = [step |-> j.step, name |-> j.name, arg |-> j.arg, n |-> j.n, seen |-> j.seen,
            crossed |-> j.crossed]
    /\ j.step \in {"idle", "format", "sent"}
    /\ j.step # "idle" =>
        /\ j.name \in DOMAIN Commands
        /\ j.n \in Commands[j.name].asks \cup Commands[j.name].sets
        /\ j.name \in Changes /\ j.arg # None => j.arg \in Options(j.name)
    /\ j.step = "format" => LooksUp(j.name)
    /\ j.step = "sent" => Passes(Commands[j.name], TRUE)

\* A set-point is in the range that was known.
InRangeOf(j) ==
    LET top == FullScale[dev.lv][dev.units]
    IN  (IF Bidirectional THEN -top ELSE 0) <= j.arg /\ j.arg <= top

\* A set-point is one that the device takes, as far as was known.
Fit(j) ==
    /\ j.arg < 0 => Bidirectional
    /\ j.seen.source # None => dev.source # "A"
    /\ j.seen.lv \in j.seen.ranged /\ dev.units = info.scale => InRangeOf(j)

\* What it captured before it waited still holds, unless a change crossed it.
Current(j) ==
    j.step = "sent" /\ ~j.crossed /\ ~doubt =>
        /\ Commands[j.name].framed => j.seen.fmt = dev.units
        /\ j.name \in {"setpoint", "setpoint_legacy"} /\ j.arg # None => Fit(j)

SessionInv == Typed /\ CachesTrue /\ \A t \in Tasks : Gated(job[t]) /\ Current(job[t])

-----------------------------------------------------------------------------
(* The commands the caches are about.                                      *)

LEMMA NamesAre ==
    /\ {"engineering_units", "setpoint_source", "loop_control_variable", "setpoint",
        "setpoint_legacy", "poll_data", "gas_select", "gas_select_legacy"}
            \subseteq DOMAIN Commands
    /\ Commands["engineering_units"] = EngineeringUnits
    /\ Commands["loop_control_variable"] = LoopControlVariable
    /\ Commands["setpoint"] = Setpoint /\ Commands["setpoint_legacy"] = SetpointLegacy
    /\ Commands["gas_select"] = GasSelect /\ Commands["gas_select_legacy"] = GasSelectLegacy
    /\ Commands["poll_data"] = PollData
  BY DEF Commands

LEMMA EngineeringUnitsIs ==
    /\ EngineeringUnits.families = {"V10"}
    /\ EngineeringUnits.since = [family |-> "V10", number |-> 1005]
    /\ EngineeringUnits.until.family = "none"
  BY DEF EngineeringUnits, Late, Since, Command, Version, Unbounded

LEMMA GasIs ==
    /\ GasSelect.families = {"V10"}
    /\ GasSelect.since = [family |-> "V10", number |-> 1005]
    /\ GasSelect.until.family = "none"
    /\ GasSelectLegacy.families = Families
    /\ GasSelectLegacy.since.family = "none"
    /\ GasSelectLegacy.until = [family |-> "V10", number |-> 1004]
  BY DEF GasSelect, GasSelectLegacy, Framed, Late, Since, Command, Version, Unbounded

LEMMA SetpointIs ==
    /\ Setpoint.framed = FALSE /\ Setpoint.families = Modern
    /\ Setpoint.kinds = Controllers /\ Setpoint.media = AllMedia /\ Setpoint.needs = {}
    /\ Setpoint.since = [family |-> "V8_V9", number |-> 900]
    /\ Setpoint.until.family = "none"
    /\ 1 \in Setpoint.sets
  BY DEF Setpoint, Since, Command, Version, Unbounded

LEMMA SetpointLegacyIs ==
    /\ SetpointLegacy.framed = TRUE
    /\ SetpointLegacy.families = {"V1_V7", "V8_V9"}
    /\ SetpointLegacy.since.family = "none"
    /\ SetpointLegacy.until = [family |-> "V8_V9", number |-> 899]
    /\ 1 \in SetpointLegacy.sets
  BY DEF SetpointLegacy, Framed, Command, Version, Unbounded

LEMMA PollDataIs == PollData.asks = {0}
  BY DEF PollData, Framed, Command

LEMMA FirmwareIs ==
    ASSUME Typed
    PROVE  /\ info.firmware = [family |-> info.firmware.family, number |-> info.firmware.number]
           /\ info.firmware.family \in Families /\ info.firmware.number \in Nat
           /\ info.firmware.family = "GP" => info.firmware = GP
           /\ info.scale \in Units
  BY SessionAssumption DEF Typed

\* A command that does not look the format up is older than the one that changes it.
LEMMA LegacyKeepsFormat ==
    ASSUME Typed, FirmwareOpen(EngineeringUnits)
    PROVE  ~FirmwareOpen(GasSelectLegacy) /\ ~FirmwareOpen(SetpointLegacy)
<1>1. info.firmware.family = "V10" /\ info.firmware.number \in Nat
  BY EngineeringUnitsIs, FirmwareIs DEF FirmwareOpen
<1>2. info.firmware.number >= 1005
  BY <1>1, EngineeringUnitsIs DEF FirmwareOpen, InRange, Older, Comparable
<1>3. ~FirmwareOpen(GasSelectLegacy)
  BY <1>1, <1>2, GasIs DEF FirmwareOpen, InRange, Comparable
<1> QED
  BY <1>1, <1>3, SetpointLegacyIs DEF FirmwareOpen

-----------------------------------------------------------------------------
(* Sending.                                                                *)

\* Everybody but one keeps the job, and nothing the jobs are about changes.
LEMMA OneJob ==
    ASSUME SessionInv, NEW t \in Tasks, NEW j, job' = [job EXCEPT ![t] = j],
           UNCHANGED <<info, dev, cache, doubt>>, Gated(j), Current(j)
    PROVE  SessionInv'
<1>1. /\ job' = [u \in Tasks |-> job'[u]]
      /\ job'[t] = j /\ \A u \in Tasks : u # t => job'[u] = job[u]
  BY DEF SessionInv, Typed
<1>2. Typed'
  BY <1>1 DEF SessionInv, Typed
<1>3. CachesTrue'
  BY DEF SessionInv, CachesTrue, FirmwareOpen, HardwareOpen, InRange
<1>4. ASSUME NEW u \in Tasks PROVE Gated(job'[u]) /\ Current(job'[u])
  BY <1>1 DEF SessionInv
<1>5. ASSUME NEW u \in Tasks PROVE Gated(job[u])' /\ Current(job[u])'
  BY <1>4, <1>5 DEF Gated, Current, LooksUp, Fit, InRangeOf,
          Bidirectional, Passes, FirmwareOpen, HardwareOpen, InRange
<1> QED
  BY <1>2, <1>3, <1>5 DEF SessionInv

\* What Session.execute and the look-up before it may send.
LEMMA SendKeeps ==
    ASSUME SessionInv, NEW t \in Tasks, NEW name \in DOMAIN Commands, NEW arg,
           NEW n \in Commands[name].asks \cup Commands[name].sets, NEW confirmed \in BOOLEAN,
           name \in Changes /\ arg # None => arg \in Options(name),
           name \in {"setpoint", "setpoint_legacy"} /\ arg # None => Allowed(arg),
           Send(t, name, arg, n, confirmed)
    PROVE  SessionInv'
<1> DEFINE c == Commands[name]
           J(step) == [step |-> step, name |-> name, arg |-> arg, n |-> n,
                       seen |-> Captured(name), crossed |-> FALSE]
<1>t. Typed /\ CachesTrue
  BY DEF SessionInv
<1>1. CASE LooksUp(name) /\ cache.fmt = None
  <2>1. job' = [job EXCEPT ![t] = J("format")] /\ UNCHANGED <<info, dev, cache, doubt>>
    BY <1>1 DEF Send, Enqueue
  <2>3. Gated(J("format")) /\ Current(J("format"))
    BY <1>1 DEF Gated, Current
  <2> QED
    BY <2>1, <2>3, OneJob
<1>2. CASE ~(LooksUp(name) /\ cache.fmt = None)
  <2>1. /\ job' = [job EXCEPT ![t] = J("sent")] /\ UNCHANGED <<info, dev, cache, doubt>>
        /\ Passes(c, confirmed)
    BY <1>2 DEF Send, Enqueue
  <2>2. Passes(c, TRUE)
    BY <2>1 DEF Passes
  <2>3. Gated(J("sent"))
    BY <2>2 DEF Gated
  <2>4. ASSUME ~doubt, c.framed PROVE Captured(name).fmt = dev.units
    <3>1. Captured(name).fmt = cache.fmt
      BY <2>4 DEF Captured, With, Unread
    <3>2. cache.fmt # None
      <4>1. CASE LooksUp(name)
        BY <1>2, <4>1
      <4>2. CASE name \in {"gas_select_legacy", "setpoint_legacy"}
        <5>1. FirmwareOpen(GasSelectLegacy) \/ FirmwareOpen(SetpointLegacy)
          BY <2>2, <4>2, NamesAre DEF Passes
        <5> QED
          BY <1>t, <5>1, LegacyKeepsFormat DEF CachesTrue
      <4> QED
        BY <2>4, <4>1, <4>2 DEF LooksUp
    <3> QED
      BY <1>t, <2>4, <3>1, <3>2 DEF CachesTrue
  <2>5. ASSUME ~doubt, name \in {"setpoint", "setpoint_legacy"}, arg # None
        PROVE  Fit(J("sent"))
    <3>1. /\ arg < 0 => Bidirectional
          /\ cache.source # "A"
          /\ InFullScale(arg)
      BY <2>5 DEF Allowed
    <3>2. LET seen == Captured(name)
          IN  seen.source = cache.source /\ seen.lv = cache.lv /\ seen.ranged = cache.ranged
      BY <1>t, <2>5 DEF Captured, Typed
    <3>3. /\ cache.lv = dev.lv \/ cache.lv = None
          /\ cache.source = None \/ cache.source = dev.source
      BY <1>t, <2>5 DEF CachesTrue
    <3>4. ASSUME cache.lv \in cache.ranged, dev.units = info.scale PROVE InRangeOf(J("sent"))
      <4>1. cache.lv = dev.lv
        BY <1>t, <3>3, <3>4, SessionAssumption DEF Typed
      <4> QED
        BY <3>1, <3>4, <4>1 DEF InFullScale, InRangeOf
    <3> QED
      BY <3>1, <3>2, <3>3, <3>4 DEF Fit
  <2>6. Current(J("sent"))
    BY <2>4, <2>5 DEF Current
  <2> QED
    BY <2>1, <2>3, <2>6, OneJob
<1> QED
  BY <1>1, <1>2

LEMMA CallsKeep ==
    ASSUME SessionInv, NEW t \in Tasks, CallPlain(t) \/ Poll(t) \/ Change(t) \/ SetSetpoint(t)
    PROVE  SessionInv'
<1>1. CASE CallPlain(t)
  <2>1. PICK name \in Plain : \E n \in Commands[name].asks \cup Commands[name].sets :
                                  Send(t, name, None, n, TRUE)
    BY <1>1 DEF CallPlain
  <2>2. name \in DOMAIN Commands
    BY DEF Plain
  <2> QED
    BY <2>1, <2>2, SendKeeps
<1>2. CASE Poll(t)
  <2>1. 0 \in Commands["poll_data"].asks /\ "poll_data" \in DOMAIN Commands
    BY NamesAre, PollDataIs
  <2> QED
    BY <1>2, <2>1, SendKeeps DEF Poll
<1>3. CASE Change(t)
  <2>1. PICK name \in Changes :
          \/ \E n \in Commands[name].asks : Send(t, name, None, n, FALSE)
          \/ \E n \in Commands[name].sets, arg \in Options(name) : Send(t, name, arg, n, FALSE)
    BY <1>3 DEF Change, Options
  <2>2. name \in DOMAIN Commands /\ name \notin {"setpoint", "setpoint_legacy"}
    BY NamesAre DEF Changes
  <2> QED
    BY <2>1, <2>2, SendKeeps
<1>4. CASE SetSetpoint(t)
  <2>1. PICK value \in Values :
          /\ Allowed(value) /\ Route("setpoint", FALSE) # None
          /\ Send(t, Route("setpoint", FALSE), value, 1, FALSE)
    BY <1>4 DEF SetSetpoint
  <2> DEFINE name == Route("setpoint", FALSE)
  <2>2. name \in {"setpoint", "setpoint_legacy"}
    BY <2>1 DEF Route
  <2> HIDE DEF name
  <2>3. /\ name \in DOMAIN Commands /\ name \notin Changes
        /\ 1 \in Commands[name].sets
    BY <2>2, NamesAre, SetpointIs, SetpointLegacyIs DEF Changes
  <2> QED
    BY <2>1, <2>3, SendKeeps DEF name
<1> QED
  BY <1>1, <1>2, <1>3, <1>4

-----------------------------------------------------------------------------
(* Replies.                                                                *)

\* A transaction ends: its task is idle, the others are crossed by what it changed.
LEMMA OverJobs ==
    ASSUME Typed, NEW t \in Tasks, NEW changed \in BOOLEAN, Over(t, changed)
    PROVE  /\ job' = [u \in Tasks |-> job'[u]]
           /\ job'[t] = Idle
           /\ \A u \in Tasks : u # t =>
                 job'[u] = [job[u] EXCEPT !.crossed = @ \/ (changed /\ job[u].step # "idle")]
  BY DEF Over

LEMMA OthersCross ==
    ASSUME NEW j, Gated(j), NEW changed \in BOOLEAN, NEW k,
           k = [j EXCEPT !.crossed = @ \/ (changed /\ j.step # "idle")]
    PROVE  /\ k = [step |-> j.step, name |-> j.name, arg |-> j.arg, n |-> j.n, seen |-> j.seen,
                   crossed |-> k.crossed]
           /\ ~k.crossed => ~j.crossed /\ (changed => j.step = "idle")
  BY DEF Gated

\* The step leaves the session sound if it leaves the caches true, and changes nothing
\* the others rely on unless it crosses them or is in doubt.
LEMMA OverKeeps ==
    ASSUME SessionInv, NEW t \in Tasks, NEW changed \in BOOLEAN, Over(t, changed),
           info' = info, Typed', CachesTrue', doubt => doubt',
           changed \/ doubt' \/ dev' = dev
    PROVE  SessionInv'
<1>t. Typed
  BY DEF SessionInv
<1>1. /\ job'[t] = Idle
      /\ \A u \in Tasks : u # t =>
            job'[u] = [job[u] EXCEPT !.crossed = @ \/ (changed /\ job[u].step # "idle")]
  BY <1>t, OverJobs
<1>2. ASSUME NEW u \in Tasks, u # t PROVE Gated(job[u])' /\ Current(job[u])'
  <2> DEFINE j == job[u]
             k == job'[u]
  <2>1. Gated(j) /\ Current(j)
    BY DEF SessionInv
  <2>2. k = [j EXCEPT !.crossed = @ \/ (changed /\ j.step # "idle")]
    BY <1>1, <1>2
  <2> HIDE DEF j, k
  <2>3. /\ k = [step |-> j.step, name |-> j.name, arg |-> j.arg, n |-> j.n, seen |-> j.seen,
                crossed |-> k.crossed]
        /\ ~k.crossed => ~j.crossed /\ (changed => j.step = "idle")
    BY <2>1, <2>2, OthersCross
  <2>4. Gated(k)
    <3>1. /\ k.step = j.step /\ k.name = j.name /\ k.arg = j.arg /\ k.n = j.n
          /\ k.seen = j.seen
      BY <2>3
    <3>2. k = [step |-> k.step, name |-> k.name, arg |-> k.arg, n |-> k.n, seen |-> k.seen,
               crossed |-> k.crossed]
      BY <2>3, <3>1
    <3> QED
      BY <2>1, <3>1, <3>2 DEF Gated
  <2>5. Gated(job[u])'
    BY <2>4 DEF k, Gated, LooksUp, Passes, FirmwareOpen, HardwareOpen, InRange
  <2>6. ASSUME k.step = "sent", ~k.crossed, ~doubt'
        PROVE  /\ Commands[k.name].framed => k.seen.fmt = dev'.units
               /\ k.name \in {"setpoint", "setpoint_legacy"} /\ k.arg # None => Fit(job[u])'
    <3>1. j.step = "sent" /\ ~j.crossed /\ ~doubt /\ dev' = dev
      BY <2>3, <2>6
    <3>2. k.name = j.name /\ k.arg = j.arg /\ k.seen = j.seen
      BY <2>3
    <3>3. ASSUME Fit(j) PROVE Fit(job[u])'
      BY <3>1, <3>2, <3>3 DEF Fit, InRangeOf, Bidirectional, k
    <3> QED
      BY <2>1, <3>1, <3>2, <3>3 DEF Current
  <2>7. Current(job[u])'
    BY <2>6 DEF k, Current, Fit, InRangeOf, Bidirectional
  <2> QED
    BY <2>5, <2>7
<1>3. Gated(job[t])' /\ Current(job[t])'
  BY <1>1 DEF Gated, Current, Idle
<1> QED
  BY <1>2, <1>3 DEF SessionInv

\* A change that the device takes.
LEMMA EffectTyped ==
    ASSUME SessionInv, NEW t \in Tasks, job[t].name \in Changes, job[t].arg # None,
           job[t].step = "sent"
    PROVE  Effect(job[t].name, job[t].arg) \in [units : Units, source : Sources, lv : Variables]
<1>1. job[t].arg \in Options(job[t].name)
  BY DEF SessionInv, Gated
<1>2. /\ job[t].name = "engineering_units" => job[t].arg \in Units
      /\ job[t].name = "setpoint_source" => job[t].arg \in Sources
      /\ job[t].name = "loop_control_variable" => job[t].arg \in Variables
  BY <1>1 DEF Options
<1> QED
  BY <1>2 DEF Effect, SessionInv, Typed

LEMMA AnsweredKeeps == ASSUME SessionInv, NEW t \in Tasks, Answered(t) PROVE SessionInv'
<1> DEFINE name == job[t].name
           arg == job[t].arg
           changed == name \in Changes /\ arg # None
<1>t. Typed /\ CachesTrue /\ Gated(job[t])
  BY DEF SessionInv
<1>1. /\ job[t].step = "sent" /\ Over(t, changed) /\ info' = info /\ doubt' = doubt
      /\ dev' = IF changed THEN Effect(name, arg) ELSE dev
      /\ cache' = Learns(name, arg)
  BY DEF Answered
<1>2. dev' \in [units : Units, source : Sources, lv : Variables]
  BY <1>1, <1>t, EffectTyped DEF Typed
<1>3. /\ cache' = [fmt |-> cache'.fmt, source |-> cache'.source, lv |-> cache'.lv,
                   ranged |-> cache'.ranged]
      /\ cache'.fmt = IF name = "engineering_units" /\ arg # None THEN None ELSE cache.fmt
      /\ cache'.ranged = cache.ranged
      /\ cache'.source = IF name = "setpoint_source" THEN dev'.source ELSE cache.source
      /\ cache'.lv = IF name = "loop_control_variable" THEN dev'.lv ELSE cache.lv
  BY <1>1, <1>t DEF Learns, Typed
<1>4. /\ name # "engineering_units" \/ arg = None => dev'.units = dev.units
      /\ name # "setpoint_source" => dev'.source = dev.source
      /\ name # "loop_control_variable" => dev'.lv = dev.lv
  BY <1>1, <1>t DEF Effect, Typed, Changes
<1>5. Typed'
  BY <1>1, <1>2, <1>3, <1>t, OverJobs DEF Typed
<1>6. CachesTrue'
  <2>1. cache'.fmt = None => FirmwareOpen(EngineeringUnits)
    <3>1. name = "engineering_units" => FirmwareOpen(EngineeringUnits)
      BY <1>1, <1>t, NamesAre DEF Gated, Passes
    <3> QED
      BY <1>3, <1>t, <3>1 DEF CachesTrue
  <2>3. ~doubt => /\ cache'.fmt \in {None, dev'.units}
                  /\ cache'.source \in {None, dev'.source}
                  /\ cache'.lv \in {None, dev'.lv}
    BY <1>3, <1>4, <1>t DEF CachesTrue
  <2> QED
    BY <1>1, <2>1, <2>3 DEF CachesTrue, FirmwareOpen, InRange
<1>7. changed \in BOOLEAN
  OBVIOUS
<1> HIDE DEF changed
<1>8. changed \/ dev' = dev
  BY <1>1
<1> QED
  BY <1>1, <1>5, <1>6, <1>7, <1>8, OverKeeps

LEMMA LostKeeps == ASSUME SessionInv, NEW t \in Tasks, Lost(t) PROVE SessionInv'
<1> DEFINE name == job[t].name
           arg == job[t].arg
           change == job[t].step = "sent" /\ name \in Changes /\ arg # None
<1>t. Typed /\ CachesTrue
  BY DEF SessionInv
<1>1. /\ Over(t, change) /\ info' = info /\ cache' = cache
      /\ dev' = dev \/ (change /\ dev' = Effect(name, arg))
      /\ doubt' <=> (doubt \/ change)
  BY DEF Lost
<1>2. change => Effect(name, arg) \in [units : Units, source : Sources, lv : Variables]
  BY EffectTyped
<1>3. change \in BOOLEAN
  OBVIOUS
<1> HIDE DEF change
<1>4. Typed'
  BY <1>1, <1>2, <1>3, <1>t, OverJobs DEF Typed
<1>5. doubt' \/ dev' = dev
  BY <1>1
<1>6. CachesTrue'
  BY <1>1, <1>5, <1>t DEF CachesTrue, FirmwareOpen, HardwareOpen, InRange
<1> QED
  BY <1>1, <1>3, <1>4, <1>5, <1>6, OverKeeps

LEMMA SentIs ==
    ASSUME NEW j, NEW s, NEW f, NEW st, NEW nm, NEW ar, NEW n, NEW se, NEW cr,
           j = [step |-> st, name |-> nm, arg |-> ar, n |-> n, seen |-> se, crossed |-> cr]
    PROVE  [j EXCEPT !.step = "sent", !.seen = s, !.crossed = f]
             = [step |-> "sent", name |-> j.name, arg |-> j.arg, n |-> j.n, seen |-> s,
                crossed |-> f]
<1> DEFINE a == [j EXCEPT !.step = "sent"]
           b == [a EXCEPT !.seen = s]
           c == [b EXCEPT !.crossed = f]
<1>1. a = [step |-> "sent", name |-> nm, arg |-> ar, n |-> n, seen |-> se, crossed |-> cr]
  OBVIOUS
<1> HIDE DEF a
<1>2. b = [step |-> "sent", name |-> nm, arg |-> ar, n |-> n, seen |-> s, crossed |-> cr]
  BY <1>1
<1> HIDE DEF b
<1>3. c = [step |-> "sent", name |-> nm, arg |-> ar, n |-> n, seen |-> s, crossed |-> f]
  BY <1>2
<1>4. c = [j EXCEPT !.step = "sent", !.seen = s, !.crossed = f]
  BY Zenon DEF a, b, c
<1>5. j.name = nm /\ j.arg = ar /\ j.n = n
  OBVIOUS
<1> QED
  BY <1>3, <1>4, <1>5, Zenon

\* The format is read, and the method's own command is sent with it.
LEMMA FormatReadKeeps == ASSUME SessionInv, NEW t \in Tasks, FormatRead(t) PROVE SessionInv'
<1> DEFINE j == job[t]
           k == [j EXCEPT !.step = "sent", !.seen = With(dev.units), !.crossed = FALSE]
<1>t. Typed /\ CachesTrue /\ Gated(j) /\ j.step = "format"
  BY DEF SessionInv, FormatRead
<1>1. UNCHANGED <<info, dev, doubt>> /\ cache' = [cache EXCEPT !.fmt = dev.units]
  BY DEF FormatRead
<1>2. /\ cache' = [fmt |-> dev.units, source |-> cache.source, lv |-> cache.lv,
                   ranged |-> cache.ranged]
      /\ dev.units \in Units /\ dev.units # None
  BY <1>1, <1>t, SessionAssumption DEF Typed
<1>3. CachesTrue'
  BY <1>1, <1>2, <1>t DEF CachesTrue, FirmwareOpen, HardwareOpen, InRange
<1>4. CASE Passes(Commands[j.name], TRUE)
  <2>1. job' = [job EXCEPT ![t].step = "sent", ![t].seen = With(dev.units), ![t].crossed = FALSE]
    BY <1>4 DEF FormatRead
  <2>2. /\ job' = [u \in Tasks |-> job'[u]]
        /\ job'[t] = k /\ \A u \in Tasks : u # t => job'[u] = job[u]
    BY <2>1, <1>t DEF Typed
  <2>0. j = [step |-> j.step, name |-> j.name, arg |-> j.arg, n |-> j.n, seen |-> j.seen,
             crossed |-> j.crossed]
    BY <1>t DEF Gated
  <2>3. k = [step |-> "sent", name |-> j.name, arg |-> j.arg, n |-> j.n, seen |-> With(dev.units),
             crossed |-> FALSE]
    BY <2>0, SentIs, Zenon
  <2>4. Gated(k)
    BY <1>4, <1>t, <2>3 DEF Gated
  <2>5. Commands[j.name].framed /\ j.name \notin {"setpoint", "setpoint_legacy"}
    BY <1>t, NamesAre, SetpointIs DEF Gated, LooksUp
  <2>6. Current(k)
    BY <2>3, <2>5 DEF Current, With, Unread
  <2> HIDE DEF k
  <2>7. ASSUME NEW u \in Tasks PROVE Gated(job'[u]) /\ Current(job'[u])
    BY <2>2, <2>4, <2>6 DEF SessionInv
  <2>8. ASSUME NEW u \in Tasks PROVE Gated(job[u])' /\ Current(job[u])'
    BY <1>1, <2>7, <2>8 DEF Gated, Current, LooksUp, Fit, InRangeOf,
            Bidirectional, Passes, FirmwareOpen, HardwareOpen, InRange
  <2>9. Typed'
    BY <1>1, <1>2, <1>t, <2>2 DEF Typed
  <2> QED
    BY <1>3, <2>8, <2>9 DEF SessionInv
<1>5. CASE ~Passes(Commands[j.name], TRUE)
  <2>1. Over(t, FALSE)
    BY <1>5 DEF FormatRead
  <2>2. Typed'
    BY <1>1, <1>2, <1>t, <2>1, OverJobs DEF Typed
  <2> QED
    BY <1>1, <1>3, <2>1, <2>2, OverKeeps
<1> QED
  BY <1>4, <1>5

-----------------------------------------------------------------------------
(* Theorems.                                                               *)

LEMMA InitInv == Init => SessionInv
<1> SUFFICES ASSUME Init PROVE SessionInv
  OBVIOUS
<1>1. /\ info \in Profiles /\ info.scale \in Units /\ info.scale # None
      /\ info.fields \subseteq Variables
  BY SessionAssumption DEF Init
<1>2. dev \in [units : Units, source : Sources, lv : Variables] /\ dev.units = info.scale
  BY <1>1 DEF Init
<1>3. /\ cache.fmt = info.scale /\ cache.source = None /\ cache.lv \in {None, dev.lv}
      /\ cache.ranged \in SUBSET Variables
      /\ cache = [fmt |-> cache.fmt, source |-> cache.source, lv |-> cache.lv,
                  ranged |-> cache.ranged]
      /\ job = [t \in Tasks |-> Idle]
  BY <1>1 DEF Init, Probed
<1>4. dev.lv \in Variables /\ dev.lv # None
  BY <1>2, SessionAssumption
<1>5. Typed
  BY <1>1, <1>2, <1>3, <1>4 DEF Typed
<1>6. CachesTrue
  BY <1>1, <1>2, <1>3, <1>4 DEF CachesTrue
<1>7. \A t \in Tasks : Gated(job[t]) /\ Current(job[t])
  BY <1>3 DEF Gated, Current, Idle
<1> QED
  BY <1>5, <1>6, <1>7 DEF SessionInv

LEMMA InvStep == SessionInv /\ [Next]_vars => SessionInv'
<1> SUFFICES ASSUME SessionInv, [Next]_vars PROVE SessionInv'
  OBVIOUS
<1>1. CASE UNCHANGED vars
  BY <1>1 DEF vars, SessionInv, Typed, CachesTrue, Gated, Current, LooksUp, Fit, InRangeOf,
              Bidirectional, Passes, FirmwareOpen, HardwareOpen, InRange
<1>2. CASE Next
  BY <1>2, CallsKeep, FormatReadKeeps, AnsweredKeeps, LostKeeps DEF Next
<1> QED
  BY <1>1, <1>2

LEMMA Invariant == Spec => []SessionInv
  BY InitInv, InvStep, PTL DEF Spec

\* A reading is labelled with the units its values have, whatever other tasks do to the
\* cached format while it waits, unless their change was answered meanwhile or the reply
\* of a change was lost (Session.refresh_data_frame_format, Device.engineering_units).
THEOREM LabelsAreTrue == Spec => LabelsTrue
<1>1. SessionInv => \A t \in Tasks :
        (Answered(t) /\ Commands[job[t].name].framed /\ ~job[t].crossed /\ ~doubt)
            => job[t].seen.fmt = dev.units
  BY DEF SessionInv, Current, Answered
<1> QED
  BY <1>1, Invariant, PTL DEF LabelsTrue

\* A set-point that was let through is one the device takes, as far as the session had
\* been told: its sign, the source if it had been asked for, the range if the loop's
\* variable and its full scale were found, with the exceptions that SetpointSound names
\* (_validate_setpoint_preconditions, _validate_setpoint_full_scale).
THEOREM SetpointsAreSound == Spec => SetpointSound
<1>1. SessionInv => \A t \in Tasks :
        LET j == job[t]
            top == FullScale[dev.lv][dev.units]
        IN  (Answered(t) /\ j.name \in {"setpoint", "setpoint_legacy"} /\ j.arg # None
                /\ ~j.crossed /\ ~doubt)
            => /\ j.arg < 0 => Bidirectional
               /\ j.seen.source # None => dev.source # "A"
               /\ j.seen.lv \in j.seen.ranged /\ dev.units = info.scale =>
                    (IF Bidirectional THEN -top ELSE 0) <= j.arg /\ j.arg <= top
  BY DEF SessionInv, Current, Answered, Fit, InRangeOf
<1> QED
  BY <1>1, Invariant, PTL DEF SetpointSound

\* The command that gas() or setpoint() picks by the firmware is one whose own firmware
\* gate lets it through, for every firmware but a set-point on GP.
THEOREM RoutesAreOpen == Spec => []RoutesOpen
<1>1. SessionInv => RoutesOpen
  <2> SUFFICES ASSUME SessionInv, NEW method \in {"gas", "setpoint"}, NEW query \in BOOLEAN,
                      Route(method, query) # None,
                      ~(method = "setpoint" /\ info.firmware = GP)
               PROVE  FirmwareOpen(Commands[Route(method, query)])
    BY DEF RoutesOpen
  <2> DEFINE fw == info.firmware
  <2>f. /\ fw = [family |-> fw.family, number |-> fw.number]
        /\ fw.family \in Families /\ fw.number \in Nat /\ (fw.family = "GP" => fw = GP)
    BY FirmwareIs DEF SessionInv
  <2>1. CASE method = "gas" /\ UsesModernGas(fw)
    <3>1. Route(method, query) = "gas_select"
      BY <2>1 DEF Route
    <3>2. fw.family = "V10" /\ fw.number >= 1005
      BY <2>1, <2>f DEF UsesModernGas, NotOlder, Comparable, LateCutoff, Version
    <3> QED
      BY <2>f, <3>1, <3>2, NamesAre, GasIs DEF FirmwareOpen, InRange, Older, Comparable
  <2>2. CASE method = "gas" /\ ~UsesModernGas(fw)
    <3>1. Route(method, query) = "gas_select_legacy"
      BY <2>2 DEF Route
    <3>2. fw.family = "V10" => fw.number <= 1004
      BY <2>2, <2>f DEF UsesModernGas, NotOlder, Comparable, LateCutoff, Version
    <3> QED
      BY <2>f, <3>1, <3>2, NamesAre, GasIs
      DEF FirmwareOpen, InRange, Older, Comparable, Families, Numeric
  <2>3. CASE method = "setpoint" /\ UsesModernSetpoint(fw)
    <3>1. Route(method, query) = "setpoint"
      BY <2>3 DEF Route
    <3>2. fw.family = "V10" \/ (fw.family = "V8_V9" /\ fw.number >= 900)
      BY <2>3, <2>f, SetpointIs DEF UsesModernSetpoint, NotOlder, Comparable
    <3> QED
      BY <2>f, <3>1, <3>2, NamesAre, SetpointIs
      DEF FirmwareOpen, InRange, Older, Comparable, Modern
  <2>4. CASE method = "setpoint" /\ ~UsesModernSetpoint(fw)
    <3>1. Route(method, query) = "setpoint_legacy"
      BY <2>4 DEF Route
    <3>2. /\ fw.family \in {"V1_V7", "V8_V9"}
          /\ fw.family = "V8_V9" => fw.number <= 899
      BY <2>4, <2>f, SetpointIs DEF UsesModernSetpoint, NotOlder, Comparable, Families, Numeric
    <3> QED
      BY <2>f, <3>1, <3>2, NamesAre, SetpointLegacyIs
      DEF FirmwareOpen, InRange, Older, Comparable
  <2> QED
    BY <2>1, <2>2, <2>3, <2>4
<1> QED
  BY <1>1, Invariant, PTL

-----------------------------------------------------------------------------
(* What the commands put on the wire, and what their replies leave out.    *)

Token(name) == Commands[name].token

\* A form asks or sets, and the facade knows what the reply leaves out.
Plainly(name) ==
    LET c == Commands[name] IN c.asks \cap c.sets = {} /\ c.lacks = Fills(name)

Says(name, token) == Token(name) = token /\ Plainly(name)

\* The token of a poll, which is none.
Blank == ""


LEMMA CommandNames ==
    DOMAIN Commands =
        {"ve_query", "manufacturing_info", "data_frame_format_query", "poll_data",
         "request_data", "gas_select", "gas_select_legacy", "gas_list", "engineering_units",
         "full_scale_query", "tare_flow", "tare_gauge_pressure", "tare_absolute_pressure",
         "auto_tare", "power_up_tare", "zero_band", "average_timing", "stp_ntp_pressure",
         "stp_ntp_temperature", "analog_output_source", "blink_display", "lock_display",
         "unlock_display", "user_data", "totalizer_config", "totalizer_reset",
         "totalizer_reset_peak", "totalizer_save", "setpoint", "setpoint_legacy",
         "setpoint_source", "loop_control_variable", "ramp_rate", "deadband_limit",
         "hold_valves", "hold_valves_closed", "cancel_valve_hold", "valve_drive",
         "streaming_rate"}
  BY DEF Commands

LEMMA CommandsAre ==
    /\ Commands["ve_query"] = Ve
    /\ Commands["manufacturing_info"] = ManufacturingInfo
    /\ Commands["data_frame_format_query"] = DataFrameFormat
    /\ Commands["poll_data"] = PollData
    /\ Commands["request_data"] = RequestData
    /\ Commands["gas_select"] = GasSelect
    /\ Commands["gas_select_legacy"] = GasSelectLegacy
    /\ Commands["gas_list"] = GasList
    /\ Commands["engineering_units"] = EngineeringUnits
    /\ Commands["full_scale_query"] = FullScaleQuery
    /\ Commands["tare_flow"] = TareFlow
    /\ Commands["tare_gauge_pressure"] = TareGaugePressure
    /\ Commands["tare_absolute_pressure"] = TareAbsolutePressure
    /\ Commands["auto_tare"] = AutoTare
    /\ Commands["power_up_tare"] = PowerUpTare
    /\ Commands["zero_band"] = ZeroBand
    /\ Commands["average_timing"] = AverageTiming
    /\ Commands["stp_ntp_pressure"] = StpNtpPressure
    /\ Commands["stp_ntp_temperature"] = StpNtpTemperature
    /\ Commands["analog_output_source"] = AnalogOutputSource
    /\ Commands["blink_display"] = BlinkDisplay
    /\ Commands["lock_display"] = LockDisplay
    /\ Commands["unlock_display"] = UnlockDisplay
    /\ Commands["user_data"] = UserData
    /\ Commands["totalizer_config"] = TotalizerConfig
    /\ Commands["totalizer_reset"] = TotalizerReset
    /\ Commands["totalizer_reset_peak"] = TotalizerResetPeak
    /\ Commands["totalizer_save"] = TotalizerSave
    /\ Commands["setpoint"] = Setpoint
    /\ Commands["setpoint_legacy"] = SetpointLegacy
    /\ Commands["setpoint_source"] = SetpointSource
    /\ Commands["loop_control_variable"] = LoopControlVariable
    /\ Commands["ramp_rate"] = RampRate
    /\ Commands["deadband_limit"] = DeadbandLimit
    /\ Commands["hold_valves"] = HoldValves
    /\ Commands["hold_valves_closed"] = HoldValvesClosed
    /\ Commands["cancel_valve_hold"] = CancelValveHold
    /\ Commands["valve_drive"] = ValveDrive
    /\ Commands["streaming_rate"] = StreamingRate
  BY DEF Commands

LEMMA IdentitySay ==
    /\ Says("ve_query", "VE")
    /\ Says("manufacturing_info", "??M*")
    /\ Says("data_frame_format_query", "??D*")
    /\ Says("poll_data", Blank)
    /\ Says("request_data", "DV")
  BY CommandsAre DEF Says, Blank, Token, Plainly, Fills, Ve, Command, ManufacturingInfo,
      DataFrameFormat, PollData, Framed, RequestData

LEMMA UnitsSay ==
    /\ Says("gas_select", "GS")
    /\ Says("gas_select_legacy", "G")
    /\ Says("gas_list", "??G*")
    /\ Says("engineering_units", "DCU")
    /\ Says("full_scale_query", "FPF")
  BY CommandsAre DEF Says, Token, Plainly, Fills, GasSelect, Command, Late, Since,
      GasSelectLegacy, Framed, GasList, EngineeringUnits, FullScaleQuery

LEMMA TaresSay ==
    /\ Says("tare_flow", "T")
    /\ Says("tare_gauge_pressure", "TP")
    /\ Says("tare_absolute_pressure", "PC")
    /\ Says("auto_tare", "ZCA")
    /\ Says("power_up_tare", "ZCP")
  BY CommandsAre DEF Says, Token, Plainly, Fills, TareFlow, Command, Framed, TareGaugePressure,
      TareAbsolutePressure, AutoTare, Late, Since, PowerUpTare

LEMMA AveragesSay ==
    /\ Says("zero_band", "DCZ")
    /\ Says("average_timing", "DCA")
    /\ Says("stp_ntp_pressure", "DCFRP")
    /\ Says("stp_ntp_temperature", "DCFRT")
    /\ Says("analog_output_source", "ASOCV")
  BY CommandsAre DEF Says, Token, Plainly, Fills, ZeroBand, Command, Late, Since, AverageTiming,
      StpNtpPressure, StpNtp, StpNtpTemperature, AnalogOutputSource

LEMMA PanelSay ==
    /\ Says("blink_display", "FFP")
    /\ Says("lock_display", "L")
    /\ Says("unlock_display", "U")
    /\ Says("user_data", "UD")
    /\ Says("totalizer_config", "TC")
  BY CommandsAre DEF Says, Token, Plainly, Fills, BlinkDisplay, Command, Since, LockDisplay,
      Framed, UnlockDisplay, UserData, TotalizerConfig

LEMMA TotalsSay ==
    /\ Says("totalizer_reset", "T")
    /\ Says("totalizer_reset_peak", "TP")
    /\ Says("totalizer_save", "TCR")
  BY CommandsAre DEF Says, Token, Plainly, Fills, TotalizerReset, Resets, Command, Framed, Since,
      TotalizerResetPeak, TotalizerSave, Late

LEMMA LoopSay ==
    /\ Says("setpoint", "LS")
    /\ Says("setpoint_legacy", "S")
    /\ Says("setpoint_source", "LSS")
    /\ Says("loop_control_variable", "LV")
    /\ Says("ramp_rate", "SR")
    /\ Says("deadband_limit", "LCDB")
  BY CommandsAre DEF Says, Token, Plainly, Fills, Setpoint, Command, Since, SetpointLegacy,
      Framed, SetpointSource, Late, LoopControlVariable, RampRate, DeadbandLimit

LEMMA ValvesSay ==
    /\ Says("hold_valves", "HP")
    /\ Says("hold_valves_closed", "HC")
    /\ Says("cancel_valve_hold", "C")
    /\ Says("valve_drive", "VD")
    /\ Says("streaming_rate", "NCS")
  BY CommandsAre DEF Says, Token, Plainly, Fills, HoldValves, Hold, Command, Framed, Since,
      HoldValvesClosed, CancelValveHold, ValveDrive, StreamingRate, Late

LEMMA BlankApart ==
    Blank \notin {"??D*", "??G*", "??M*", "ASOCV", "C", "DCA", "DCFRP", "DCFRT", "DCU",
                   "DCZ", "DV", "FFP", "FPF", "G", "GS", "HC", "HP", "L", "LCDB", "LS",
                   "LSS", "LV", "NCS", "PC", "S", "SR", "T", "TC", "TCR", "TP", "U", "UD",
                   "VD", "VE", "ZCA", "ZCP"}
  BY Zenon DEF Blank

\* A token belongs to one command, or to a tare and a reset.
LEMMA TokensApart ==
    ASSUME NEW name \in DOMAIN Commands, NEW other \in DOMAIN Commands,
           Token(other) = Token(name)
    PROVE  \/ other = name
           \/ {name, other} \subseteq {"tare_flow", "totalizer_reset"}
           \/ {name, other} \subseteq {"tare_gauge_pressure", "totalizer_reset_peak"}
  BY CommandNames, BlankApart, IdentitySay, UnitsSay, TaresSay, AveragesSay, PanelSay, TotalsSay,
      LoopSay, ValvesSay DEF Says

\* Which of them, the number of arguments tells.
LEMMA FormsApart ==
    ASSUME NEW name \in DOMAIN Commands, NEW other \in DOMAIN Commands,
           Token(other) = Token(name),
           NEW n \in Commands[name].asks \cup Commands[name].sets,
           n \in Commands[other].asks \cup Commands[other].sets
    PROVE  other = name
<1>1. \A c \in {TareFlow, TareGaugePressure} : c.asks \cup c.sets = {0}
  BY DEF TareFlow, TareGaugePressure, Framed, Command
<1>2. \A c \in {TotalizerReset, TotalizerResetPeak} : c.asks \cup c.sets = {1}
  BY DEF TotalizerReset, TotalizerResetPeak, Resets, Framed, Command, Since
<1> QED
  BY <1>1, <1>2, TokensApart, CommandsAre

LEMMA AllPlain ==
    ASSUME NEW name \in DOMAIN Commands
    PROVE  Plainly(name)
  BY CommandNames, IdentitySay, UnitsSay, TaresSay, AveragesSay, PanelSay, TotalsSay,
      LoopSay, ValvesSay DEF Says

\* 1v to 7v firmware takes no command whose token begins with L but the lock itself.
LEMMA LockOnly ==
    ASSUME NEW name \in DOMAIN Commands, Token(name) \in LTokens,
           "V1_V7" \in Commands[name].families
    PROVE  name = "lock_display"
<1>1. name \in {"lock_display", "setpoint", "setpoint_source", "loop_control_variable",
               "deadband_limit"}
  BY CommandNames, BlankApart, IdentitySay, UnitsSay, TaresSay, AveragesSay, PanelSay, TotalsSay,
      LoopSay, ValvesSay DEF Says, LTokens
<1>2. /\ "V1_V7" \notin Setpoint.families /\ "V1_V7" \notin SetpointSource.families
      /\ "V1_V7" \notin LoopControlVariable.families /\ "V1_V7" \notin DeadbandLimit.families
  BY DEF Setpoint, SetpointSource, LoopControlVariable, DeadbandLimit, Late, Since,
      Modern
<1> QED
  BY <1>1, <1>2, CommandsAre

\* What the gates let through the device takes for the command that was meant, a query is
\* never a set, and the caller is told what a reply is about: for every firmware, kind,
\* medium and capability, with tokens short and reused (T and T n, TP and TP n) and old
\* firmware locking its display at any L.
THEOREM CommandsAreUnderstood == Spec => []Understood
<1>1. SessionInv => Understood
  <2> SUFFICES ASSUME SessionInv, NEW t \in Tasks, job[t].step = "sent"
               PROVE  LET c == Commands[job[t].name]
                          prefixed == info.firmware = GP /\ ~c.bare
                      IN  /\ Interprets(c.token, prefixed, job[t].n) = {job[t].name}
                          /\ c.asks \cap c.sets = {}
                          /\ c.lacks = Fills(job[t].name)
    BY DEF Understood
  <2> DEFINE name == job[t].name
             c == Commands[name]
             prefixed == info.firmware = GP /\ ~c.bare
  <2>1. name \in DOMAIN Commands /\ job[t].n \in c.asks \cup c.sets /\ FirmwareOpen(c)
    BY DEF SessionInv, Gated, Passes
  <2>2. c.asks \cap c.sets = {} /\ c.lacks = Fills(name)
    BY <2>1, AllPlain DEF Plainly
  <2>3. CASE info.firmware.family = "V1_V7" /\ c.token \in LTokens
    <3>1. name = "lock_display"
      BY <2>1, <2>3, LockOnly DEF FirmwareOpen, Token
    <3> QED
      BY <2>2, <2>3, <3>1 DEF Interprets
  <2>4. CASE ~(info.firmware.family = "V1_V7" /\ c.token \in LTokens)
    <3>1. ASSUME NEW other \in DOMAIN Commands, Commands[other].token = c.token,
                 job[t].n \in Commands[other].asks \cup Commands[other].sets
          PROVE  other = name
      BY <2>1, <3>1, FormsApart DEF Token
    <3>2. Interprets(c.token, prefixed, job[t].n) = {name}
      BY <2>1, <2>4, <3>1 DEF Interprets
    <3> QED
      BY <2>2, <3>2
  <2> QED
    BY <2>3, <2>4
<1> QED
  BY <1>1, Invariant, PTL

=============================================================================
