------------------------------ MODULE Autotune ------------------------------
(***************************************************************************)
(* scripts/pid_autotune.py tune: a controller's PID gains are searched on  *)
(* the live device.  The run switches the loop algorithm, the set-point    *)
(* source and the ramp for its duration, tries gains under a guard, goes   *)
(* back to known gains when a trial destabilises the loop, and on every    *)
(* way out puts back what it changed, unless the tuned gains were          *)
(* accepted.                                                               *)
(*                                                                         *)
(* An action is one command with its retries, or one stretch of sampling.  *)
(* A command that fails has or has not been obeyed: with_retry only knows  *)
(* that no attempt was answered.                                           *)
(***************************************************************************)
EXTENDS Integers, Sequences, FiniteSets, SequencesExt

CONSTANTS
    Names,          \* the gains that are searched, in the order they are written
    Base,           \* [gain -> its value on the device before the run]
    GainMax,
    Algorithms,
    Costs,          \* what a clean trial may cost
    Unstable,       \* UNSTABLE_COST
    Noises,         \* 0.5 * noise_sigma
    Margin,         \* --margin, in percent
    Step0, StepMax, Limit,      \* in doublings of a gain; a search ends below one
    MaxTrials, Repeats, Confirms,
    Arguments,      \* [want, keepRamp, keepSource, calibrate, hold, modern]
    None

Gain == {Names[i] : i \in DOMAIN Names}

ASSUME AutotuneAssumption ==
    /\ Base \in [Gain -> 1..GainMax]
    /\ \A c \in Costs : c \in 1..(Unstable - 1)
    /\ Unstable \in Nat
    /\ Step0 \in 1..StepMax /\ Limit \in Nat /\ Margin \in 0..99
    /\ MaxTrials \in Nat /\ Repeats \in Nat \ {0} /\ Confirms \in Nat

VARIABLES
    args,       \* the command line, and which gain backend the firmware has
    saved,      \* SavedState: the device as it was; saved.known: what could be read of it
    dev,        \* the device: algorithm, gains, gains in EEPROM, ramp, source, setpoint
    pc,         \* where cmd_tune is
    trial,      \* the trial that runs: its label, gains, cost, the await it is at
    cache,      \* Runner.cache: [gains tried -> how many trials completed, their cost
                \*   in all, and how many were aborted]
    lastGood,   \* Runner.last_good
    search,     \* the locals of compass_search
    best,       \* what cmd_tune is about to apply
    changed,    \* SavedState.algorithm_changed
    accepted,   \* {what was applied for good: the gains and their algorithm}, or {}
    todo,       \* what restore_after_tune has left to do
    failed,     \* what it reported it could not restore
    stop,       \* StopFlag.requested
    cut,        \* how the restore was left before its end: "no", "ctrl-c", "error"
    unanswered, \* history: commands of the run that failed and may have been obeyed
    clean       \* history: gains that completed a trial

vars == <<args, saved, dev, pc, trial, cache, lastGood, search, best, changed, accepted,
          todo, failed, stop, cut, unanswered, clean>>

runner == <<cache, lastGood, clean>>
result == <<best, accepted>>

-----------------------------------------------------------------------------
\* Gains.

\* What a failed write may leave: the registers are written one at a time.
Partly(from, to) ==
    IF args.modern THEN {from, to}
    ELSE {[n \in Gain |-> IF n \in {Names[i] : i \in 1..k} THEN to[n] ELSE from[n]] :
            k \in 0..Len(Names)}

\* gain_path: the waypoints of a large move lie between its ends.
Between(from, to) ==
    {m \in [Gain -> {from[n] : n \in Gain} \cup {to[n] : n \in Gain}
                        \cup {(from[n] + to[n]) \div 2 : n \in Gain}] :
        /\ m \notin {from, to}
        /\ \A n \in Gain : \/ from[n] <= m[n] /\ m[n] <= to[n]
                           \/ to[n] <= m[n] /\ m[n] <= from[n]}

\* backend.write: register writes persist whatever was asked.
Written(gains, save) ==
    [dev EXCEPT !.gains = gains, !.stored = IF save \/ ~args.modern THEN gains ELSE @]

\* A gain is a whole number: small moves of a small gain are no move.
Scaled(g, x) ==
    LET up == g * 2^x
        down == (g + 2^(-x - 1)) \div 2^(-x)
        v == IF x >= 0 THEN up ELSE down
    IN  IF v < 1 THEN 1 ELSE IF v > GainMax THEN GainMax ELSE v
ToGains(x) == [n \in Gain |-> Scaled(Base[n], x[n])]

-----------------------------------------------------------------------------
\* Costs.  Those of the trials of some gains are only ever averaged; the aborted
\* ones count Unstable each, or are left out.  A mean is <<sum, count>>.

NoRuns == [cost |-> 0, completed |-> 0, aborted |-> 0]
Plus(runs, cost) ==
    IF cost = Unstable THEN [runs EXCEPT !.aborted = @ + 1]
    ELSE [runs EXCEPT !.cost = @ + cost, !.completed = @ + 1]
Mean(runs) == <<runs.cost + Unstable * runs.aborted, runs.completed + runs.aborted>>
Below(a, b) == 100 * a[1] * b[2] < (100 - Margin) * b[1] * a[2]
Improves(a, b) == Below(a, b) /\ a[1] * b[2] < b[1] * a[2] - search.noise * a[2] * b[2]
WithRun(g, cost) ==
    [h \in DOMAIN cache \cup {g} |->
        IF h # g THEN cache[h] ELSE Plus(IF g \in DOMAIN cache THEN cache[g] ELSE NoRuns, cost)]

-----------------------------------------------------------------------------
\* The directions of a round: the one that worked last goes first.
Directions == [i \in 1..(2 * Len(Names)) |->
                  <<Names[(i + 1) \div 2], IF i % 2 = 1 THEN 1 ELSE -1>>]
Ordered(last) ==
    IF last = <<>> THEN Directions
    ELSE <<last>> \o SelectSeq(Directions, LAMBDA d : d # last)

Clamp(v) == IF v > Limit THEN Limit ELSE IF v < -Limit THEN -Limit ELSE v
Moved(s) == [s.x EXCEPT ![s.dirs[1][1]] = Clamp(@ + s.dirs[1][2] * s.step)]
NewRound(s) == [s EXCEPT !.dirs = Ordered(s.last)]
Searched(s) == s.used >= MaxTrials \/ s.step < 1

\* What a cost says of the direction that was tried.
Judged(s, cost) ==
    IF Improves(cost, s.cost)
    THEN LET streak == IF s.last = s.dirs[1] THEN s.streak + 1 ELSE 1
         IN  NewRound([s EXCEPT !.x = Moved(s), !.best = ToGains(Moved(s)), !.cost = cost,
                                !.streak = streak, !.last = s.dirs[1],
                                !.step = IF streak < 2 THEN @
                                         ELSE IF 2 * @ > StepMax THEN StepMax ELSE 2 * @])
    ELSE [s EXCEPT !.dirs = Tail(@)]

\* No direction improved.
Halved(s) == [s EXCEPT !.step = @ \div 2, !.streak = 0, !.dirs = <<>>]

-----------------------------------------------------------------------------
Init ==
    /\ args \in Arguments
    /\ \E alg \in Algorithms, ramp \in BOOLEAN, source \in {"S", "U"},
          known \in SUBSET {"ramp", "source", "setpoint"} :
        /\ dev = [alg |-> alg, gains |-> Base, stored |-> Base, ramp |-> ramp,
                  source |-> source, setpoint |-> "own"]
        /\ saved = [dev |-> dev, known |-> known]
    /\ pc = "algorithm"
    /\ trial = None
    /\ cache = <<>>
    /\ lastGood = Base
    /\ search = [x |-> [n \in Gain |-> 0], best |-> Base, cost |-> <<0, 1>>, step |-> Step0,
                 dirs |-> <<>>, last |-> <<>>, streak |-> 0, used |-> 0, noise |-> 0]
    /\ best = Base
    /\ changed = FALSE
    /\ accepted = {}
    /\ todo = <<>>
    /\ failed = {}
    /\ stop = FALSE
    /\ cut = "no"
    /\ unanswered = {}
    /\ clean = {}

-----------------------------------------------------------------------------
\* restore_after_tune.

\* What was switched for the run, of what could be read.
RampOff == "ramp" \in saved.known /\ saved.dev.ramp /\ ~args.keepRamp
SourceOff == "source" \in saved.known /\ saved.dev.source = "S" /\ ~args.keepSource

If(part, condition) == IF condition THEN <<part>> ELSE <<>>

Undo(gains, switched) ==
    (IF gains # {} THEN <<>>
     ELSE <<IF switched THEN "algorithm" ELSE "back", "gains">>)
    \o If("ramp", RampOff) \o If("source", SourceOff)
    \o If("setpoint", "setpoint" \in saved.known)

\* Every way out leads here: an error, a stop, a SystemExit, the end.
Leave(gains, switched) ==
    /\ pc' = IF Undo(gains, switched) = <<>> THEN "done" ELSE "restore"
    /\ todo' = Undo(gains, switched)
    /\ trial' = None
Raise == Leave(accepted, changed)

Put(part) ==
    CASE part = "gains" -> Written(saved.dev.gains, FALSE)
      [] part = "algorithm" -> [dev EXCEPT !.alg = saved.dev.alg]
      [] part \in {"ramp", "source", "setpoint"} -> [dev EXCEPT ![part] = saved.dev[part]]

\* What the device may be left as when an item fails.
Left(part) ==
    CASE part = "back" -> {Written(g, FALSE) :
                            g \in {dev.gains} \cup Between(dev.gains, saved.dev.gains)}
      [] part = "gains" -> {Written(g, FALSE) : g \in Partly(dev.gains, saved.dev.gains)}
      [] OTHER -> {dev, Put(part)}

Proceed ==
    /\ todo' = Tail(todo)
    /\ pc' = IF Len(todo) = 1 THEN "done" ELSE "restore"

rest == <<args, saved, trial, runner, search, result, changed, stop, unanswered>>

\* A large move back is stepped; what fails of it is not retried.
RampBack ==
    /\ pc = "restore" /\ Head(todo) = "back"
    /\ dev' \in Left("back")
    /\ Proceed
    /\ UNCHANGED <<rest, failed, cut>>

Restore ==
    /\ pc = "restore" /\ Head(todo) # "back"
    /\ \/ dev' = Put(Head(todo)) /\ UNCHANGED failed
       \/ dev' \in Left(Head(todo)) /\ failed' = failed \cup {Head(todo)}
    /\ Proceed
    /\ UNCHANGED <<rest, cut>>

\* The restore is left in the middle of an item, which is not reported.
Abandon(how) ==
    /\ pc = "restore"
    /\ dev' \in Left(Head(todo))
    /\ pc' = "done"
    /\ cut' = how
    /\ UNCHANGED <<rest, todo, failed>>

\* The handler is uninstalled by now: Ctrl-C is a KeyboardInterrupt at once.
CutShort == Abandon("ctrl-c")

\* attempt and the ramp-back catch AlicatError and GainWriteError.  A reply to LCA that
\* carries no known code makes Algorithm(...) raise a ValueError: set_algorithm reads such
\* a reply, and so do read and the second look of write.
Escapes ==
    /\ pc = "restore" /\ args.modern /\ Head(todo) \in {"back", "algorithm", "gains"}
    /\ Abandon("error")

-----------------------------------------------------------------------------
\* What the run switches before it tunes.

quiet == <<args, saved, runner, result, failed, stop, cut>>

\* algorithm_changed is set once the switch was answered.
SwitchAlgorithm ==
    /\ pc = "algorithm"
    /\ LET switched == [dev EXCEPT !.alg = args.want]
       IN  \/ /\ args.want \in {"keep", dev.alg}
              /\ pc' = "source"
              /\ UNCHANGED <<dev, trial, todo, changed, unanswered>>
           \/ /\ args.want \notin {"keep", dev.alg} /\ args.modern
              /\ dev' = switched /\ changed' = TRUE
              /\ \/ pc' = "source" /\ UNCHANGED <<trial, todo>>
                 \/ Leave({}, TRUE)
              /\ UNCHANGED unanswered
           \/ /\ args.want \notin {"keep", dev.alg}
              /\ dev' \in {dev} \cup IF args.modern THEN {switched} ELSE {}
              /\ unanswered' = unanswered \cup {"algorithm"}
              /\ Raise
              /\ UNCHANGED changed
    /\ UNCHANGED <<quiet, search>>

Switch(part, wanted, value, next) ==
    /\ pc = part
    /\ \/ ~wanted /\ pc' = next /\ UNCHANGED <<dev, trial, todo>>
       \/ /\ wanted
          /\ \/ dev' = [dev EXCEPT ![part] = value] /\ pc' = next /\ UNCHANGED <<trial, todo>>
             \/ dev' \in {dev, [dev EXCEPT ![part] = value]} /\ Raise
    /\ UNCHANGED <<quiet, search, changed, unanswered>>

SwitchSource == Switch("source", SourceOff, "U", "ramp")
SwitchRamp == Switch("ramp", RampOff, FALSE, "approach")

-----------------------------------------------------------------------------
\* Trials.

Trial(gains, label, count) ==
    [gains |-> gains, label |-> label, count |-> count, at |-> "apply", cost |-> 0]
Begin(gains, label, count) ==
    /\ trial' = Trial(gains, label, count)
    /\ pc' = "trial"
    /\ UNCHANGED todo
At(await) == pc = "trial" /\ trial.at = await
GoTo(await) == trial' = [trial EXCEPT !.at = await] /\ UNCHANGED <<pc, todo>>
Held == trial.label \in {"hold-base", "hold-best"}

\* Samples come in until a stop was asked for; the guard of a trial may abort it.
Sampled == ~stop
Aborted == Sampled /\ ~Held

\* wait_at_setpoint, before the first trial.
Approach ==
    /\ pc = "approach"
    /\ \E sp \in {dev.setpoint, "plan"} : dev' = [dev EXCEPT !.setpoint = sp]
    /\ \/ /\ dev'.setpoint = "plan" /\ Sampled
          /\ Begin(Base, IF args.calibrate THEN "calibrate" ELSE "baseline", 1)
       \/ Raise
    /\ UNCHANGED <<quiet, search, changed, unanswered>>

\* apply_gains, and the samples its guard takes on the way.
Apply ==
    /\ At("apply")
    /\ \/ dev' = Written(trial.gains, FALSE) /\ GoTo("steps")
       \/ \E g \in Between(dev.gains, trial.gains) :
            /\ dev' = Written(g, FALSE)
            /\ (Aborted /\ GoTo("recover")) \/ (~Sampled /\ Raise)
       \/ \E g \in Partly(dev.gains, trial.gains) \cup Between(dev.gains, trial.gains) :
            dev' = Written(g, FALSE) /\ Raise
    /\ UNCHANGED <<quiet, search, changed, unanswered>>

Completes(cost) ==
    /\ trial' = [trial EXCEPT !.at = "over", !.cost = cost]
    /\ cache' = IF Held THEN cache ELSE WithRun(trial.gains, cost)
    /\ lastGood' = IF Held \/ cost = Unstable THEN lastGood ELSE trial.gains
    /\ clean' = IF Held \/ cost = Unstable THEN clean ELSE clean \cup {trial.gains}

\* The hold and the set-point steps of a trial, or the two collects of a hold test.
Steps ==
    /\ At("steps")
    /\ \E sp \in {dev.setpoint, "plan", "step"} :
        /\ dev' = [dev EXCEPT !.setpoint = sp]
        /\ \/ /\ sp = "plan" /\ Sampled
              /\ \E cost \in Costs : Completes(cost)
              /\ UNCHANGED <<pc, todo>>
           \/ Aborted /\ GoTo("recover") /\ UNCHANGED runner
           \/ Raise /\ UNCHANGED runner
    /\ UNCHANGED <<args, saved, result, failed, stop, cut, search, changed, unanswered>>

\* recover: the last good gains, in one write.
Recover ==
    /\ At("recover")
    /\ \/ dev' = Written(lastGood, FALSE) /\ GoTo("home")
       \/ \E g \in Partly(dev.gains, lastGood) : dev' = Written(g, FALSE) /\ Raise
    /\ UNCHANGED <<quiet, search, changed, unanswered>>

\* Mutant: an aborted trial keeps the cost it started with.
AbortCost_Zero == 0
AbortCost == Unstable

\* The loop comes home, or the run ends.
ComeHome ==
    /\ At("home")
    /\ \E sp \in {dev.setpoint, "plan"} : dev' = [dev EXCEPT !.setpoint = sp]
    /\ \/ /\ dev'.setpoint = "plan" /\ Sampled
          /\ trial' = [trial EXCEPT !.at = "over", !.cost = AbortCost]
          /\ cache' = WithRun(trial.gains, AbortCost)
          /\ UNCHANGED <<pc, todo>>
       \/ Raise /\ UNCHANGED cache
    /\ UNCHANGED <<args, saved, result, failed, stop, cut, search, changed, unanswered,
                   lastGood, clean>>

-----------------------------------------------------------------------------
\* cmd_tune, between the trials.

Over(labels) == At("over") /\ trial.label \in labels
same == <<args, saved, dev, failed, stop, cut, changed, unanswered, lastGood, clean>>

Calibrated ==
    /\ Over({"calibrate"})
    /\ IF trial.cost = Unstable THEN Raise /\ UNCHANGED cache
       ELSE Begin(Base, "baseline", 1) /\ cache' = <<>>
    /\ UNCHANGED <<same, search, result>>

\* The aborted baseline runs are left out of the baseline.
Baselined ==
    /\ Over({"baseline"})
    /\ LET runs == [cache[Base] EXCEPT !.aborted = 0]
       IN  IF trial.count < Repeats
           THEN Begin(Base, "baseline", trial.count + 1) /\ UNCHANGED <<cache, search>>
           ELSE /\ cache' = [cache EXCEPT ![Base] = runs]
                /\ IF runs.completed = 0 THEN Raise /\ UNCHANGED search
                   ELSE /\ \E noise \in Noises :
                            search' = NewRound([search EXCEPT !.cost = Mean(runs),
                                                              !.noise = noise])
                        /\ pc' = "search"
                        /\ UNCHANGED <<trial, todo>>
    /\ UNCHANGED <<same, result>>

\* Mutant: one round of the confirmation too few.
Confirm_Short(s) ==
    IF s.best # Base /\ Confirms > 1
    THEN Begin(Base, "confirm-base", 2)
    ELSE pc' = "compare" /\ UNCHANGED <<trial, todo>>

\* The search is over: the two are compared again, side by side.
Confirm(s) ==
    IF s.best # Base /\ Confirms > 0
    THEN Begin(Base, "confirm-base", 1)
    ELSE pc' = "compare" /\ UNCHANGED <<trial, todo>>

\* One direction of a round, or the end of the round.
Look ==
    /\ pc = "search"
    /\ LET s == search
       IN  \/ /\ Searched(s)
              /\ Confirm(s)
              /\ UNCHANGED search
           \/ /\ ~Searched(s) /\ s.dirs # <<>>
              /\ LET g == ToGains(Moved(s))
                 IN  \/ /\ g = s.best
                        /\ search' = [s EXCEPT !.dirs = Tail(@)]
                        /\ UNCHANGED <<pc, trial, todo>>
                     \/ /\ g # s.best /\ g \in DOMAIN cache
                        /\ search' = Judged(s, Mean(cache[g]))
                        /\ UNCHANGED <<pc, trial, todo>>
                     \/ /\ g # s.best /\ g \notin DOMAIN cache
                        /\ Begin(g, "search", 1)
                        /\ UNCHANGED search
           \/ /\ ~Searched(s) /\ s.dirs = <<>>
              /\ IF s.best # Base
                 THEN search' = Halved(s) /\ Begin(s.best, "recheck", 1)
                 ELSE search' = NewRound(Halved(s)) /\ UNCHANGED <<pc, trial, todo>>
    /\ UNCHANGED <<same, cache, result>>

\* A candidate that was tried is judged; a re-checked incumbent is costed again.
Tried ==
    /\ Over({"search", "recheck"})
    /\ LET s == [search EXCEPT !.used = @ + 1]
       IN  search' = IF trial.label = "search" THEN Judged(s, <<trial.cost, 1>>)
                     ELSE NewRound([s EXCEPT !.cost = Mean(cache[s.best])])
    /\ pc' = "search"
    /\ UNCHANGED <<same, cache, result, trial, todo>>

Confirmed ==
    /\ Over({"confirm-base", "confirm-best"})
    /\ IF trial.label = "confirm-base" THEN Begin(search.best, "confirm-best", trial.count)
       ELSE IF trial.count < Confirms THEN Begin(Base, "confirm-base", trial.count + 1)
       ELSE pc' = "compare" /\ UNCHANGED <<trial, todo>>
    /\ UNCHANGED <<same, cache, search, result>>

\* The best has to beat the baseline by the margin.
Compare ==
    /\ pc = "compare"
    /\ best' = IF search.best # Base /\ ~Below(Mean(cache[search.best]), Mean(cache[Base]))
               THEN Base ELSE search.best
    /\ IF args.hold THEN Begin(Base, "hold-base", 1)
       ELSE pc' = "decide" /\ UNCHANGED <<trial, todo>>
    /\ UNCHANGED <<same, cache, search, accepted>>

HoldTested ==
    /\ Over({"hold-base", "hold-best"})
    /\ IF trial.label = "hold-base" /\ best # Base THEN Begin(best, "hold-best", 1)
       ELSE pc' = "decide" /\ UNCHANGED <<trial, todo>>
    /\ UNCHANGED <<same, cache, search, result>>

\* Mutant: the gains count as accepted as soon as they are sent.
Taken_Sent(answered) == {[alg |-> dev.alg, gains |-> best]}
Taken(answered) == IF answered THEN {[alg |-> dev.alg, gains |-> best]} ELSE {}

\* The gains are kept, or they are applied, to RAM or to EEPROM.
Decide ==
    /\ pc = "decide"
    /\ \/ /\ Raise
          /\ UNCHANGED <<dev, accepted, unanswered>>
       \/ /\ best # Base \/ dev.alg # saved.dev.alg
          /\ \E save, answered \in BOOLEAN :
              /\ \E g \in IF answered THEN {best} ELSE Partly(dev.gains, best) :
                    dev' = Written(g, save)
              /\ accepted' = Taken(answered)
              /\ unanswered' = IF save /\ ~answered THEN unanswered \cup {"save"}
                               ELSE unanswered
          /\ Leave(accepted', changed)
    /\ UNCHANGED <<args, saved, failed, stop, cut, changed, runner, search, best>>

-----------------------------------------------------------------------------
\* StopFlag: the first Ctrl-C is looked at by the next sample, the second raises.
CtrlC ==
    /\ pc \notin {"restore", "done"}
    /\ IF stop THEN Raise /\ UNCHANGED stop
       ELSE stop' = TRUE /\ UNCHANGED <<pc, todo, trial>>
    /\ UNCHANGED <<args, saved, dev, runner, search, result, changed, failed, cut, unanswered>>

Next ==
    \/ SwitchAlgorithm \/ SwitchSource \/ SwitchRamp \/ Approach
    \/ Apply \/ Steps \/ Recover \/ ComeHome
    \/ Calibrated \/ Baselined \/ Look \/ Tried \/ Confirmed \/ Compare \/ HoldTested
    \/ Decide
    \/ RampBack \/ Restore \/ CutShort \/ Escapes \/ CtrlC

Spec == Init /\ [][Next]_vars

-----------------------------------------------------------------------------
\* Properties.

\* However the run ended, what it could read and then changed is back, or was reported
\* as not restored, or was still to do when the restore was left before its end, unless
\* the tuned gains were accepted and are on the device; the exceptions are an algorithm
\* switch and a save whose reply was lost.  The restore comes to its end unless Ctrl-C
\* hits it, or, of a device with LCA and before gains were accepted, an unknown algorithm
\* code.  A failure of any command or a stop at any sample may come in between
\* (restore_after_tune, and the finally of cmd_tune).
Restored ==
    LET missing == failed \cup ToSet(todo) IN
    pc = "done" =>
        /\ todo # <<>> => cut = "ctrl-c" \/ (cut = "error" /\ args.modern /\ accepted = {})
        /\ dev.ramp = saved.dev.ramp \/ "ramp" \in missing
        /\ dev.source = saved.dev.source \/ "source" \in missing
        /\ \/ dev.setpoint = saved.dev.setpoint \/ "setpoint" \in missing
           \/ "setpoint" \notin saved.known
        /\ accepted = {} =>
            /\ dev.gains = saved.dev.gains \/ "gains" \in missing
            /\ dev.alg = saved.dev.alg \/ {"algorithm"} \cap (missing \cup unanswered) # {}
            /\ dev.stored = saved.dev.gains \/ "gains" \in missing \/ "save" \in unanswered
        /\ \A a \in accepted : dev.gains = a.gains /\ dev.alg = a.alg

\* The loop is only ever sent home on gains that completed a trial, or on those it
\* came with, and only gains that completed a trial are accepted: an aborted trial
\* is never the better one, neither in the search nor in the confirmation, where
\* the costs of several trials are averaged (recover, compass_search, cmd_tune).
OnlyProven ==
    /\ At("home") => dev.gains \in clean \cup {Base}
    /\ \A a \in accepted : a.gains \in clean

\* Other gains than those it came with are accepted only when both were tried more
\* often than the confirmation has rounds, and over all their trials the new ones are
\* the better by the margin; the hold test, which comes between the comparison and
\* the decision, does not change that (cmd_tune, run_trial, mean_cost).
BestConfirmed ==
    \A a \in accepted : a.gains # Base =>
        /\ \A g \in {a.gains, Base} : Mean(cache[g])[2] > Confirms
        /\ Below(Mean(cache[a.gains]), Mean(cache[Base]))
=============================================================================
