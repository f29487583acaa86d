--------------------------- MODULE Autotune_proofs ---------------------------
(***************************************************************************)
(* Proofs about the tuner: whatever fails or is stopped, a run that ends   *)
(* has put back what it changed (LoopIsRestored), only gains that          *)
(* completed a trial are gone back to or accepted (GainsAreProven), and    *)
(* other gains than before only after every round (BestIsConfirmed).       *)
(***************************************************************************)
EXTENDS Autotune, SequenceTheorems, TLAPS

-----------------------------------------------------------------------------
\* The shapes of the records; what is in their fields is left open.

Device(d) == d = [alg |-> d.alg, gains |-> d.gains, stored |-> d.stored, ramp |-> d.ramp,
                  source |-> d.source, setpoint |-> d.setpoint]

DevInv == Device(dev) /\ Device(saved.dev)

\* The way out.
Leaving == pc \in {"restore", "done"}

-----------------------------------------------------------------------------
\* What makes OnlyProven inductive.

\* The costs of the completed trials are at most Unstable each.
Fair(runs) ==
    /\ runs = [cost |-> runs.cost, completed |-> runs.completed, aborted |-> runs.aborted]
    /\ runs.cost \in Nat /\ runs.completed \in Nat /\ runs.aborted \in Nat
    /\ runs.cost <= Unstable * runs.completed
FairMean(m) == m = <<m[1], m[2]>> /\ m[1] \in Nat /\ m[2] \in Nat /\ m[1] <= Unstable * m[2]

CacheInv == \A g \in DOMAIN cache : Fair(cache[g]) /\ (cache[g].completed > 0 => g \in clean)

Search(s) == s = [x |-> s.x, best |-> s.best, cost |-> s.cost, step |-> s.step, dirs |-> s.dirs,
                  last |-> s.last, streak |-> s.streak, used |-> s.used, noise |-> s.noise]
Found(s) == s.best = Base \/ (s.best \in clean /\ s.best \in DOMAIN cache)
SearchInv == Search(search) /\ FairMean(search.cost) /\ Found(search)

\* The baseline is behind the run.
Searching == \/ pc \in {"search", "compare", "decide"}
             \/ pc = "trial" /\ trial.label \notin {"calibrate", "baseline"}
BaselineInv == Searching => Base \in clean /\ Base \in DOMAIN cache

Run(t) == t = [gains |-> t.gains, label |-> t.label, count |-> t.count, at |-> t.at,
               cost |-> t.cost]
TrialInv ==
    pc = "trial" =>
        /\ Run(trial)
        /\ trial.label \in {"calibrate", "baseline"} => trial.gains = Base /\ search.best = Base
        /\ trial.label = "search" => trial.gains = ToGains(Moved(search))
        /\ trial.at = "home" => dev.gains = lastGood
        /\ trial.at = "over" => /\ trial.cost \in Nat /\ trial.cost <= Unstable
                                /\ ~Held => /\ trial.gains \in DOMAIN cache
                                            /\ trial.cost = Unstable \/ trial.gains \in clean

ChosenInv == /\ lastGood \in clean \cup {Base}
             /\ best \in clean \cup {Base}
             /\ \A a \in accepted : a.gains \in clean

\* Nothing was tried yet.
Early == pc \in {"algorithm", "source", "ramp", "approach"}
EarlyInv == Early => search.best = Base

ProvenInv == CacheInv /\ SearchInv /\ ChosenInv /\ EarlyInv /\ BaselineInv /\ TrialInv

-----------------------------------------------------------------------------
\* What makes BestConfirmed inductive.

Tries(g) == Mean(cache[g])[2]
TriedInv == ~Leaving => \A g \in DOMAIN cache : Tries(g) >= 1

\* The rounds of the confirmation, of which each of the two has one trial.
RoundsInv ==
    pc = "trial" =>
        /\ trial.label = "confirm-base" =>
            /\ trial.gains = Base /\ trial.count \in Nat
            /\ Tries(Base) >= trial.count /\ Tries(search.best) >= trial.count
            /\ trial.at = "over" => Tries(Base) > trial.count
        /\ trial.label = "confirm-best" =>
            /\ trial.gains = search.best /\ trial.count \in Nat
            /\ Tries(Base) > trial.count /\ Tries(search.best) >= trial.count
            /\ trial.at = "over" => Tries(search.best) > trial.count
CompareInv ==
    pc = "compare" /\ search.best # Base => Tries(Base) > Confirms /\ Tries(search.best) > Confirms

Better(g) == /\ Tries(Base) > Confirms /\ Tries(g) > Confirms
             /\ Below(Mean(cache[g]), Mean(cache[Base]))
DecideInv == /\ pc = "decide" \/ (pc = "trial" /\ Held) => best = Base \/ Better(best)
             /\ \A a \in accepted : a.gains = Base \/ Better(a.gains)

\* A hold test has no guard, so it never recovers, which is a trial the cache counts.
HoldInv == pc = "trial" /\ trial.at \in {"recover", "home"} => ~Held

ConfirmInv == TriedInv /\ RoundsInv /\ CompareInv /\ DecideInv /\ HoldInv

-----------------------------------------------------------------------------
\* What makes Restored inductive.

Parts == {"back", "gains", "algorithm", "ramp", "source", "setpoint"}
Holds(s, part) == \E i \in 1..Len(s) : s[i] = part
ToDo(part) == Holds(todo, part)

\* A large move back goes just before the gains it leads to.
Backed(s) == \A i \in 1..Len(s) : s[i] = "back" => i + 1 \in 1..Len(s) /\ s[i + 1] = "gains"

TodoInv ==
    /\ todo \in Seq(Parts)
    /\ Leaving => Backed(todo)
    /\ pc = "restore" => todo # <<>>
    /\ pc = "done" /\ cut = "no" => todo = <<>>

\* On the way, everything that differs from before is known to the restore.
Known ==
    /\ accepted = {}
    /\ dev.ramp = saved.dev.ramp \/ RampOff
    /\ dev.source = saved.dev.source \/ SourceOff
    /\ dev.alg = saved.dev.alg \/ changed \/ "algorithm" \in unanswered
    /\ dev.stored = saved.dev.gains \/ ~args.modern

\* In the restore, it is back, or still to do, or reported.
Due(part) == ToDo(part) \/ part \in failed
RampDue == dev.ramp = saved.dev.ramp \/ Due("ramp")
SourceDue == dev.source = saved.dev.source \/ Due("source")
SetpointDue == dev.setpoint = saved.dev.setpoint \/ Due("setpoint") \/ "setpoint" \notin saved.known
GainsDue == accepted = {} => dev.gains = saved.dev.gains \/ Due("gains")
AlgorithmDue ==
    accepted = {} => dev.alg = saved.dev.alg \/ Due("algorithm") \/ "algorithm" \in unanswered
StoredDue ==
    accepted = {} => \/ dev.stored = saved.dev.gains \/ "save" \in unanswered
                     \/ ~args.modern /\ Due("gains")
Kept == accepted # {} =>
            /\ \A a \in accepted : dev.gains = a.gains /\ dev.alg = a.alg
            /\ ~ToDo("back") /\ ~ToDo("gains") /\ ~ToDo("algorithm")
AllDue == RampDue /\ SourceDue /\ SetpointDue /\ GainsDue /\ AlgorithmDue /\ StoredDue /\ Kept

RestoreInv ==
    /\ DevInv
    /\ saved.dev.gains = Base
    /\ TodoInv
    /\ ~Leaving => Known
    /\ Leaving => AllDue

-----------------------------------------------------------------------------
\* The device.

LEMMA WrittenIs ==
    ASSUME Device(dev), NEW g, NEW save \in BOOLEAN
    PROVE  /\ Device(Written(g, save))
           /\ Written(g, save).gains = g
           /\ Written(g, save).alg = dev.alg
           /\ Written(g, save).ramp = dev.ramp
           /\ Written(g, save).source = dev.source
           /\ Written(g, save).setpoint = dev.setpoint
           /\ args.modern /\ ~save => Written(g, save).stored = dev.stored
           /\ save \/ ~args.modern => Written(g, save).stored = g
<1>1. PICK a, b, c, r, s, p : dev = [alg |-> a, gains |-> b, stored |-> c, ramp |-> r,
                                     source |-> s, setpoint |-> p]
    BY DEF Device
<1>2. CASE save \/ ~args.modern
    <2>1. Written(g, save) = [alg |-> a, gains |-> g, stored |-> g, ramp |-> r,
                              source |-> s, setpoint |-> p]
        <3>1. Written(g, save) = [dev EXCEPT !.gains = g, !.stored = g]
            BY <1>2, Zenon DEF Written
        <3>2. QED BY <1>1, <3>1
    <2>2. QED BY <1>1, <1>2, <2>1 DEF Device
<1>3. CASE ~(save \/ ~args.modern)
    <2>1. Written(g, save) = [alg |-> a, gains |-> g, stored |-> c, ramp |-> r,
                              source |-> s, setpoint |-> p]
        <3>1. Written(g, save) = [dev EXCEPT !.gains = g, !.stored = @]
            BY <1>3, Zenon DEF Written
        <3>2. QED BY <1>1, <3>1
    <2>2. QED BY <1>1, <1>3, <2>1 DEF Device
<1>4. QED BY <1>2, <1>3

\* Only f differs.
Except(e, d, f, v) ==
    /\ Device(e)
    /\ e[f] = v
    /\ \A h \in {"alg", "gains", "stored", "ramp", "source", "setpoint"} : h # f => e[h] = d[h]

LEMMA FieldIs ==
    ASSUME NEW d, Device(d), NEW v, NEW f \in {"alg", "ramp", "source", "setpoint"}
    PROVE  Except([d EXCEPT ![f] = v], d, f, v)
<1>1. PICK a, b, c, r, s, p : d = [alg |-> a, gains |-> b, stored |-> c, ramp |-> r,
                                   source |-> s, setpoint |-> p]
    BY DEF Device
<1>2. CASE f = "alg"
    <2>1. [d EXCEPT ![f] = v] = [alg |-> v, gains |-> b, stored |-> c, ramp |-> r,
                                 source |-> s, setpoint |-> p]
        BY <1>1, <1>2
    <2>2. QED BY <1>1, <1>2, <2>1 DEF Device, Except
<1>3. CASE f = "ramp"
    <2>1. [d EXCEPT ![f] = v] = [alg |-> a, gains |-> b, stored |-> c, ramp |-> v,
                                 source |-> s, setpoint |-> p]
        BY <1>1, <1>3
    <2>2. QED BY <1>1, <1>3, <2>1 DEF Device, Except
<1>4. CASE f = "source"
    <2>1. [d EXCEPT ![f] = v] = [alg |-> a, gains |-> b, stored |-> c, ramp |-> r,
                                 source |-> v, setpoint |-> p]
        BY <1>1, <1>4
    <2>2. QED BY <1>1, <1>4, <2>1 DEF Device, Except
<1>5. CASE f = "setpoint"
    <2>1. [d EXCEPT ![f] = v] = [alg |-> a, gains |-> b, stored |-> c, ramp |-> r,
                                 source |-> s, setpoint |-> v]
        BY <1>1, <1>5
    <2>2. QED BY <1>1, <1>5, <2>1 DEF Device, Except
<1>6. QED BY <1>2, <1>3, <1>4, <1>5

-----------------------------------------------------------------------------
\* The sequence of what is left to do.

LEMMA HoldsConcat ==
    ASSUME NEW a \in Seq(Parts), NEW b \in Seq(Parts)
    PROVE  /\ a \o b \in Seq(Parts)
           /\ \A p : Holds(a \o b, p) <=> Holds(a, p) \/ Holds(b, p)
           /\ Backed(a) /\ ~Holds(b, "back") => Backed(a \o b)
<1>1. /\ a \o b \in Seq(Parts)
      /\ Len(a) \in Nat /\ Len(b) \in Nat
      /\ Len(a \o b) = Len(a) + Len(b)
      /\ \A i \in 1..Len(a) : (a \o b)[i] = a[i]
      /\ \A i \in 1..Len(b) : (a \o b)[Len(a) + i] = b[i]
    BY ConcatProperties, LenProperties
<1>2. \A i \in 1..Len(a \o b) : i \in 1..Len(a) \/ i - Len(a) \in 1..Len(b)
    BY <1>1
<1>3. ASSUME NEW p PROVE Holds(a \o b, p) <=> Holds(a, p) \/ Holds(b, p)
    <2>1. ASSUME NEW i \in 1..Len(a \o b), (a \o b)[i] = p PROVE Holds(a, p) \/ Holds(b, p)
        <3>1. CASE i \in 1..Len(a)
            BY <1>1, <2>1, <3>1 DEF Holds
        <3>2. CASE i - Len(a) \in 1..Len(b)
            <4>1. b[i - Len(a)] = (a \o b)[Len(a) + (i - Len(a))]
                BY <1>1, <3>2
            <4>2. Len(a) + (i - Len(a)) = i
                BY <1>1
            <4>3. QED BY <2>1, <3>2, <4>1, <4>2 DEF Holds
        <3>3. QED BY <1>2, <3>1, <3>2
    <2>2. ASSUME NEW i \in 1..Len(a), a[i] = p PROVE Holds(a \o b, p)
        <3>1. i \in 1..Len(a \o b) /\ (a \o b)[i] = p
            BY <1>1, <2>2
        <3>2. QED BY <3>1 DEF Holds
    <2>3. ASSUME NEW i \in 1..Len(b), b[i] = p PROVE Holds(a \o b, p)
        <3>1. Len(a) + i \in 1..Len(a \o b) /\ (a \o b)[Len(a) + i] = p
            BY <1>1, <2>3
        <3>2. QED BY <3>1 DEF Holds
    <2>4. QED BY <2>1, <2>2, <2>3 DEF Holds
<1>4. ASSUME Backed(a), ~Holds(b, "back"), NEW i \in 1..Len(a \o b), (a \o b)[i] = "back"
      PROVE  i + 1 \in 1..Len(a \o b) /\ (a \o b)[i + 1] = "gains"
    <2>1. CASE i \in 1..Len(a)
        <3>1. i + 1 \in 1..Len(a) /\ a[i + 1] = "gains"
            BY <1>1, <1>4, <2>1 DEF Backed
        <3>2. QED BY <1>1, <3>1
    <2>2. CASE i - Len(a) \in 1..Len(b)
        <3>1. b[i - Len(a)] = (a \o b)[Len(a) + (i - Len(a))]
            BY <1>1, <2>2
        <3>2. Len(a) + (i - Len(a)) = i
            BY <1>1
        <3>3. QED BY <1>4, <2>2, <3>1, <3>2 DEF Holds
    <2>3. QED BY <1>2, <2>1, <2>2
<1>5. Backed(a) /\ ~Holds(b, "back") => Backed(a \o b)
    BY <1>4 DEF Backed
<1>6. QED BY <1>1, <1>3, <1>5

LEMMA IfIs ==
    ASSUME NEW part \in Parts \ {"back"}, NEW c \in BOOLEAN
    PROVE  /\ If(part, c) \in Seq(Parts)
           /\ \A p : Holds(If(part, c), p) <=> c /\ p = part
<1>1. CASE c
    <2>1. If(part, c) = <<part>>
        BY <1>1 DEF If
    <2>2. <<part>> \in Seq(Parts) /\ Len(<<part>>) = 1 /\ <<part>>[1] = part
        OBVIOUS
    <2> DEFINE t == <<part>>
    <2> HIDE DEF t
    <2>3. \A p : (\E i \in 1..Len(t) : t[i] = p) <=> p = part
        BY <2>2 DEF t
    <2>4. QED BY <1>1, <2>1, <2>2, <2>3 DEF Holds, t
<1>2. CASE ~c
    <2>1. If(part, c) = <<>>
        BY <1>2 DEF If
    <2>2. <<>> \in Seq(Parts) /\ Len(<<>>) = 0
        OBVIOUS
    <2>3. QED BY <1>2, <2>1, <2>2 DEF Holds
<1>3. QED BY <1>1, <1>2

\* What Leave puts on the list.
LEMMA UndoIs ==
    ASSUME NEW gains, NEW switched
    PROVE  /\ Undo(gains, switched) \in Seq(Parts)
           /\ Backed(Undo(gains, switched))
           /\ RampOff => Holds(Undo(gains, switched), "ramp")
           /\ SourceOff => Holds(Undo(gains, switched), "source")
           /\ "setpoint" \in saved.known => Holds(Undo(gains, switched), "setpoint")
           /\ gains = {} => /\ Holds(Undo(gains, switched), "gains")
                            /\ switched => Holds(Undo(gains, switched), "algorithm")
           /\ gains # {} => \A p \in {"back", "gains", "algorithm"} :
                                ~Holds(Undo(gains, switched), p)
<1> DEFINE first == IF gains # {} THEN <<>>
                    ELSE <<IF switched THEN "algorithm" ELSE "back", "gains">>
           ramp == If("ramp", RampOff)
           source == If("source", SourceOff)
           setpoint == If("setpoint", "setpoint" \in saved.known)
<1>1. Undo(gains, switched) = ((first \o ramp) \o source) \o setpoint
    BY Zenon DEF Undo
<1>2. /\ first \in Seq(Parts) /\ Backed(first)
      /\ gains = {} => Holds(first, "gains") /\ (switched => Holds(first, "algorithm"))
      /\ gains # {} => \A p : ~Holds(first, p)
    <2>1. CASE gains # {}
        <3>1. first = <<>>
            BY <2>1
        <3>2. <<>> \in Seq(Parts) /\ Len(<<>>) = 0
            OBVIOUS
        <3> HIDE DEF first
        <3>3. QED BY <2>1, <3>1, <3>2 DEF Backed, Holds
    <2>2. CASE gains = {} /\ switched
        <3>1. first = <<"algorithm", "gains">>
            BY <2>2
        <3> DEFINE f == <<"algorithm", "gains">>
        <3>2. f \in Seq(Parts) /\ Len(f) = 2 /\ f[1] = "algorithm" /\ f[2] = "gains"
            BY DEF Parts
        <3> HIDE DEF f
        <3>3. Backed(f) /\ Holds(f, "gains") /\ Holds(f, "algorithm")
            BY <3>2 DEF Backed, Holds
        <3>4. QED BY <2>2, <3>1, <3>2, <3>3 DEF f
    <2>3. CASE gains = {} /\ ~switched
        <3>1. first = <<"back", "gains">>
            BY <2>3
        <3> DEFINE f == <<"back", "gains">>
        <3>2. f \in Seq(Parts) /\ Len(f) = 2 /\ f[1] = "back" /\ f[2] = "gains"
            BY DEF Parts
        <3> HIDE DEF f
        <3>3. Backed(f) /\ Holds(f, "gains")
            BY <3>2 DEF Backed, Holds
        <3>4. QED BY <2>3, <3>1, <3>2, <3>3 DEF f
    <2>4. QED BY <2>1, <2>2, <2>3
<1>3. /\ ramp \in Seq(Parts) /\ \A p : Holds(ramp, p) <=> RampOff /\ p = "ramp"
      /\ source \in Seq(Parts) /\ \A p : Holds(source, p) <=> SourceOff /\ p = "source"
      /\ setpoint \in Seq(Parts)
      /\ \A p : Holds(setpoint, p) <=> "setpoint" \in saved.known /\ p = "setpoint"
    <2>1. RampOff \in BOOLEAN /\ SourceOff \in BOOLEAN /\ ("setpoint" \in saved.known) \in BOOLEAN
        BY DEF RampOff, SourceOff
    <2>2. {"ramp", "source", "setpoint"} \subseteq Parts \ {"back"}
        BY DEF Parts
    <2>3. QED BY <2>1, <2>2, IfIs
<1> HIDE DEF first, ramp, source, setpoint
<1>4. /\ first \o ramp \in Seq(Parts) /\ Backed(first \o ramp)
      /\ \A p : Holds(first \o ramp, p) <=> Holds(first, p) \/ Holds(ramp, p)
    <2>1. ~Holds(ramp, "back")
        BY <1>3
    <2>2. QED BY <1>2, <1>3, <2>1, HoldsConcat
<1>5. /\ (first \o ramp) \o source \in Seq(Parts) /\ Backed((first \o ramp) \o source)
      /\ \A p : Holds((first \o ramp) \o source, p) <=> Holds(first \o ramp, p) \/ Holds(source, p)
    <2>1. ~Holds(source, "back")
        BY <1>3
    <2>2. QED BY <1>3, <1>4, <2>1, HoldsConcat
<1>6. /\ ((first \o ramp) \o source) \o setpoint \in Seq(Parts)
      /\ Backed(((first \o ramp) \o source) \o setpoint)
      /\ \A p : Holds(((first \o ramp) \o source) \o setpoint, p)
                    <=> Holds((first \o ramp) \o source, p) \/ Holds(setpoint, p)
    <2>1. ~Holds(setpoint, "back")
        BY <1>3
    <2>2. QED BY <1>3, <1>5, <2>1, HoldsConcat
<1>7. QED BY <1>1, <1>2, <1>3, <1>4, <1>5, <1>6

\* One item is done.
LEMMA TailIs ==
    ASSUME NEW s \in Seq(Parts), s # <<>>
    PROVE  /\ Head(s) \in Parts /\ Tail(s) \in Seq(Parts)
           /\ \A p : Holds(s, p) => p = Head(s) \/ Holds(Tail(s), p)
           /\ \A p : Holds(Tail(s), p) => Holds(s, p)
           /\ Backed(s) => Backed(Tail(s))
           /\ Backed(s) /\ Head(s) = "back" => Holds(Tail(s), "gains")
           /\ Len(s) = 1 <=> Tail(s) = <<>>
<1>1. /\ Len(s) \in Nat \ {0} /\ Head(s) = s[1] /\ Head(s) \in Parts
      /\ Tail(s) \in Seq(Parts) /\ Len(Tail(s)) = Len(s) - 1
      /\ \A i \in 1..Len(s) - 1 : Tail(s)[i] = s[i + 1]
    BY HeadTailProperties, EmptySeq, LenProperties, ElementOfSeq
<1> DEFINE t == Tail(s)
           n == Len(s)
<1> HIDE DEF t, n
<1>2. /\ n \in Nat \ {0} /\ Len(t) = n - 1
      /\ \A i \in 1..(n - 1) : t[i] = s[i + 1]
    BY <1>1 DEF t, n
<1>3. ASSUME NEW i \in 1..n, i # 1 PROVE i - 1 \in 1..(n - 1) /\ t[i - 1] = s[i]
    <2>1. i - 1 \in 1..(n - 1) /\ (i - 1) + 1 = i
        BY <1>2, <1>3
    <2>2. t[i - 1] = s[(i - 1) + 1]
        BY <1>2, <2>1
    <2>3. QED BY <2>1, <2>2
<1>4. ASSUME NEW p, Holds(s, p) PROVE p = s[1] \/ Holds(t, p)
    BY <1>2, <1>3, <1>4 DEF Holds, n
<1>5. ASSUME NEW p, Holds(t, p) PROVE Holds(s, p)
    <2>1. PICK i \in 1..(n - 1) : t[i] = p
        BY <1>2, <1>5 DEF Holds
    <2>2. i + 1 \in 1..n /\ s[i + 1] = p
        BY <1>2, <2>1
    <2>3. QED BY <2>2 DEF Holds, n
<1>6. ASSUME Backed(s), NEW i \in 1..(n - 1), t[i] = "back"
      PROVE  i + 1 \in 1..(n - 1) /\ t[i + 1] = "gains"
    <2>1. i + 1 \in 1..n /\ s[i + 1] = "back"
        BY <1>2, <1>6
    <2>2. (i + 1) + 1 \in 1..n /\ s[(i + 1) + 1] = "gains"
        BY <1>6, <2>1 DEF Backed, n
    <2>3. i + 1 \in 1..(n - 1)
        BY <1>2, <2>2
    <2>4. QED BY <1>2, <2>2, <2>3
<1>7. ASSUME Backed(s), s[1] = "back" PROVE Holds(t, "gains")
    <2>1. 1 \in 1..n
        BY <1>2
    <2>2. 1 + 1 \in 1..n /\ s[1 + 1] = "gains"
        BY <1>7, <2>1 DEF Backed, n
    <2>3. 1 \in 1..(n - 1) /\ t[1] = "gains"
        BY <1>2, <2>2
    <2>4. QED BY <1>2, <2>3 DEF Holds
<1>8. Len(s) = 1 <=> Tail(s) = <<>>
    <2>1. Tail(s) = <<>> <=> Len(Tail(s)) = 0
        BY <1>1, EmptySeq
    <2>2. QED BY <1>1, <2>1
<1>9. Backed(s) => Backed(t)
    BY <1>2, <1>6 DEF Backed
<1>10. QED BY <1>1, <1>4, <1>5, <1>7, <1>8, <1>9 DEF t

-----------------------------------------------------------------------------
\* Every way out.

LEMMA LeaveIs ==
    ASSUME NEW gains, NEW switched, Leave(gains, switched), args' = args, saved' = saved
    PROVE  /\ TodoInv' /\ Leaving'
           /\ RampOff => RampOff' /\ Due("ramp")'
           /\ ~RampOff => ~RampOff'
           /\ SourceOff => SourceOff' /\ Due("source")'
           /\ ~SourceOff => ~SourceOff'
           /\ "setpoint" \in saved.known => Due("setpoint")'
           /\ gains = {} => Due("gains")' /\ (switched => Due("algorithm")')
           /\ gains # {} => ~ToDo("back")' /\ ~ToDo("gains")' /\ ~ToDo("algorithm")'
<1> DEFINE undo == Undo(gains, switched)
<1> HIDE DEF undo
<1>1. todo' = undo /\ pc' = IF undo = <<>> THEN "done" ELSE "restore"
    BY DEF Leave, undo
<1>2. /\ undo \in Seq(Parts) /\ Backed(undo)
      /\ RampOff => Holds(undo, "ramp")
      /\ SourceOff => Holds(undo, "source")
      /\ "setpoint" \in saved.known => Holds(undo, "setpoint")
      /\ gains = {} => Holds(undo, "gains") /\ (switched => Holds(undo, "algorithm"))
      /\ gains # {} => \A p \in {"back", "gains", "algorithm"} : ~Holds(undo, p)
    BY UndoIs DEF undo
<1>3. \A p : ToDo(p)' <=> Holds(undo, p)
    BY <1>1 DEF ToDo, Holds
<1>4. Backed(todo)'
    BY <1>1, <1>2 DEF Backed
<1>5. TodoInv' /\ Leaving'
    BY <1>1, <1>2, <1>4 DEF TodoInv, Leaving
<1>6. (RampOff' <=> RampOff) /\ (SourceOff' <=> SourceOff)
    BY DEF RampOff, SourceOff
<1>7. QED BY <1>2, <1>3, <1>5, <1>6 DEF Due

LEMMA LeaveKeeps ==
    ASSUME RestoreInv, Known', DevInv', NEW switched, Leave({}, switched),
           changed' => switched, args' = args, saved' = saved
    PROVE  RestoreInv'
<1>1. /\ TodoInv' /\ Leaving' /\ Due("gains")' /\ (switched => Due("algorithm")')
      /\ (RampOff' => Due("ramp")') /\ (SourceOff' => Due("source")')
      /\ "setpoint" \in saved.known => Due("setpoint")'
    BY LeaveIs
<1>2. RampDue' /\ SourceDue' /\ SetpointDue' /\ GainsDue' /\ AlgorithmDue'
    BY <1>1 DEF Known, RampDue, SourceDue, SetpointDue, GainsDue, AlgorithmDue
<1>3. StoredDue' /\ Kept'
    BY <1>1 DEF Known, StoredDue, Kept
<1>4. saved'.dev.gains = Base
    BY DEF RestoreInv
<1>5. QED BY <1>1, <1>2, <1>3, <1>4 DEF RestoreInv, AllDue

LEMMA StayKeeps ==
    ASSUME RestoreInv, Known', DevInv', ~Leaving', todo' = todo, saved' = saved
    PROVE  RestoreInv'
<1>1. TodoInv'
    BY DEF RestoreInv, TodoInv, Leaving
<1>2. saved'.dev.gains = Base
    BY DEF RestoreInv
<1>3. QED BY <1>1, <1>2 DEF RestoreInv

\* What a command of a trial, or its samples, may do to the device.
Moves == \/ dev' = dev
         \/ \E g : dev' = Written(g, FALSE)
         \/ \E v : dev' = [dev EXCEPT !.setpoint = v]

LEMMA MovesKept ==
    ASSUME RestoreInv, ~Leaving, Moves,
           UNCHANGED <<args, saved, accepted, changed, unanswered>>
    PROVE  Known' /\ DevInv'
<1>1. Known /\ DevInv /\ Device(dev)
    BY DEF RestoreInv, DevInv
<1>2. (RampOff' <=> RampOff) /\ (SourceOff' <=> SourceOff)
    BY DEF RampOff, SourceOff
<1>3. /\ Device(dev')
      /\ dev'.alg = dev.alg /\ dev'.ramp = dev.ramp /\ dev'.source = dev.source
      /\ args.modern => dev'.stored = dev.stored
    <2>1. CASE dev' = dev
        BY <1>1, <2>1
    <2>2. ASSUME NEW g, dev' = Written(g, FALSE) PROVE <1>3
        <3>1. args.modern => Written(g, FALSE).stored = dev.stored
            BY <1>1, WrittenIs, Zenon
        <3>2. QED BY <1>1, <2>2, <3>1, WrittenIs
    <2>3. ASSUME NEW v, dev' = [dev EXCEPT !.setpoint = v] PROVE <1>3
        <3>1. Except(dev', dev, "setpoint", v)
            BY <1>1, <2>3, FieldIs
        <3>2. QED BY <3>1 DEF Except
    <2>4. QED BY <2>1, <2>2, <2>3 DEF Moves
<1>4. DevInv'
    BY <1>1, <1>3 DEF DevInv
<1>5. Known'
    BY <1>1, <1>2, <1>3 DEF Known
<1>6. QED BY <1>4, <1>5

\* A step of the run before its restore: it goes on, or leaves.
LEMMA RunKeeps ==
    ASSUME RestoreInv, ~Leaving, Moves,
           UNCHANGED <<args, saved, accepted, changed, unanswered>>,
           Raise \/ (~Leaving' /\ todo' = todo)
    PROVE  RestoreInv'
<1>1. Known' /\ DevInv'
    BY MovesKept
<1>2. CASE Raise
    <2>1. Leave({}, changed)
        BY <1>2 DEF Raise, RestoreInv, Known
    <2>2. QED BY <1>1, <2>1, LeaveKeeps
<1>3. CASE ~Leaving' /\ todo' = todo
    BY <1>1, <1>3, StayKeeps
<1>4. QED BY <1>2, <1>3

-----------------------------------------------------------------------------
\* The steps of the run, one by one.

LEMMA SwitchAlgorithmKeeps == RestoreInv /\ SwitchAlgorithm => RestoreInv'
<1> SUFFICES ASSUME RestoreInv, SwitchAlgorithm PROVE RestoreInv'
    OBVIOUS
<1> DEFINE switched == [dev EXCEPT !.alg = args.want]
<1>1. /\ ~Leaving /\ Known /\ DevInv /\ Device(dev)
      /\ UNCHANGED <<args, saved, accepted>>
    BY DEF SwitchAlgorithm, RestoreInv, DevInv, Leaving, quiet, result
<1>2. Except(switched, dev, "alg", args.want)
    BY <1>1, FieldIs
<1>3. (RampOff' <=> RampOff) /\ (SourceOff' <=> SourceOff)
    BY <1>1 DEF RampOff, SourceOff
<1> HIDE DEF switched
<1>4. CASE /\ args.want \in {"keep", dev.alg}
           /\ pc' = "source"
           /\ UNCHANGED <<dev, trial, todo, changed, unanswered>>
    <2>1. Moves /\ ~Leaving' /\ todo' = todo /\ UNCHANGED <<changed, unanswered>>
        BY <1>4 DEF Moves, Leaving
    <2>2. QED BY <1>1, <2>1, RunKeeps
<1>5. CASE /\ dev' = switched /\ changed' = TRUE
           /\ (pc' = "source" /\ UNCHANGED <<trial, todo>>) \/ Leave({}, TRUE)
           /\ UNCHANGED unanswered
    <2>1. DevInv'
        BY <1>1, <1>2, <1>5 DEF DevInv, Except
    <2>2. Known'
        BY <1>1, <1>2, <1>3, <1>5 DEF Known, Except
    <2>3. CASE Leave({}, TRUE)
        BY <1>1, <1>5, <2>1, <2>2, <2>3, LeaveKeeps
    <2>4. CASE pc' = "source" /\ UNCHANGED <<trial, todo>>
        BY <1>1, <2>1, <2>2, <2>4, StayKeeps DEF Leaving
    <2>5. QED BY <1>5, <2>3, <2>4
<1>6. CASE /\ dev' \in {dev, switched}
           /\ unanswered' = unanswered \cup {"algorithm"}
           /\ Raise
           /\ UNCHANGED changed
    <2>1. DevInv'
        BY <1>1, <1>2, <1>6 DEF DevInv, Except
    <2>2. Known'
        BY <1>1, <1>2, <1>3, <1>6 DEF Known, Except
    <2>3. Leave({}, changed)
        BY <1>1, <1>6 DEF Raise, Known
    <2>4. QED BY <1>1, <1>6, <2>1, <2>2, <2>3, LeaveKeeps
<1>7. QED BY <1>4, <1>5, <1>6 DEF SwitchAlgorithm, switched

LEMMA SwitchKeeps ==
    ASSUME RestoreInv, NEW part \in {"ramp", "source"}, NEW wanted \in BOOLEAN, NEW value, NEW next,
           Switch(part, wanted, value, next), next \notin {"restore", "done"},
           wanted /\ part = "ramp" => RampOff, wanted /\ part = "source" => SourceOff
    PROVE  RestoreInv'
<1> DEFINE switched == [dev EXCEPT ![part] = value]
<1>1. /\ ~Leaving /\ Known /\ DevInv /\ Device(dev)
      /\ UNCHANGED <<args, saved, accepted, changed, unanswered>>
    BY DEF Switch, RestoreInv, DevInv, Leaving, quiet, result
<1>2. Except(switched, dev, part, value)
    BY <1>1, FieldIs
<1>3. (RampOff' <=> RampOff) /\ (SourceOff' <=> SourceOff)
    BY <1>1 DEF RampOff, SourceOff
<1>4. dev' = dev \/ (wanted /\ dev' = switched)
    BY DEF Switch
<1>5. Raise \/ (~Leaving' /\ todo' = todo)
    BY DEF Switch, Leaving
<1> HIDE DEF switched
<1>6. DevInv'
    BY <1>1, <1>2, <1>4 DEF DevInv, Except
<1>7. Known'
    BY <1>1, <1>2, <1>3, <1>4 DEF Known, Except
<1>8. CASE Raise
    <2>1. Leave({}, changed)
        BY <1>1, <1>8 DEF Raise, Known
    <2>2. QED BY <1>1, <1>6, <1>7, <2>1, LeaveKeeps
<1>9. CASE ~Leaving' /\ todo' = todo
    BY <1>1, <1>6, <1>7, <1>9, StayKeeps
<1>10. QED BY <1>5, <1>8, <1>9

\* Every other step of the run but Decide.
OnTheWay == \/ Approach \/ Apply \/ Steps \/ Recover \/ ComeHome \/ Calibrated \/ Baselined
            \/ Look \/ Tried \/ Confirmed \/ Compare \/ HoldTested \/ CtrlC

LEMMA OnTheWayIs ==
    ASSUME RestoreInv, OnTheWay
    PROVE  /\ ~Leaving /\ Moves /\ UNCHANGED <<args, saved, accepted, changed, unanswered>>
           /\ Raise \/ (~Leaving' /\ todo' = todo)
<1>1. CASE Approach
    BY <1>1 DEF Approach, quiet, result, Moves, Leaving, Begin
<1>2. CASE Apply
    BY <1>2 DEF Apply, At, GoTo, quiet, result, Moves, Leaving
<1>3. CASE Steps
    BY <1>3 DEF Steps, At, GoTo, result, Moves, Leaving
<1>4. CASE Recover
    BY <1>4 DEF Recover, At, GoTo, quiet, result, Moves, Leaving
<1>5. CASE ComeHome
    BY <1>5 DEF ComeHome, At, result, Moves, Leaving
<1>6. CASE Calibrated
    BY <1>6 DEF Calibrated, Over, At, Begin, same, result, Moves, Leaving
<1>7. CASE Baselined
    BY <1>7 DEF Baselined, Over, At, Begin, same, result, Moves, Leaving
<1>8. CASE Look
    BY <1>8 DEF Look, Confirm, Begin, same, result, Moves, Leaving
<1>9. CASE Tried
    BY <1>9 DEF Tried, Over, At, same, result, Moves, Leaving
<1>10. CASE Confirmed
    BY <1>10 DEF Confirmed, Over, At, Begin, same, result, Moves, Leaving
<1>11. CASE Compare
    BY <1>11 DEF Compare, Begin, same, Moves, Leaving
<1>12. CASE HoldTested
    BY <1>12 DEF HoldTested, Over, At, Begin, same, result, Moves, Leaving
<1>13. CASE CtrlC
    BY <1>13 DEF CtrlC, result, Moves, Leaving
<1>14. QED BY <1>1, <1>2, <1>3, <1>4, <1>5, <1>6, <1>7, <1>8, <1>9, <1>10, <1>11, <1>12, <1>13
        DEF OnTheWay

LEMMA DecideKeeps == RestoreInv /\ Decide => RestoreInv'
<1> SUFFICES ASSUME RestoreInv, Decide PROVE RestoreInv'
    OBVIOUS
<1>1. /\ ~Leaving /\ Known /\ DevInv /\ Device(dev) /\ accepted = {}
      /\ UNCHANGED <<args, saved, failed, changed>>
    BY DEF Decide, RestoreInv, DevInv, Leaving, Known
<1>2. CASE Raise /\ UNCHANGED <<dev, accepted, unanswered>>
    BY <1>1, <1>2, RunKeeps DEF Moves
<1>3. ASSUME NEW save \in BOOLEAN, NEW answered \in BOOLEAN,
             NEW g \in IF answered THEN {best} ELSE Partly(dev.gains, best),
             dev' = Written(g, save), accepted' = Taken(answered),
             unanswered' = IF save /\ ~answered THEN unanswered \cup {"save"} ELSE unanswered,
             Leave(accepted', changed)
      PROVE  RestoreInv'
    <2>1. /\ Device(dev') /\ dev'.gains = g /\ dev'.alg = dev.alg
          /\ dev'.ramp = dev.ramp /\ dev'.source = dev.source
          /\ args.modern /\ ~save => dev'.stored = dev.stored
        BY <1>1, <1>3, WrittenIs, Zenon
    <2>2. DevInv' /\ saved'.dev.gains = Base
        BY <1>1, <2>1 DEF DevInv, RestoreInv
    <2>3. /\ TodoInv' /\ Leaving'
          /\ (RampOff => Due("ramp")') /\ (SourceOff => Due("source")')
          /\ "setpoint" \in saved.known => Due("setpoint")'
          /\ accepted' = {} => Due("gains")' /\ (changed => Due("algorithm")')
          /\ accepted' # {} => ~ToDo("back")' /\ ~ToDo("gains")' /\ ~ToDo("algorithm")'
        BY <1>1, <1>3, LeaveIs
    <2>4. RampDue' /\ SourceDue' /\ SetpointDue' /\ GainsDue'
        BY <1>1, <2>1, <2>3 DEF Known, RampDue, SourceDue, SetpointDue, GainsDue
    <2>5. unanswered \subseteq unanswered' /\ (save /\ ~answered => "save" \in unanswered')
        BY <1>3
    <2>6. AlgorithmDue'
        BY <1>1, <2>1, <2>3, <2>5 DEF Known, AlgorithmDue
    <2>7. CASE answered
        <3>1. accepted' = {[alg |-> dev.alg, gains |-> best]} /\ g = best
            BY <1>3, <2>7 DEF Taken
        <3>2. accepted' # {} /\ \A a \in accepted' : dev'.gains = a.gains /\ dev'.alg = a.alg
            BY <2>1, <3>1
        <3>3. StoredDue' /\ Kept'
            BY <2>3, <3>2 DEF StoredDue, Kept
        <3>4. QED BY <2>2, <2>3, <2>4, <2>6, <3>3 DEF RestoreInv, AllDue
    <2>8. CASE ~answered
        <3>1. accepted' = {}
            BY <1>3, <2>8 DEF Taken
        <3>2. \/ dev'.stored = saved'.dev.gains \/ "save" \in unanswered' \/ ~args'.modern
            <4>1. CASE save
                BY <2>5, <2>8, <4>1
            <4>2. CASE ~save
                BY <1>1, <2>1, <4>2 DEF Known
            <4>3. QED BY <4>1, <4>2
        <3>3. StoredDue' /\ Kept'
            BY <2>3, <3>1, <3>2 DEF StoredDue, Kept
        <3>4. QED BY <2>2, <2>3, <2>4, <2>6, <3>3 DEF RestoreInv, AllDue
    <2>9. QED BY <2>7, <2>8
<1>4. QED BY <1>2, <1>3 DEF Decide

-----------------------------------------------------------------------------
\* The restore, item by item.

\* The first item is done, whatever it was; what else was due still is.
LEMMA ProceedIs ==
    ASSUME RestoreInv, pc = "restore", Proceed, cut' = cut, failed \subseteq failed'
    PROVE  /\ TodoInv' /\ Leaving'
           /\ Head(todo) \in Parts
           /\ \A p : Due(p) => p = Head(todo) \/ Due(p)'
           /\ \A p : ToDo(p)' => ToDo(p)
           /\ Head(todo) = "back" => Due("gains")'
           /\ Holds(todo, Head(todo))
<1>1. todo \in Seq(Parts) /\ todo # <<>> /\ Backed(todo)
    BY DEF RestoreInv, TodoInv, Leaving
<1>2. /\ Head(todo) \in Parts /\ Tail(todo) \in Seq(Parts)
      /\ \A p : Holds(todo, p) => p = Head(todo) \/ Holds(Tail(todo), p)
      /\ \A p : Holds(Tail(todo), p) => Holds(todo, p)
      /\ Backed(Tail(todo))
      /\ Head(todo) = "back" => Holds(Tail(todo), "gains")
      /\ Len(todo) = 1 <=> Tail(todo) = <<>>
    BY <1>1, TailIs
<1>3. todo' = Tail(todo) /\ pc' = IF Len(todo) = 1 THEN "done" ELSE "restore"
    BY DEF Proceed
<1>4. Backed(todo)' /\ \A p : ToDo(p)' <=> Holds(Tail(todo), p)
    BY <1>2, <1>3 DEF Backed, ToDo, Holds
<1>5. TodoInv' /\ Leaving'
    BY <1>2, <1>3, <1>4 DEF TodoInv, Leaving
<1>6. Holds(todo, Head(todo))
    <2>1. Len(todo) \in Nat /\ Len(todo) # 0 /\ Head(todo) = todo[1]
        BY <1>1, LenProperties, EmptySeq, HeadTailProperties
    <2>2. QED BY <2>1 DEF Holds
<1>7. QED BY <1>2, <1>4, <1>5, <1>6 DEF Due, ToDo

LEMMA RampBackKeeps == RestoreInv /\ RampBack => RestoreInv'
<1> SUFFICES ASSUME RestoreInv, RampBack PROVE RestoreInv'
    OBVIOUS
<1>1. /\ pc = "restore" /\ Head(todo) = "back" /\ Proceed /\ Leaving /\ AllDue
      /\ UNCHANGED <<args, saved, accepted, unanswered, failed, cut>>
      /\ DevInv /\ Device(dev)
    BY DEF RampBack, rest, result, Leaving, RestoreInv, DevInv
<1>2. PICK g : dev' = Written(g, FALSE)
    BY DEF RampBack, Left
<1>3. /\ Device(dev') /\ dev'.alg = dev.alg /\ dev'.ramp = dev.ramp /\ dev'.source = dev.source
      /\ dev'.setpoint = dev.setpoint
      /\ args.modern => dev'.stored = dev.stored
    BY <1>1, <1>2, WrittenIs, Zenon
<1>4. /\ TodoInv' /\ Leaving' /\ Due("gains")' /\ ToDo("back")
      /\ \A p : Due(p) => p = "back" \/ Due(p)'
      /\ \A p : ToDo(p)' => ToDo(p)
    BY <1>1, ProceedIs DEF ToDo
<1>5. DevInv' /\ saved'.dev.gains = Base
    BY <1>1, <1>3 DEF DevInv, RestoreInv
<1>6. RampDue' /\ SourceDue' /\ SetpointDue' /\ AlgorithmDue'
    BY <1>1, <1>3, <1>4 DEF AllDue, RampDue, SourceDue, SetpointDue, AlgorithmDue
<1>7. GainsDue' /\ StoredDue' /\ Kept'
    BY <1>1, <1>3, <1>4 DEF AllDue, GainsDue, StoredDue, Kept
<1>8. QED BY <1>4, <1>5, <1>6, <1>7 DEF RestoreInv, AllDue

LEMMA RestoreKeeps == RestoreInv /\ Restore => RestoreInv'
<1> SUFFICES ASSUME RestoreInv, Restore PROVE RestoreInv'
    OBVIOUS
<1> DEFINE part == Head(todo)
<1>1. /\ pc = "restore" /\ part # "back" /\ Proceed /\ Leaving /\ AllDue
      /\ UNCHANGED <<args, saved, accepted, unanswered, cut>>
      /\ DevInv /\ Device(dev) /\ saved.dev.gains = Base
      /\ failed \subseteq failed'
    BY DEF Restore, rest, result, Leaving, RestoreInv, DevInv
<1>2. /\ TodoInv' /\ Leaving' /\ part \in Parts
      /\ \A p : Due(p) => p = part \/ Due(p)'
      /\ \A p : ToDo(p)' => ToDo(p)
      /\ ToDo(part)
    BY <1>1, ProceedIs DEF ToDo
<1>3. \/ dev' = Put(part)
      \/ dev' \in Left(part) /\ part \in failed'
    BY DEF Restore
<1> HIDE DEF part
<1>4. CASE part = "gains"
    <2>1. accepted = {}
        BY <1>1, <1>2, <1>4 DEF AllDue, Kept
    <2>2. PICK g : dev' = Written(g, FALSE) /\ (g = saved.dev.gains \/ "gains" \in failed')
        <3>1. CASE dev' = Put(part)
            BY <1>4, <3>1 DEF Put
        <3>2. CASE dev' \in Left(part) /\ part \in failed'
            BY <1>4, <3>2 DEF Left
        <3>3. QED BY <1>3, <3>1, <3>2
    <2>3. /\ Device(dev') /\ dev'.alg = dev.alg /\ dev'.ramp = dev.ramp
          /\ dev'.source = dev.source /\ dev'.setpoint = dev.setpoint /\ dev'.gains = g
          /\ args.modern => dev'.stored = dev.stored
          /\ ~args.modern => dev'.stored = g
        BY <1>1, <2>2, WrittenIs, Zenon
    <2>4. DevInv' /\ saved'.dev.gains = Base
        BY <1>1, <2>3 DEF DevInv
    <2>5. RampDue' /\ SourceDue' /\ SetpointDue' /\ AlgorithmDue'
        BY <1>1, <1>2, <1>4, <2>3 DEF AllDue, RampDue, SourceDue, SetpointDue, AlgorithmDue
    <2>6. dev'.gains = saved.dev.gains \/ Due("gains")'
        BY <2>2, <2>3 DEF Due
    <2>7. GainsDue' /\ Kept'
        BY <1>1, <2>1, <2>6 DEF GainsDue, Kept
    <2>8. StoredDue'
        <3>1. CASE args.modern
            BY <1>1, <2>3, <3>1 DEF AllDue, StoredDue
        <3>2. CASE ~args.modern
            BY <1>1, <2>2, <2>3, <3>2 DEF StoredDue, Due
        <3>3. QED BY <3>1, <3>2
    <2>9. QED BY <1>2, <2>4, <2>5, <2>7, <2>8 DEF RestoreInv, AllDue
<1>5. CASE part # "gains"
    <2>1. part \in {"algorithm", "ramp", "source", "setpoint"}
        BY <1>1, <1>2, <1>5 DEF Parts
    <2> DEFINE field == IF part = "algorithm" THEN "alg" ELSE part
    <2>2. field \in {"alg", "ramp", "source", "setpoint"}
        BY <2>1
    <2>3. Put(part) = [dev EXCEPT ![field] = saved.dev[field]]
        <3>1. CASE part = "algorithm"
            BY <3>1 DEF Put
        <3>2. CASE part \in {"ramp", "source", "setpoint"}
            BY <3>2 DEF Put
        <3>3. QED BY <2>1, <3>1, <3>2
    <2> HIDE DEF field
    <2>4. Except(Put(part), dev, field, saved.dev[field])
        <3>1. Except([dev EXCEPT ![field] = saved.dev[field]], dev, field, saved.dev[field])
            BY <1>1, <2>2, FieldIs
        <3>2. QED BY <2>3, <3>1, Zenon
    <2>5. dev' = Put(part) \/ (dev' = dev /\ part \in failed')
          \/ (dev' = Put(part) /\ part \in failed')
        BY <1>1, <1>3, <1>5 DEF Left
    <2>6. /\ Device(dev')
          /\ dev'.gains = dev.gains /\ dev'.stored = dev.stored
          /\ dev'.alg = dev.alg \/ (part = "algorithm" /\ dev'.alg = saved.dev.alg)
          /\ dev'.ramp = dev.ramp \/ (part = "ramp" /\ dev'.ramp = saved.dev.ramp)
          /\ dev'.source = dev.source \/ (part = "source" /\ dev'.source = saved.dev.source)
          /\ dev'.setpoint = dev.setpoint
             \/ (part = "setpoint" /\ dev'.setpoint = saved.dev.setpoint)
        BY <1>1, <2>1, <2>4, <2>5 DEF Except, field
    <2>7. /\ part = "algorithm" => dev'.alg = saved.dev.alg \/ part \in failed'
          /\ part = "ramp" => dev'.ramp = saved.dev.ramp \/ part \in failed'
          /\ part = "source" => dev'.source = saved.dev.source \/ part \in failed'
          /\ part = "setpoint" => dev'.setpoint = saved.dev.setpoint \/ part \in failed'
        BY <2>1, <2>4, <2>5 DEF Except, field
    <2>8. DevInv' /\ saved'.dev.gains = Base
        BY <1>1, <2>6 DEF DevInv
    <2>9. RampDue'
        BY <1>1, <1>2, <2>6, <2>7 DEF AllDue, RampDue, Due
    <2>10. SourceDue'
        BY <1>1, <1>2, <2>6, <2>7 DEF AllDue, SourceDue, Due
    <2>11. SetpointDue'
        BY <1>1, <1>2, <2>6, <2>7 DEF AllDue, SetpointDue, Due
    <2>12. AlgorithmDue'
        BY <1>1, <1>2, <2>6, <2>7 DEF AllDue, AlgorithmDue, Due
    <2>13. GainsDue' /\ StoredDue'
        BY <1>1, <1>2, <1>5, <2>6 DEF AllDue, GainsDue, StoredDue
    <2>14. Kept'
        BY <1>1, <1>2, <2>6 DEF AllDue, Kept
    <2>15. QED BY <1>2, <2>8, <2>9, <2>10, <2>11, <2>12, <2>13, <2>14 DEF RestoreInv, AllDue
<1>6. QED BY <1>4, <1>5

\* What an item that fails may do to the device.
LEMMA LeftIs ==
    ASSUME RestoreInv, pc = "restore", NEW part \in Parts, ToDo(part),
           part = "back" => ToDo("gains"), dev' \in Left(part),
           UNCHANGED <<args, saved, accepted, unanswered, failed, todo>>
    PROVE  DevInv' /\ AllDue'
<1>1. /\ AllDue /\ DevInv /\ Device(dev)
      /\ part \in {"back", "gains"} => accepted = {} /\ Due("gains")
    BY DEF RestoreInv, Leaving, DevInv, AllDue, Kept, Due
<1>2. \A p : (ToDo(p)' <=> ToDo(p)) /\ (Due(p)' <=> Due(p))
    BY DEF ToDo, Due, Holds
<1>3. CASE part \in {"back", "gains"}
    <2>1. PICK g : dev' = Written(g, FALSE)
        BY <1>3 DEF Left
    <2>2. /\ Device(dev') /\ dev'.alg = dev.alg /\ dev'.ramp = dev.ramp
          /\ dev'.source = dev.source /\ dev'.setpoint = dev.setpoint
          /\ args.modern => dev'.stored = dev.stored
        BY <1>1, <2>1, WrittenIs, Zenon
    <2>3. DevInv'
        BY <1>1, <2>2 DEF DevInv
    <2>4. RampDue' /\ SourceDue' /\ SetpointDue' /\ AlgorithmDue'
        BY <1>1, <1>2, <2>2 DEF AllDue, RampDue, SourceDue, SetpointDue, AlgorithmDue
    <2>5. GainsDue' /\ StoredDue' /\ Kept'
        BY <1>1, <1>2, <1>3, <2>2 DEF AllDue, GainsDue, StoredDue, Kept
    <2>6. QED BY <2>3, <2>4, <2>5 DEF AllDue
<1>4. CASE part \notin {"back", "gains"}
    <2>1. part \in {"algorithm", "ramp", "source", "setpoint"}
        BY <1>4 DEF Parts
    <2> DEFINE field == IF part = "algorithm" THEN "alg" ELSE part
    <2>2. field \in {"alg", "ramp", "source", "setpoint"}
        BY <2>1
    <2>3. Put(part) = [dev EXCEPT ![field] = saved.dev[field]]
        <3>1. CASE part = "algorithm"
            BY <3>1 DEF Put
        <3>2. CASE part \in {"ramp", "source", "setpoint"}
            BY <3>2 DEF Put
        <3>3. QED BY <2>1, <3>1, <3>2
    <2> HIDE DEF field
    <2>4. Except(Put(part), dev, field, saved.dev[field])
        <3>1. Except([dev EXCEPT ![field] = saved.dev[field]], dev, field, saved.dev[field])
            BY <1>1, <2>2, FieldIs
        <3>2. QED BY <2>3, <3>1, Zenon
    <2>5. dev' = Put(part) \/ dev' = dev
        BY <1>4 DEF Left
    <2>6. /\ Device(dev')
          /\ dev'.gains = dev.gains /\ dev'.stored = dev.stored
          /\ dev'.alg = dev.alg \/ (dev'.alg = saved.dev.alg /\ part = "algorithm")
          /\ dev'.ramp = dev.ramp \/ dev'.ramp = saved.dev.ramp
          /\ dev'.source = dev.source \/ dev'.source = saved.dev.source
          /\ dev'.setpoint = dev.setpoint \/ dev'.setpoint = saved.dev.setpoint
        BY <1>1, <2>1, <2>4, <2>5 DEF Except, field
    <2>7. DevInv'
        BY <1>1, <2>6 DEF DevInv
    <2>8. RampDue' /\ SourceDue' /\ SetpointDue'
        BY <1>1, <1>2, <2>6 DEF AllDue, RampDue, SourceDue, SetpointDue
    <2>9. AlgorithmDue' /\ GainsDue' /\ StoredDue'
        BY <1>1, <1>2, <2>6 DEF AllDue, AlgorithmDue, GainsDue, StoredDue
    <2>10. Kept'
        BY <1>1, <1>2, <2>6 DEF AllDue, Kept
    <2>11. QED BY <2>7, <2>8, <2>9, <2>10 DEF AllDue
<1>5. QED BY <1>3, <1>4

LEMMA AbandonKeeps ==
    ASSUME RestoreInv, NEW how \in {"ctrl-c", "error"}, Abandon(how)
    PROVE  RestoreInv'
<1>1. /\ pc = "restore" /\ pc' = "done" /\ cut' = how /\ dev' \in Left(Head(todo))
      /\ UNCHANGED <<args, saved, accepted, unanswered, failed, todo>>
      /\ todo \in Seq(Parts) /\ todo # <<>> /\ Backed(todo)
    BY DEF Abandon, rest, result, RestoreInv, TodoInv, Leaving
<1>2. Len(todo) \in Nat \ {0} /\ Head(todo) = todo[1] /\ Head(todo) \in Parts
    BY <1>1, LenProperties, EmptySeq, HeadTailProperties
<1>3. /\ ToDo(Head(todo))
      /\ Head(todo) = "back" => ToDo("gains")
    BY <1>1, <1>2 DEF ToDo, Holds, Backed
<1>4. DevInv' /\ AllDue'
    BY <1>1, <1>2, <1>3, LeftIs
<1>5. TodoInv' /\ Leaving'
    BY <1>1 DEF TodoInv, Leaving, Backed
<1>6. saved'.dev.gains = Base
    BY <1>1 DEF RestoreInv
<1>7. QED BY <1>4, <1>5, <1>6 DEF RestoreInv

-----------------------------------------------------------------------------
LEMMA RestoreInit == Init => RestoreInv
<1> SUFFICES ASSUME Init PROVE RestoreInv
    OBVIOUS
<1>1. PICK alg \in Algorithms, ramp \in BOOLEAN, source \in {"S", "U"},
            known \in SUBSET {"ramp", "source", "setpoint"} :
        /\ dev = [alg |-> alg, gains |-> Base, stored |-> Base, ramp |-> ramp,
                  source |-> source, setpoint |-> "own"]
        /\ saved = [dev |-> dev, known |-> known]
    BY DEF Init
<1>2. saved.dev = dev /\ dev.gains = Base /\ dev.stored = Base /\ Device(dev)
    BY <1>1 DEF Device
<1>3. DevInv /\ Known /\ ~Leaving
    BY <1>2 DEF DevInv, Known, Leaving, Init
<1>4. TodoInv
    BY <1>3 DEF TodoInv, Leaving, Init
<1>5. QED BY <1>2, <1>3, <1>4 DEF RestoreInv

LEMMA RestoreStep == RestoreInv /\ [Next]_vars => RestoreInv'
<1> SUFFICES ASSUME RestoreInv, [Next]_vars PROVE RestoreInv'
    OBVIOUS
<1>1. CASE SwitchAlgorithm
    BY <1>1, SwitchAlgorithmKeeps
<1>2. CASE SwitchSource
    <2>1. Switch("source", SourceOff, "U", "ramp") /\ SourceOff \in BOOLEAN
        BY <1>2 DEF SwitchSource, SourceOff
    <2>2. QED BY <2>1, SwitchKeeps
<1>3. CASE SwitchRamp
    <2>1. Switch("ramp", RampOff, FALSE, "approach") /\ RampOff \in BOOLEAN
        BY <1>3 DEF SwitchRamp, RampOff
    <2>2. "approach" \notin {"restore", "done"} /\ "ramp" # "source"
        OBVIOUS
    <2>3. QED BY <2>1, <2>2, SwitchKeeps
<1>4. CASE OnTheWay
    BY <1>4, OnTheWayIs, RunKeeps
<1>5. CASE Decide
    BY <1>5, DecideKeeps
<1>6. CASE RampBack
    BY <1>6, RampBackKeeps
<1>7. CASE Restore
    BY <1>7, RestoreKeeps
<1>8. CASE CutShort \/ Escapes
    BY <1>8, AbandonKeeps DEF CutShort, Escapes
<1>9. CASE UNCHANGED vars
    <2>1. UNCHANGED <<args, saved, dev, pc, accepted, todo, failed, cut, changed, unanswered>>
        BY <1>9 DEF vars
    <2>2. QED BY <2>1 DEF RestoreInv, DevInv, TodoInv, Leaving, Backed, Known, RampOff, SourceOff,
                          AllDue, RampDue, SourceDue, SetpointDue, GainsDue, AlgorithmDue,
                          StoredDue, Kept, Due, ToDo, Holds
<1>10. QED BY <1>1, <1>2, <1>3, <1>4, <1>5, <1>6, <1>7, <1>8, <1>9 DEF Next, OnTheWay

\* Only an unaccepted run on a device with LCA meets an unknown algorithm code.
CutInv ==
    /\ cut \in {"no", "ctrl-c", "error"}
    /\ ~Leaving => cut = "no"
    /\ cut = "error" => args.modern /\ accepted = {}

LEMMA CutStep == RestoreInv /\ CutInv /\ [Next]_vars => CutInv'
<1> SUFFICES ASSUME RestoreInv, CutInv, [Next]_vars PROVE CutInv'
    OBVIOUS
<1>1. CASE OnTheWay
    <2>1. ~Leaving /\ UNCHANGED <<args, accepted>>
        BY <1>1, OnTheWayIs
    <2>2. CASE Approach \/ Apply \/ Steps \/ Recover \/ ComeHome
        <3>1. cut' = cut
            BY <2>2 DEF Approach, Apply, Steps, Recover, ComeHome, quiet
        <3>2. QED BY <2>1, <3>1 DEF CutInv
    <2>3. CASE Calibrated \/ Baselined \/ Look \/ Tried \/ Confirmed \/ Compare \/ HoldTested
        <3>1. UNCHANGED same
            BY <2>3, Zenon DEF Calibrated, Baselined, Look, Tried, Confirmed, Compare, HoldTested
        <3>2. QED BY <2>1, <3>1 DEF CutInv, same
    <2>4. CASE CtrlC
        BY <2>1, <2>4 DEF CutInv, CtrlC
    <2>5. QED BY <1>1, <2>2, <2>3, <2>4 DEF OnTheWay
<1>2. CASE SwitchAlgorithm \/ SwitchSource \/ SwitchRamp
    <2>1. UNCHANGED <<cut, args, accepted>> /\ ~Leaving
        BY <1>2 DEF SwitchAlgorithm, SwitchSource, SwitchRamp, Switch, quiet, result, Leaving
    <2>2. QED BY <2>1 DEF CutInv
<1>3. CASE Decide
    BY <1>3 DEF CutInv, Decide, Leaving
<1>4. CASE RampBack \/ Restore
    <2>1. UNCHANGED <<cut, args, accepted>> /\ Leaving'
        BY <1>4 DEF RampBack, Restore, Proceed, rest, result, Leaving
    <2>2. QED BY <2>1 DEF CutInv
<1>5. CASE CutShort
    BY <1>5 DEF CutInv, CutShort, Abandon, rest, result, Leaving
<1>6. CASE Escapes
    <2>1. /\ pc = "restore" /\ pc' = "done" /\ cut' = "error" /\ args.modern
          /\ UNCHANGED <<args, accepted>> /\ Head(todo) \in {"back", "algorithm", "gains"}
        BY <1>6 DEF Escapes, Abandon, rest, result
    <2>2. todo \in Seq(Parts) /\ todo # <<>> /\ Kept
        BY <2>1 DEF RestoreInv, TodoInv, Leaving, AllDue
    <2>3. Len(todo) \in Nat \ {0} /\ Head(todo) = todo[1]
        BY <2>2, LenProperties, EmptySeq, HeadTailProperties
    <2>4. ToDo(Head(todo))
        BY <2>3 DEF ToDo, Holds
    <2>5. accepted = {}
        BY <2>1, <2>2, <2>4 DEF Kept
    <2>6. QED BY <2>1, <2>5 DEF CutInv, Leaving
<1>7. CASE UNCHANGED vars
    BY <1>7 DEF vars, CutInv, Leaving
<1>8. QED BY <1>1, <1>2, <1>3, <1>4, <1>5, <1>6, <1>7 DEF Next, OnTheWay

\* The restore is over: what is left to do was left when it was cut.
LEMMA RestoreIsEnough == RestoreInv /\ CutInv => Restored
<1> SUFFICES ASSUME RestoreInv, CutInv, pc = "done" PROVE Restored
    BY DEF Restored
<1>1. AllDue /\ todo \in Seq(Parts) /\ (cut = "no" => todo = <<>>)
    BY DEF RestoreInv, TodoInv, Leaving
<1>2. \A p : Due(p) <=> p \in failed \cup ToSet(todo)
    <2>1. DOMAIN todo = 1..Len(todo)
        BY <1>1
    <2>2. QED BY <2>1 DEF Due, ToDo, Holds, ToSet
<1>3. todo # <<>> => cut = "ctrl-c" \/ (cut = "error" /\ args.modern /\ accepted = {})
    BY <1>1 DEF CutInv
<1> DEFINE missing == failed \cup ToSet(todo)
<1>4. \A p : Due(p) <=> p \in missing
    BY <1>2
<1> HIDE DEF missing
<1>5. /\ dev.ramp = saved.dev.ramp \/ "ramp" \in missing
      /\ dev.source = saved.dev.source \/ "source" \in missing
      /\ \/ dev.setpoint = saved.dev.setpoint \/ "setpoint" \in missing
         \/ "setpoint" \notin saved.known
    BY <1>1, <1>4 DEF AllDue, RampDue, SourceDue, SetpointDue
<1>6. accepted = {} =>
        /\ dev.gains = saved.dev.gains \/ "gains" \in missing
        /\ dev.alg = saved.dev.alg \/ "algorithm" \in missing \cup unanswered
        /\ dev.stored = saved.dev.gains \/ "gains" \in missing \/ "save" \in unanswered
    BY <1>1, <1>4 DEF AllDue, GainsDue, AlgorithmDue, StoredDue
<1>7. \A a \in accepted : dev.gains = a.gains /\ dev.alg = a.alg
    BY <1>1 DEF AllDue, Kept
<1>8. QED BY <1>3, <1>5, <1>6, <1>7 DEF Restored, missing

\* However a run of cmd_tune ends, what it could read and then changed on the device is
\* back or was reported by restore_after_tune, unless the tuned gains were accepted;
\* for any gains, guards, failures and stops.
THEOREM LoopIsRestored == Spec => []Restored
<1>1. Init => RestoreInv /\ CutInv
    BY RestoreInit DEF Init, CutInv, Leaving
<1>2. RestoreInv /\ CutInv /\ [Next]_vars => (RestoreInv /\ CutInv)'
    BY RestoreStep, CutStep
<1>3. RestoreInv /\ CutInv => Restored
    BY RestoreIsEnough
<1>4. QED BY <1>1, <1>2, <1>3, PTL DEF Spec

-----------------------------------------------------------------------------
\* Costs.

LEMMA Times ==
    ASSUME NEW a \in Nat, NEW b \in Nat, NEW c \in Nat, a <= b
    PROVE  a * c \in Nat /\ b * c \in Nat /\ a * c <= b * c
OBVIOUS

\* Gains whose trials were all aborted are never the better ones.
LEMMA AbortedIsNotBelow ==
    ASSUME NEW runs, Fair(runs), NEW m, FairMean(m), Below(Mean(runs), m)
    PROVE  runs.completed > 0
<1> SUFFICES ASSUME runs.completed = 0 PROVE FALSE
    BY DEF Fair
<1> DEFINE n == runs.aborted
           x == m[1]
           y == m[2]
<1>1. n \in Nat /\ x \in Nat /\ y \in Nat /\ Unstable \in Nat /\ Margin \in 0..99
      /\ x <= Unstable * y
    BY AutotuneAssumption DEF Fair, FairMean, AutotuneAssumption
<1>2. runs.cost = 0
    <2>1. Unstable * 0 = 0
        BY <1>1
    <2>2. QED BY <2>1 DEF Fair
<1>3. Mean(runs)[1] = Unstable * n /\ Mean(runs)[2] = n
    BY <1>1, <1>2 DEF Mean
<1>4. 100 * (Unstable * n) * y < (100 - Margin) * x * n
    BY <1>3 DEF Below
<1> HIDE DEF n, x, y
<1> DEFINE u == Unstable * y
<1>5. u \in Nat
    BY <1>1
<1>6. x * n \in Nat /\ u * n \in Nat /\ x * n <= u * n
    BY <1>1, <1>5, Times DEF u
<1>7. (100 - Margin) * (x * n) <= 100 * (x * n)
    <2> DEFINE k == x * n
    <2> HIDE DEF k
    <2>1. (100 - Margin) \in Nat /\ (100 - Margin) <= 100 /\ 100 \in Nat
        BY <1>1
    <2>2. k \in Nat
        BY <1>6 DEF k
    <2>3. (100 - Margin) * k <= 100 * k
        BY <2>1, <2>2, Times
    <2>4. QED BY <2>3 DEF k
<1>8. (100 - Margin) * x * n = (100 - Margin) * (x * n)
    BY <1>1
<1>9. 100 * (Unstable * n) * y = 100 * (u * n)
    BY <1>1 DEF u
<1> HIDE DEF u
<1> DEFINE k == x * n
           l == u * n
<1> HIDE DEF k, l
<1>10. k \in Nat /\ l \in Nat /\ k <= l /\ 100 * l < (100 - Margin) * k
       /\ (100 - Margin) * k <= 100 * k
    BY <1>4, <1>6, <1>7, <1>8, <1>9 DEF k, l
<1>11. (100 - Margin) * k \in Int
    BY <1>1, <1>10
<1>12. QED BY <1>10, <1>11

LEMMA MeanIsFair ==
    ASSUME NEW runs, Fair(runs)
    PROVE  FairMean(Mean(runs))
<1> DEFINE c == runs.cost
           n == runs.completed
           k == runs.aborted
<1>1. c \in Nat /\ n \in Nat /\ k \in Nat /\ Unstable \in Nat /\ c <= Unstable * n
    BY AutotuneAssumption DEF Fair, AutotuneAssumption
<1>2. Mean(runs) = <<c + Unstable * k, n + k>>
    BY DEF Mean
<1> HIDE DEF c, n, k
<1>3. /\ Unstable * k \in Nat /\ Unstable * n \in Nat
      /\ Unstable * (n + k) = Unstable * n + Unstable * k
    BY <1>1
<1>4. c + Unstable * k \in Nat /\ n + k \in Nat /\ c + Unstable * k <= Unstable * (n + k)
    BY <1>1, <1>3
<1>5. QED BY <1>2, <1>4 DEF FairMean

LEMMA PlusIsFair ==
    ASSUME NEW runs, Fair(runs), NEW cost \in Nat, cost <= Unstable
    PROVE  /\ Fair(Plus(runs, cost))
           /\ Plus(runs, cost).completed > 0 => runs.completed > 0 \/ cost # Unstable
<1> DEFINE c == runs.cost
           n == runs.completed
           k == runs.aborted
<1>1. c \in Nat /\ n \in Nat /\ k \in Nat /\ Unstable \in Nat /\ c <= Unstable * n
      /\ runs = [cost |-> c, completed |-> n, aborted |-> k]
    BY AutotuneAssumption DEF Fair, AutotuneAssumption
<1> HIDE DEF c, n, k
<1>2. CASE cost = Unstable
    <2>1. Plus(runs, cost) = [cost |-> c, completed |-> n, aborted |-> k + 1]
        BY <1>1, <1>2 DEF Plus
    <2>2. QED BY <1>1, <2>1 DEF Fair
<1>3. CASE cost # Unstable
    <2>1. Plus(runs, cost) = [cost |-> c + cost, completed |-> n + 1, aborted |-> k]
        BY <1>1, <1>3 DEF Plus
    <2>2. Unstable * (n + 1) = Unstable * n + Unstable /\ Unstable * n \in Nat
        BY <1>1
    <2>3. c + cost \in Nat /\ n + 1 \in Nat /\ c + cost <= Unstable * (n + 1)
        BY <1>1, <2>2
    <2>4. QED BY <1>1, <1>3, <2>1, <2>3 DEF Fair
<1>4. QED BY <1>2, <1>3

\* A trial is recorded.
LEMMA WithRunIs ==
    ASSUME CacheInv, NEW g, NEW cost \in Nat, cost <= Unstable,
           cache' = WithRun(g, cost), clean \subseteq clean', cost = Unstable \/ g \in clean'
    PROVE  CacheInv' /\ DOMAIN cache' = DOMAIN cache \cup {g}
<1> DEFINE old == IF g \in DOMAIN cache THEN cache[g] ELSE NoRuns
<1>1. Fair(NoRuns) /\ NoRuns.completed = 0
    BY AutotuneAssumption DEF Fair, NoRuns, AutotuneAssumption
<1>2. Fair(old) /\ (old.completed > 0 => g \in clean)
    BY <1>1 DEF CacheInv
<1>3. /\ DOMAIN cache' = DOMAIN cache \cup {g}
      /\ \A h \in DOMAIN cache' : cache'[h] = IF h # g THEN cache[h] ELSE Plus(old, cost)
    BY DEF WithRun
<1> HIDE DEF old
<1>4. Fair(Plus(old, cost)) /\ (Plus(old, cost).completed > 0 => g \in clean')
    BY <1>2, PlusIsFair
<1>5. ASSUME NEW h \in DOMAIN cache'
      PROVE  Fair(cache'[h]) /\ (cache'[h].completed > 0 => h \in clean')
    <2>1. CASE h = g
        BY <1>3, <1>4, <2>1
    <2>2. CASE h # g
        BY <1>3, <2>2 DEF CacheInv
    <2>3. QED BY <2>1, <2>2
<1>6. QED BY <1>3, <1>5 DEF CacheInv

-----------------------------------------------------------------------------
\* The search.

\* No field but x, best, cost and dirs is said anything about.
LEMMA SearchIs ==
    ASSUME NEW s, Search(s), NEW v
    PROVE  /\ Search([s EXCEPT !.dirs = v])
           /\ [s EXCEPT !.dirs = v].best = s.best /\ [s EXCEPT !.dirs = v].cost = s.cost
           /\ Search([s EXCEPT !.cost = v])
           /\ [s EXCEPT !.cost = v].best = s.best /\ [s EXCEPT !.cost = v].cost = v
           /\ Search([s EXCEPT !.noise = v])
           /\ [s EXCEPT !.noise = v].best = s.best /\ [s EXCEPT !.noise = v].cost = s.cost
<1>1. PICK x, b, c, st, d, l, k, u, n :
        s = [x |-> x, best |-> b, cost |-> c, step |-> st, dirs |-> d, last |-> l,
             streak |-> k, used |-> u, noise |-> n]
    BY DEF Search
<1>2. [s EXCEPT !.dirs = v] = [x |-> x, best |-> b, cost |-> c, step |-> st, dirs |-> v, last |-> l,
                               streak |-> k, used |-> u, noise |-> n]
    BY <1>1
<1>3. [s EXCEPT !.cost = v] = [x |-> x, best |-> b, cost |-> v, step |-> st, dirs |-> d, last |-> l,
                               streak |-> k, used |-> u, noise |-> n]
    BY <1>1
<1>4. [s EXCEPT !.noise = v] = [x |-> x, best |-> b, cost |-> c, step |-> st, dirs |-> d,
                                last |-> l, streak |-> k, used |-> u, noise |-> v]
    BY <1>1
<1>5. QED BY <1>1, <1>2, <1>3, <1>4 DEF Search

LEMMA HalvedIs ==
    ASSUME NEW s, Search(s)
    PROVE  Search(Halved(s)) /\ Halved(s).best = s.best /\ Halved(s).cost = s.cost
<1>1. PICK x, b, c, st, d, l, k, u, n :
        s = [x |-> x, best |-> b, cost |-> c, step |-> st, dirs |-> d, last |-> l,
             streak |-> k, used |-> u, noise |-> n]
    BY DEF Search
<1>2. Halved(s) = [x |-> x, best |-> b, cost |-> c, step |-> st \div 2, dirs |-> <<>>, last |-> l,
                   streak |-> 0, used |-> u, noise |-> n]
    <2> DEFINE half == s.step \div 2
    <2>1. Halved(s) = [s EXCEPT !.step = half, !.streak = 0, !.dirs = <<>>]
        BY Zenon DEF Halved
    <2>2. half = st \div 2
        BY <1>1
    <2> HIDE DEF half
    <2>3. QED BY <1>1, <2>1, <2>2
<1>3. QED BY <1>1, <1>2 DEF Search

LEMMA UsedIs ==
    ASSUME NEW s, Search(s), NEW v
    PROVE  /\ Search([s EXCEPT !.used = v])
           /\ [s EXCEPT !.used = v].best = s.best /\ [s EXCEPT !.used = v].cost = s.cost
           /\ Moved([s EXCEPT !.used = v]) = Moved(s)
<1>1. PICK x, b, c, st, d, l, k, u, n :
        s = [x |-> x, best |-> b, cost |-> c, step |-> st, dirs |-> d, last |-> l,
             streak |-> k, used |-> u, noise |-> n]
    BY DEF Search
<1>2. [s EXCEPT !.used = v] = [x |-> x, best |-> b, cost |-> c, step |-> st, dirs |-> d, last |-> l,
                               streak |-> k, used |-> v, noise |-> n]
    BY <1>1
<1> DEFINE t == [s EXCEPT !.used = v]
<1>3. t.x = s.x /\ t.dirs = s.dirs /\ t.step = s.step /\ t.best = s.best /\ t.cost = s.cost
      /\ Search(t)
    BY <1>1, <1>2 DEF Search
<1> HIDE DEF t
<1>4. Moved(t) = Moved(s)
    BY <1>3, Zenon DEF Moved
<1>5. QED BY <1>3, <1>4 DEF t

LEMMA NewRoundIs ==
    ASSUME NEW s, Search(s)
    PROVE  Search(NewRound(s)) /\ NewRound(s).best = s.best /\ NewRound(s).cost = s.cost
BY SearchIs DEF NewRound

\* A direction is taken when its cost is the better one, or it is passed over.
LEMMA JudgedIs ==
    ASSUME NEW s, Search(s), NEW cost
    PROVE  /\ Search(Judged(s, cost))
           /\ \/ /\ Below(cost, s.cost)
                 /\ Judged(s, cost).best = ToGains(Moved(s)) /\ Judged(s, cost).cost = cost
              \/ Judged(s, cost).best = s.best /\ Judged(s, cost).cost = s.cost
<1>1. CASE Improves(cost, s.cost)
    <2> DEFINE streak == IF s.last = s.dirs[1] THEN s.streak + 1 ELSE 1
               step == IF streak < 2 THEN s.step ELSE IF 2 * s.step > StepMax THEN StepMax
                       ELSE 2 * s.step
               move == Moved(s)
               gains == ToGains(Moved(s))
               first == s.dirs[1]
               t == [s EXCEPT !.x = move, !.best = gains, !.cost = cost,
                              !.streak = streak, !.last = first, !.step = step]
    <2>1. PICK x, b, c, st, d, l, k, u, n :
            s = [x |-> x, best |-> b, cost |-> c, step |-> st, dirs |-> d, last |-> l,
                 streak |-> k, used |-> u, noise |-> n]
        BY DEF Search
    <2>2. Judged(s, cost) = NewRound(t)
        BY <1>1, <2>1, Zenon DEF Judged
    <2> HIDE DEF move, gains, first, streak, step
    <2>3. t = [x |-> move, best |-> gains, cost |-> cost, step |-> step, dirs |-> d, last |-> first,
               streak |-> streak, used |-> u, noise |-> n]
        <3> DEFINE t1 == [s EXCEPT !.x = move]
                   t2 == [t1 EXCEPT !.best = gains]
                   t3 == [t2 EXCEPT !.cost = cost]
                   t4 == [t3 EXCEPT !.streak = streak]
                   t5 == [t4 EXCEPT !.last = first]
                   t6 == [t5 EXCEPT !.step = step]
        <3>1. t = t6
            OBVIOUS
        <3> HIDE DEF t, t1, t2, t3, t4, t5, t6
        <3>2. t1 = [x |-> move, best |-> b, cost |-> c, step |-> st, dirs |-> d,
                   last |-> l, streak |-> k, used |-> u, noise |-> n]
            BY <2>1 DEF t1
        <3>3. t2 = [x |-> move, best |-> gains, cost |-> c, step |-> st, dirs |-> d,
                   last |-> l, streak |-> k, used |-> u, noise |-> n]
            BY <3>2 DEF t2
        <3>4. t3 = [x |-> move, best |-> gains, cost |-> cost, step |-> st, dirs |-> d,
                   last |-> l, streak |-> k, used |-> u, noise |-> n]
            BY <3>3 DEF t3
        <3>5. t4 = [x |-> move, best |-> gains, cost |-> cost, step |-> st, dirs |-> d,
                   last |-> l, streak |-> streak, used |-> u, noise |-> n]
            BY <3>4 DEF t4
        <3>6. t5 = [x |-> move, best |-> gains, cost |-> cost, step |-> st, dirs |-> d,
                   last |-> first, streak |-> streak, used |-> u, noise |-> n]
            BY <3>5 DEF t5
        <3>7. t6 = [x |-> move, best |-> gains, cost |-> cost, step |-> step, dirs |-> d,
                   last |-> first, streak |-> streak, used |-> u, noise |-> n]
            BY <3>6 DEF t6
        <3>8. QED BY <3>1, <3>7
    <2>4. Search(t) /\ t.best = gains /\ t.cost = cost
        BY <2>3 DEF Search
    <2>5. Below(cost, s.cost)
        BY <1>1 DEF Improves
    <2> HIDE DEF t
    <2>6. QED BY <2>2, <2>4, <2>5, NewRoundIs DEF gains
<1>2. CASE ~Improves(cost, s.cost)
    <2>1. Judged(s, cost) = [s EXCEPT !.dirs = Tail(s.dirs)]
        BY <1>2, Zenon DEF Judged
    <2> DEFINE v == Tail(s.dirs)
    <2> HIDE DEF v
    <2>2. /\ Search([s EXCEPT !.dirs = v])
          /\ [s EXCEPT !.dirs = v].best = s.best /\ [s EXCEPT !.dirs = v].cost = s.cost
        BY SearchIs
    <2>3. QED BY <2>1, <2>2 DEF v
<1>3. QED BY <1>1, <1>2

-----------------------------------------------------------------------------
\* The ways a step ends.

Results == CacheInv /\ SearchInv /\ ChosenInv

LEMMA SameResults ==
    ASSUME ProvenInv, UNCHANGED <<cache, clean, search, lastGood, best, accepted>>
    PROVE  Results'
<1>1. CacheInv'
    BY DEF ProvenInv, CacheInv
<1>2. SearchInv'
    BY DEF ProvenInv, SearchInv, Found
<1>3. ChosenInv'
    BY DEF ProvenInv, ChosenInv
<1>4. QED BY <1>1, <1>2, <1>3 DEF Results

\* The run leaves, or an item of the restore is done.
LEMMA LeftProven ==
    ASSUME Leaving', Results'
    PROVE  ProvenInv'
BY DEF Leaving, Results, ProvenInv, EarlyInv, Early, BaselineInv, Searching, TrialInv

LEMMA LeaveProven ==
    ASSUME NEW gains, NEW switched, Leave(gains, switched), Results'
    PROVE  ProvenInv'
<1>1. Leaving'
    BY DEF Leave, Leaving
<1>2. QED BY <1>1, LeftProven

\* A trial is begun.
LEMMA BeginProven ==
    ASSUME NEW gains, NEW label, NEW count, Begin(gains, label, count), Results',
           label \in {"calibrate", "baseline"} => gains = Base /\ search'.best = Base,
           label = "search" => gains = ToGains(Moved(search)) /\ search' = search,
           label \notin {"calibrate", "baseline"} => Base \in clean' /\ Base \in DOMAIN cache'
    PROVE  ProvenInv'
<1>1. /\ pc' = "trial"
      /\ trial' = [gains |-> gains, label |-> label, count |-> count, at |-> "apply", cost |-> 0]
    BY DEF Begin, Trial
<1>2. Run(trial)' /\ trial'.label = label /\ trial'.at = "apply" /\ trial'.gains = gains
    BY <1>1 DEF Run
<1>3. EarlyInv' /\ BaselineInv'
    BY <1>1, <1>2 DEF EarlyInv, Early, BaselineInv, Searching
<1>4. TrialInv'
    <2>1. trial'.label = "search" => trial'.gains = ToGains(Moved(search'))
        BY <1>2, Zenon
    <2>2. QED BY <1>1, <1>2, <2>1 DEF TrialInv
<1>5. QED BY <1>3, <1>4 DEF Results, ProvenInv

\* The trials are over for now.
LEMMA OnProven ==
    ASSUME pc' \in {"search", "compare", "decide"}, Results',
           Base \in clean', Base \in DOMAIN cache'
    PROVE  ProvenInv'
BY DEF Results, ProvenInv, EarlyInv, Early, BaselineInv, TrialInv

\* A trial goes on.
LEMMA GoOnProven ==
    ASSUME ProvenInv, pc = "trial", pc' = "trial", Run(trial)', UNCHANGED search, Results',
           trial'.gains = trial.gains, trial'.label = trial.label,
           clean \subseteq clean', DOMAIN cache \subseteq DOMAIN cache',
           trial'.at = "home" => dev'.gains = lastGood',
           trial'.at = "over" => /\ trial'.cost \in Nat /\ trial'.cost <= Unstable
                                 /\ ~Held' => /\ trial'.gains \in DOMAIN cache'
                                              /\ trial'.cost = Unstable \/ trial'.gains \in clean'
    PROVE  ProvenInv'
<1>1. EarlyInv' /\ BaselineInv'
    BY DEF ProvenInv, EarlyInv, Early, BaselineInv, Searching
<1>2. trial.label = "search" => trial'.gains = ToGains(Moved(search))
    BY DEF ProvenInv, TrialInv
<1>3. trial'.label = "search" => trial'.gains = ToGains(Moved(search'))
    BY <1>2, Zenon
<1>4. TrialInv'
    BY <1>3 DEF ProvenInv, TrialInv
<1>5. QED BY <1>1, <1>4 DEF Results, ProvenInv

LEMMA RunIs ==
    ASSUME NEW t, Run(t), NEW v
    PROVE  /\ Run([t EXCEPT !.at = v]) /\ [t EXCEPT !.at = v].at = v
           /\ [t EXCEPT !.at = v].gains = t.gains /\ [t EXCEPT !.at = v].label = t.label
           /\ [t EXCEPT !.at = v].count = t.count
<1>1. PICK g, l, c, a, k : t = [gains |-> g, label |-> l, count |-> c, at |-> a, cost |-> k]
    BY DEF Run
<1>2. [t EXCEPT !.at = v] = [gains |-> g, label |-> l, count |-> c, at |-> v, cost |-> k]
    BY <1>1
<1>3. QED BY <1>1, <1>2 DEF Run

\* A trial is over, at some cost.
LEMMA OverIs ==
    ASSUME Run(trial), NEW cost, trial' = [trial EXCEPT !.at = "over", !.cost = cost]
    PROVE  /\ Run(trial)' /\ trial'.at = "over" /\ trial'.cost = cost
           /\ trial'.gains = trial.gains /\ trial'.label = trial.label
           /\ trial'.count = trial.count
<1>1. PICK g, l, c, a, k : trial = [gains |-> g, label |-> l, count |-> c, at |-> a, cost |-> k]
    BY DEF Run
<1> DEFINE t == [trial EXCEPT !.at = "over"]
<1>2. t = [gains |-> g, label |-> l, count |-> c, at |-> "over", cost |-> k]
    BY <1>1
<1>3. trial' = [t EXCEPT !.cost = cost]
    OBVIOUS
<1> HIDE DEF t
<1>4. trial' = [gains |-> g, label |-> l, count |-> c, at |-> "over", cost |-> cost]
    BY <1>2, <1>3
<1>5. QED BY <1>1, <1>4 DEF Run

-----------------------------------------------------------------------------
\* The steps, one by one.

\* A trial's step, when it leaves or goes on to an await that is not its end.
LEMMA TrialGoesOn ==
    ASSUME ProvenInv, pc = "trial", UNCHANGED <<cache, clean, search, lastGood, best, accepted>>,
           NEW await, await # "over", await = "home" => dev'.gains = lastGood,
           Raise \/ GoTo(await)
    PROVE  ProvenInv'
<1>1. Results'
    BY SameResults
<1>2. CASE Raise
    BY <1>1, <1>2, LeaveProven DEF Raise
<1>3. CASE GoTo(await)
    <2>1. /\ pc' = "trial" /\ Run(trial)' /\ trial'.at = await
          /\ trial'.gains = trial.gains /\ trial'.label = trial.label
        BY <1>3, RunIs DEF GoTo, ProvenInv, TrialInv
    <2>2. QED BY <1>1, <2>1, GoOnProven
<1>4. QED BY <1>2, <1>3

LEMMA EarlyProven ==
    ASSUME ProvenInv, SwitchAlgorithm \/ SwitchSource \/ SwitchRamp \/ Approach
    PROVE  ProvenInv'
<1>1. /\ Early /\ search.best = Base /\ search' = search
      /\ UNCHANGED <<cache, clean, search, lastGood, best, accepted>>
    BY DEF SwitchAlgorithm, SwitchSource, SwitchRamp, Switch, Approach, quiet, runner, result,
           Early, ProvenInv, EarlyInv
<1>2. Results'
    BY <1>1, SameResults
<1>3. \/ Early'
      \/ \E g, w : Leave(g, w)
      \/ \E label \in {"calibrate", "baseline"} : Begin(Base, label, 1)
    BY DEF SwitchAlgorithm, SwitchSource, SwitchRamp, Switch, Approach, Early, Raise
<1>4. CASE Early'
    BY <1>1, <1>2, <1>4 DEF Early, Results, ProvenInv, EarlyInv, BaselineInv, Searching, TrialInv
<1>5. CASE \E g, w : Leave(g, w)
    BY <1>2, <1>5, LeaveProven
<1>6. ASSUME NEW label \in {"calibrate", "baseline"}, Begin(Base, label, 1) PROVE ProvenInv'
    BY <1>1, <1>2, <1>6, BeginProven
<1>7. QED BY <1>3, <1>4, <1>5, <1>6

LEMMA ApplyProven == ProvenInv /\ Apply => ProvenInv'
<1> SUFFICES ASSUME ProvenInv, Apply PROVE ProvenInv'
    OBVIOUS
<1>1. pc = "trial" /\ UNCHANGED <<cache, clean, search, lastGood, best, accepted>>
    BY DEF Apply, At, quiet, runner, result
<1>2. Raise \/ GoTo("steps") \/ GoTo("recover")
    BY DEF Apply
<1>3. CASE Raise \/ GoTo("steps")
    BY <1>1, <1>3, TrialGoesOn
<1>4. CASE GoTo("recover")
    BY <1>1, <1>4, TrialGoesOn
<1>5. QED BY <1>2, <1>3, <1>4

LEMMA StepsProven == ProvenInv /\ Steps => ProvenInv'
<1> SUFFICES ASSUME ProvenInv, Steps PROVE ProvenInv'
    OBVIOUS
<1>1. pc = "trial" /\ Run(trial) /\ UNCHANGED <<search, best, accepted>>
    BY DEF Steps, At, result, ProvenInv, TrialInv
<1>2. CASE (Raise \/ GoTo("recover")) /\ UNCHANGED runner
    BY <1>1, <1>2, TrialGoesOn DEF runner
<1>3. ASSUME NEW cost \in Costs, Completes(cost), pc' = pc PROVE ProvenInv'
    <2>1. cost \in Nat /\ cost < Unstable /\ cost # Unstable
        BY AutotuneAssumption DEF AutotuneAssumption
    <2>2. /\ Run(trial)' /\ trial'.at = "over" /\ trial'.cost = cost
          /\ trial'.gains = trial.gains /\ trial'.label = trial.label
        BY <1>1, <1>3, OverIs DEF Completes
    <2>3. Held' <=> Held
        BY <2>2 DEF Held
    <2>4. CASE Held
        <3>1. UNCHANGED <<cache, lastGood, clean>>
            BY <1>3, <2>4 DEF Completes
        <3>2. Results'
            BY <1>1, <3>1, SameResults
        <3>3. /\ pc' = "trial" /\ clean \subseteq clean' /\ DOMAIN cache \subseteq DOMAIN cache'
              /\ trial'.at # "home" /\ trial'.cost \in Nat /\ trial'.cost <= Unstable /\ Held'
            BY <1>1, <1>3, <2>1, <2>2, <2>3, <2>4, <3>1, AutotuneAssumption DEF AutotuneAssumption
        <3>4. QED BY <1>1, <2>2, <3>2, <3>3, GoOnProven
    <2>5. CASE ~Held
        <3>1. /\ cache' = WithRun(trial.gains, cost) /\ lastGood' = trial.gains
              /\ clean' = clean \cup {trial.gains}
            BY <1>3, <2>1, <2>5 DEF Completes
        <3>2. clean \subseteq clean' /\ trial.gains \in clean' /\ cost <= Unstable
            BY <2>1, <3>1, AutotuneAssumption DEF AutotuneAssumption
        <3>3. CacheInv' /\ DOMAIN cache' = DOMAIN cache \cup {trial.gains}
            BY <2>1, <3>1, <3>2, WithRunIs DEF ProvenInv
        <3>4. SearchInv' /\ ChosenInv'
            BY <1>1, <3>1, <3>3 DEF ProvenInv, SearchInv, Found, ChosenInv
        <3>5. /\ pc' = "trial" /\ DOMAIN cache \subseteq DOMAIN cache' /\ trial'.at # "home"
              /\ trial'.cost \in Nat /\ trial'.cost <= Unstable
              /\ trial'.gains \in DOMAIN cache' /\ trial'.gains \in clean'
            BY <1>1, <1>3, <2>1, <2>2, <3>2, <3>3
        <3>6. Results'
            BY <3>3, <3>4 DEF Results
        <3>7. QED BY <1>1, <2>2, <3>2, <3>5, <3>6, GoOnProven
    <2>6. QED BY <2>4, <2>5
<1>4. QED BY <1>2, <1>3 DEF Steps

LEMMA RecoverProven == RestoreInv /\ ProvenInv /\ Recover => ProvenInv'
<1> SUFFICES ASSUME RestoreInv, ProvenInv, Recover PROVE ProvenInv'
    OBVIOUS
<1>1. pc = "trial" /\ UNCHANGED <<cache, clean, search, lastGood, best, accepted>>
    BY DEF Recover, At, quiet, runner, result
<1>2. CASE Raise
    <2>1. "steps" # "over" /\ "steps" # "home"
        OBVIOUS
    <2>2. QED BY <1>1, <1>2, <2>1, TrialGoesOn
<1>3. CASE dev' = Written(lastGood, FALSE) /\ GoTo("home")
    <2>1. dev'.gains = lastGood
        BY <1>3, WrittenIs, Zenon DEF RestoreInv, DevInv
    <2>2. QED BY <1>1, <1>3, <2>1, TrialGoesOn
<1>4. QED BY <1>2, <1>3 DEF Recover

LEMMA ComeHomeProven == ProvenInv /\ ComeHome => ProvenInv'
<1> SUFFICES ASSUME ProvenInv, ComeHome PROVE ProvenInv'
    OBVIOUS
<1>1. pc = "trial" /\ Run(trial) /\ UNCHANGED <<search, best, accepted, lastGood, clean>>
    BY DEF ComeHome, At, result, ProvenInv, TrialInv
<1>2. CASE Raise /\ UNCHANGED cache
    <2>1. Results'
        BY <1>1, <1>2, SameResults
    <2>2. QED BY <1>2, <2>1, LeaveProven DEF Raise
<1>3. CASE /\ trial' = [trial EXCEPT !.at = "over", !.cost = AbortCost]
           /\ cache' = WithRun(trial.gains, AbortCost)
           /\ UNCHANGED <<pc, todo>>
    <2>1. AbortCost \in Nat /\ AbortCost <= Unstable /\ AbortCost = Unstable
        BY AutotuneAssumption DEF AutotuneAssumption, AbortCost
    <2>2. /\ Run(trial)' /\ trial'.at = "over" /\ trial'.cost = AbortCost
          /\ trial'.gains = trial.gains /\ trial'.label = trial.label
        BY <1>1, <1>3, OverIs
    <2>3. CacheInv' /\ DOMAIN cache' = DOMAIN cache \cup {trial.gains}
        BY <1>1, <1>3, <2>1, WithRunIs DEF ProvenInv
    <2>4. SearchInv' /\ ChosenInv'
        BY <1>1, <2>3 DEF ProvenInv, SearchInv, Found, ChosenInv
    <2>5. QED BY <1>1, <1>3, <2>1, <2>2, <2>3, <2>4, GoOnProven DEF Results
<1>4. QED BY <1>2, <1>3 DEF ComeHome

\* The labels of the trials after the baseline.
Later == {"search", "recheck", "confirm-base", "confirm-best", "hold-base", "hold-best"}

\* A trial is over and cmd_tune goes on.
LEMMA OverTrial ==
    ASSUME ProvenInv, NEW labels, Over(labels)
    PROVE  /\ pc = "trial" /\ trial.at = "over" /\ trial.label \in labels
           /\ CacheInv /\ SearchInv /\ ChosenInv
           /\ trial.label \in {"calibrate", "baseline"} => trial.gains = Base /\ search.best = Base
           /\ trial.label = "search" => trial.gains = ToGains(Moved(search))
           /\ trial.cost \in Nat /\ trial.cost <= Unstable
           /\ ~Held => /\ trial.gains \in DOMAIN cache
                       /\ trial.cost = Unstable \/ trial.gains \in clean
           /\ trial.label \in Later => Base \in clean /\ Base \in DOMAIN cache
BY DEF Over, At, ProvenInv, TrialInv, BaselineInv, Searching, Later

LEMMA CalibratedProven == ProvenInv /\ Calibrated => ProvenInv'
<1> SUFFICES ASSUME ProvenInv, Calibrated PROVE ProvenInv'
    OBVIOUS
<1>1. /\ search.best = Base /\ UNCHANGED <<clean, search, lastGood, best, accepted>>
    BY OverTrial DEF Calibrated, same, result
<1>2. CASE Raise /\ UNCHANGED cache
    <2>1. Results'
        BY <1>1, <1>2, SameResults
    <2>2. QED BY <1>2, <2>1, LeaveProven DEF Raise
<1>3. CASE Begin(Base, "baseline", 1) /\ cache' = <<>>
    <2>1. CacheInv'
        BY <1>3 DEF CacheInv
    <2>2. SearchInv' /\ ChosenInv'
        BY <1>1 DEF ProvenInv, SearchInv, Found, ChosenInv
    <2>3. Results'
        BY <2>1, <2>2 DEF Results
    <2>4. QED BY <1>1, <1>3, <2>3, BeginProven
<1>4. QED BY <1>2, <1>3 DEF Calibrated

LEMMA BaselinedProven == ProvenInv /\ Baselined => ProvenInv'
<1> SUFFICES ASSUME ProvenInv, Baselined PROVE ProvenInv'
    OBVIOUS
<1> DEFINE runs == [cache[Base] EXCEPT !.aborted = 0]
<1>1. /\ search.best = Base /\ UNCHANGED <<clean, lastGood, best, accepted>>
      /\ Base \in DOMAIN cache /\ CacheInv /\ SearchInv /\ ChosenInv
    <2>1. trial.label = "baseline"
        BY DEF Baselined, Over
    <2>2. ~Held
        BY <2>1 DEF Held
    <2>3. QED BY <2>1, <2>2, OverTrial DEF Baselined, same, result
<1>2. /\ Fair(runs) /\ runs.completed = cache[Base].completed
      /\ runs.completed > 0 => Base \in clean
    <2>1. PICK c, n, k : /\ cache[Base] = [cost |-> c, completed |-> n, aborted |-> k]
                         /\ c \in Nat /\ n \in Nat /\ c <= Unstable * n
                         /\ n > 0 => Base \in clean
        BY <1>1 DEF CacheInv, Fair
    <2>2. runs = [cost |-> c, completed |-> n, aborted |-> 0]
        BY <2>1
    <2>3. QED BY <2>1, <2>2 DEF Fair
<1> HIDE DEF runs
<1>3. CASE Begin(Base, "baseline", trial.count + 1) /\ UNCHANGED <<cache, search>>
    <2>1. Results'
        BY <1>1, <1>3, SameResults
    <2>2. QED BY <1>1, <1>3, <2>1, BeginProven
<1>4. ASSUME cache' = [cache EXCEPT ![Base] = runs]
      PROVE  CacheInv' /\ DOMAIN cache' = DOMAIN cache
    BY <1>1, <1>2, <1>4 DEF CacheInv
<1>5. CASE cache' = [cache EXCEPT ![Base] = runs] /\ Raise /\ UNCHANGED search
    <2>1. SearchInv' /\ ChosenInv'
        BY <1>1, <1>5 DEF SearchInv, Found, ChosenInv
    <2>2. Results'
        BY <1>4, <1>5, <2>1 DEF Results
    <2>3. QED BY <1>5, <2>2, LeaveProven DEF Raise
<1>6. ASSUME cache' = [cache EXCEPT ![Base] = runs], runs.completed # 0, pc' = "search",
             NEW noise,
             search' = NewRound([search EXCEPT !.cost = Mean(runs), !.noise = noise])
      PROVE  ProvenInv'
    <2> DEFINE mean == Mean(runs)
               s == [search EXCEPT !.cost = mean]
               t == [s EXCEPT !.noise = noise]
    <2>1. FairMean(mean)
        BY <1>2, MeanIsFair
    <2>2. search' = NewRound(t)
        BY <1>6
    <2> HIDE DEF mean
    <2>3. Search(s) /\ s.best = Base /\ s.cost = mean
        <3>1. Search(search) /\ search.best = Base
            BY <1>1 DEF SearchInv
        <3>2. QED BY <3>1, SearchIs
    <2> HIDE DEF s
    <2>4. Search(t) /\ t.best = Base /\ t.cost = mean
        BY <2>3, SearchIs
    <2> HIDE DEF t
    <2>5. SearchInv'
        BY <2>1, <2>2, <2>4, NewRoundIs DEF SearchInv, Found
    <2>6. runs.completed > 0
        BY <1>2, <1>6 DEF Fair
    <2>7. ChosenInv'
        BY <1>1 DEF ChosenInv
    <2>8. Base \in clean' /\ Base \in DOMAIN cache'
        BY <1>1, <1>2, <1>4, <1>6, <2>6
    <2>9. QED BY <1>4, <1>6, <2>5, <2>7, <2>8, OnProven DEF Results
<1>7. QED BY <1>3, <1>5, <1>6 DEF Baselined, runs

\* A candidate whose mean is the better one has completed a trial.
LEMMA JudgedProven ==
    ASSUME CacheInv, NEW s, Search(s), FairMean(s.cost), Found(s),
           NEW cost, FairMean(cost),
           Below(cost, s.cost) => /\ ToGains(Moved(s)) \in clean
                                  /\ ToGains(Moved(s)) \in DOMAIN cache
    PROVE  /\ Search(Judged(s, cost)) /\ FairMean(Judged(s, cost).cost)
           /\ Found(Judged(s, cost))
BY JudgedIs DEF Found

\* Trials that were looked up in the cache.
LEMMA CachedIsProven ==
    ASSUME CacheInv, NEW g \in DOMAIN cache, NEW m, FairMean(m)
    PROVE  FairMean(Mean(cache[g])) /\ (Below(Mean(cache[g]), m) => g \in clean)
BY MeanIsFair, AbortedIsNotBelow DEF CacheInv

LEMMA LookProven == ProvenInv /\ Look => ProvenInv'
<1> SUFFICES ASSUME ProvenInv, Look PROVE ProvenInv'
    OBVIOUS
<1>1. /\ pc = "search" /\ UNCHANGED <<cache, clean, lastGood, best, accepted>>
      /\ Base \in clean /\ Base \in DOMAIN cache
      /\ CacheInv /\ SearchInv /\ ChosenInv
      /\ Search(search) /\ FairMean(search.cost) /\ Found(search)
    BY DEF Look, same, result, ProvenInv, SearchInv, BaselineInv, Searching
<1>2. CacheInv' /\ ChosenInv' /\ Base \in clean' /\ Base \in DOMAIN cache'
    BY <1>1 DEF CacheInv, ChosenInv
<1>3. ASSUME Search(search'), FairMean(search'.cost), Found(search')
      PROVE  Results'
    BY <1>1, <1>2, <1>3 DEF Results, SearchInv, Found
<1>4. CASE Confirm(search) /\ UNCHANGED search
    <2>1. Results'
        BY <1>1, <1>3, <1>4
    <2>2. CASE Begin(Base, "confirm-base", 1)
        BY <1>2, <2>1, <2>2, BeginProven
    <2>3. CASE pc' = "compare"
        BY <1>2, <2>1, <2>3, OnProven
    <2>4. QED BY <1>4, <2>2, <2>3 DEF Confirm
<1>5. CASE search' = [search EXCEPT !.dirs = Tail(@)] /\ UNCHANGED <<pc, trial, todo>>
    <2> DEFINE v == Tail(search.dirs)
    <2>1. search' = [search EXCEPT !.dirs = v]
        BY <1>5
    <2> HIDE DEF v
    <2>2. Search(search') /\ FairMean(search'.cost) /\ Found(search')
        BY <1>1, <2>1, SearchIs DEF Found
    <2>3. QED BY <1>1, <1>2, <1>3, <1>5, <2>2, OnProven
<1>6. ASSUME NEW g \in DOMAIN cache, g = ToGains(Moved(search)),
             search' = Judged(search, Mean(cache[g])), UNCHANGED <<pc, trial, todo>>
      PROVE  ProvenInv'
    <2> DEFINE m == Mean(cache[g])
    <2>1. FairMean(m) /\ (Below(m, search.cost) => g \in clean)
        BY <1>1, CachedIsProven
    <2>2. search' = Judged(search, m)
        BY <1>6
    <2> HIDE DEF m
    <2>3. Below(m, search.cost) => /\ ToGains(Moved(search)) \in clean
                                   /\ ToGains(Moved(search)) \in DOMAIN cache
        BY <1>6, <2>1
    <2>4. Search(search') /\ FairMean(search'.cost) /\ Found(search')
        BY <1>1, <2>1, <2>2, <2>3, JudgedProven
    <2>5. QED BY <1>1, <1>2, <1>3, <1>6, <2>4, OnProven
<1>7. ASSUME Begin(ToGains(Moved(search)), "search", 1), UNCHANGED search
      PROVE  ProvenInv'
    <2>1. Results'
        BY <1>1, <1>3, <1>7
    <2>2. QED BY <1>2, <1>7, <2>1, BeginProven
<1>8. CASE search' = Halved(search) /\ Begin(search.best, "recheck", 1)
    <2>1. Search(search') /\ FairMean(search'.cost) /\ Found(search')
        BY <1>1, <1>8, HalvedIs DEF Found
    <2>2. QED BY <1>2, <1>3, <1>8, <2>1, BeginProven
<1>9. CASE search' = NewRound(Halved(search)) /\ UNCHANGED <<pc, trial, todo>>
    <2> DEFINE h == Halved(search)
    <2>1. Search(h) /\ h.best = search.best /\ h.cost = search.cost
        BY <1>1, HalvedIs
    <2>2. search' = NewRound(h)
        BY <1>9
    <2> HIDE DEF h
    <2>3. Search(search') /\ FairMean(search'.cost) /\ Found(search')
        BY <1>1, <2>1, <2>2, NewRoundIs DEF Found
    <2>4. QED BY <1>1, <1>2, <1>3, <1>9, <2>3, OnProven
<1>10. QED BY <1>4, <1>5, <1>6, <1>7, <1>8, <1>9 DEF Look

LEMMA TriedProven == ProvenInv /\ Tried => ProvenInv'
<1> SUFFICES ASSUME ProvenInv, Tried PROVE ProvenInv'
    OBVIOUS
<1>1. /\ trial.label \in {"search", "recheck"}
      /\ UNCHANGED <<cache, clean, lastGood, best, accepted>> /\ pc' = "search"
      /\ Base \in clean /\ Base \in DOMAIN cache
      /\ CacheInv /\ SearchInv /\ ChosenInv
      /\ Search(search) /\ FairMean(search.cost) /\ Found(search)
      /\ trial.label = "search" => trial.gains = ToGains(Moved(search))
      /\ trial.cost \in Nat /\ trial.cost <= Unstable
      /\ trial.gains \in DOMAIN cache
      /\ trial.cost = Unstable \/ trial.gains \in clean
    <2>1. trial.label \in {"search", "recheck"}
        BY OverTrial DEF Tried
    <2>2. ~Held /\ trial.label \in Later
        BY <2>1 DEF Held, Later
    <2>3. QED BY <2>1, <2>2, OverTrial DEF Tried, same, result, SearchInv
<1>2. CacheInv' /\ ChosenInv' /\ Base \in clean' /\ Base \in DOMAIN cache'
    BY <1>1 DEF CacheInv, ChosenInv
<1> DEFINE used == search.used + 1
           s == [search EXCEPT !.used = used]
<1>3. search' = IF trial.label = "search" THEN Judged(s, <<trial.cost, 1>>)
                ELSE NewRound([s EXCEPT !.cost = Mean(cache[s.best])])
    BY DEF Tried
<1> HIDE DEF used
<1>4. Search(s) /\ s.best = search.best /\ s.cost = search.cost /\ Moved(s) = Moved(search)
    BY <1>1, UsedIs
<1> HIDE DEF s
<1>5. FairMean(s.cost) /\ Found(s)
    BY <1>1, <1>4 DEF Found
<1>6. CASE trial.label = "search"
    <2> DEFINE m == <<trial.cost, 1>>
               runs == [cost |-> 0, completed |-> 0, aborted |-> 1]
    <2>1. FairMean(m)
        BY <1>1, AutotuneAssumption DEF FairMean, AutotuneAssumption
    <2>2. trial.cost = Unstable => m = Mean(runs) /\ Fair(runs) /\ runs.completed = 0
        BY AutotuneAssumption DEF Mean, Fair, AutotuneAssumption
    <2>3. search' = Judged(s, m)
        BY <1>3, <1>6
    <2> HIDE DEF m, runs
    <2>4. Below(m, s.cost) => trial.cost # Unstable
        BY <1>5, <2>2, AbortedIsNotBelow
    <2>5. ToGains(Moved(s)) = trial.gains
        BY <1>1, <1>4, <1>6
    <2>6. Below(m, s.cost) => /\ ToGains(Moved(s)) \in clean
                              /\ ToGains(Moved(s)) \in DOMAIN cache
        BY <1>1, <2>4, <2>5
    <2>7. Search(search') /\ FairMean(search'.cost) /\ Found(search')
        BY <1>1, <1>4, <1>5, <2>1, <2>3, <2>6, JudgedProven
    <2>8. SearchInv'
        BY <1>1, <2>7 DEF SearchInv, Found
    <2>9. QED BY <1>1, <1>2, <2>8, OnProven DEF Results
<1>7. CASE trial.label # "search"
    <2> DEFINE m == Mean(cache[s.best])
               t == [s EXCEPT !.cost = m]
    <2>1. search' = NewRound(t)
        BY <1>3, <1>7
    <2>2. s.best \in DOMAIN cache
        BY <1>1, <1>5 DEF Found
    <2>3. FairMean(m)
        BY <1>1, <2>2, CachedIsProven
    <2> HIDE DEF m
    <2>4. Search(t) /\ t.best = s.best /\ t.cost = m
        BY <1>4, SearchIs
    <2> HIDE DEF t
    <2>5. Search(search') /\ FairMean(search'.cost) /\ Found(search')
        BY <1>5, <2>1, <2>3, <2>4, NewRoundIs DEF Found
    <2>6. SearchInv'
        BY <1>1, <2>5 DEF SearchInv, Found
    <2>7. QED BY <1>1, <1>2, <2>6, OnProven DEF Results
<1>8. QED BY <1>6, <1>7

LEMMA ConfirmedProven == ProvenInv /\ Confirmed => ProvenInv'
<1> SUFFICES ASSUME ProvenInv, Confirmed PROVE ProvenInv'
    OBVIOUS
<1>1. /\ UNCHANGED <<cache, clean, search, lastGood, best, accepted>>
      /\ Base \in clean' /\ Base \in DOMAIN cache'
    <2>1. trial.label \in Later
        BY OverTrial DEF Confirmed, Later
    <2>2. QED BY <2>1, OverTrial DEF Confirmed, same, result
<1>2. Results'
    BY <1>1, SameResults
<1>3. \/ Begin(search.best, "confirm-best", trial.count)
      \/ Begin(Base, "confirm-base", trial.count + 1)
      \/ pc' = "compare"
    BY DEF Confirmed
<1>4. CASE Begin(search.best, "confirm-best", trial.count)
    BY <1>1, <1>2, <1>4, BeginProven
<1>5. CASE Begin(Base, "confirm-base", trial.count + 1)
    BY <1>1, <1>2, <1>5, BeginProven
<1>6. CASE pc' = "compare"
    BY <1>1, <1>2, <1>6, OnProven
<1>7. QED BY <1>3, <1>4, <1>5, <1>6

LEMMA CompareProven == ProvenInv /\ Compare => ProvenInv'
<1> SUFFICES ASSUME ProvenInv, Compare PROVE ProvenInv'
    OBVIOUS
<1>1. /\ UNCHANGED <<cache, clean, search, lastGood, accepted>>
      /\ Base \in clean' /\ Base \in DOMAIN cache'
    BY DEF Compare, same, ProvenInv, BaselineInv, Searching
<1>2. best' \in {Base, search.best}
    BY DEF Compare
<1>3. CacheInv' /\ SearchInv'
    BY <1>1 DEF ProvenInv, CacheInv, SearchInv, Found
<1>4. ChosenInv'
    BY <1>1, <1>2 DEF ProvenInv, SearchInv, Found, ChosenInv
<1>5. Results'
    BY <1>3, <1>4 DEF Results
<1>6. CASE Begin(Base, "hold-base", 1)
    BY <1>1, <1>5, <1>6, BeginProven
<1>7. CASE pc' = "decide"
    BY <1>1, <1>5, <1>7, OnProven
<1>8. QED BY <1>6, <1>7 DEF Compare

LEMMA HoldTestedProven == ProvenInv /\ HoldTested => ProvenInv'
<1> SUFFICES ASSUME ProvenInv, HoldTested PROVE ProvenInv'
    OBVIOUS
<1>1. /\ UNCHANGED <<cache, clean, search, lastGood, best, accepted>>
      /\ Base \in clean' /\ Base \in DOMAIN cache'
    <2>1. trial.label \in Later
        BY OverTrial DEF HoldTested, Later
    <2>2. QED BY <2>1, OverTrial DEF HoldTested, same, result
<1>2. Results'
    BY <1>1, SameResults
<1>3. CASE Begin(best, "hold-best", 1)
    BY <1>1, <1>2, <1>3, BeginProven
<1>4. CASE pc' = "decide"
    BY <1>1, <1>2, <1>4, OnProven
<1>5. QED BY <1>3, <1>4 DEF HoldTested

LEMMA DecideProven == ProvenInv /\ Decide => ProvenInv'
<1> SUFFICES ASSUME ProvenInv, Decide PROVE ProvenInv'
    OBVIOUS
<1>1. UNCHANGED <<cache, clean, search, lastGood, best>> /\ Base \in clean
    BY DEF Decide, runner, ProvenInv, BaselineInv, Searching
<1>2. accepted' \in {accepted, {}, {[alg |-> dev.alg, gains |-> best]}}
    BY DEF Decide, Taken
<1>3. CacheInv' /\ SearchInv'
    BY <1>1 DEF ProvenInv, CacheInv, SearchInv, Found
<1>4. ChosenInv'
    <2>1. \A a \in accepted' : a.gains \in clean
        BY <1>1, <1>2 DEF ProvenInv, ChosenInv
    <2>2. QED BY <1>1, <2>1 DEF ProvenInv, ChosenInv
<1>5. \E g, w : Leave(g, w)
    BY DEF Decide, Raise
<1>6. QED BY <1>3, <1>4, <1>5, LeaveProven DEF Results

LEMMA RestProven ==
    ASSUME ProvenInv, RampBack \/ Restore \/ CutShort \/ Escapes \/ CtrlC \/ UNCHANGED vars
    PROVE  ProvenInv'
<1>1. UNCHANGED <<cache, clean, search, lastGood, best, accepted>>
    BY DEF RampBack, Restore, CutShort, Escapes, Abandon, CtrlC, vars, rest, runner, result
<1>2. Results'
    BY <1>1, SameResults
<1>3. CASE RampBack \/ Restore \/ CutShort \/ Escapes
    <2>1. Leaving'
        BY <1>3 DEF RampBack, Restore, CutShort, Escapes, Abandon, Proceed, Leaving
    <2>2. QED BY <1>2, <2>1, LeftProven
<1>4. CASE CtrlC /\ Raise
    BY <1>2, <1>4, LeaveProven DEF Raise
<1>5. CASE UNCHANGED <<pc, trial, dev>>
    BY <1>1, <1>2, <1>5 DEF Results, ProvenInv, EarlyInv, Early, BaselineInv, Searching, TrialInv,
                            Run, Held
<1>6. QED BY <1>3, <1>4, <1>5 DEF CtrlC, vars

-----------------------------------------------------------------------------
LEMMA ProvenInit == Init => ProvenInv
<1> SUFFICES ASSUME Init PROVE ProvenInv
    OBVIOUS
<1>1. CacheInv
    BY DEF Init, CacheInv
<1>2. SearchInv
    BY AutotuneAssumption DEF Init, SearchInv, Search, FairMean, Found, AutotuneAssumption
<1>3. ChosenInv /\ EarlyInv /\ BaselineInv /\ TrialInv
    BY DEF Init, ChosenInv, EarlyInv, Early, BaselineInv, Searching, TrialInv
<1>4. QED BY <1>1, <1>2, <1>3 DEF ProvenInv

LEMMA ProvenStep == RestoreInv /\ ProvenInv /\ [Next]_vars => ProvenInv'
<1> SUFFICES ASSUME RestoreInv, ProvenInv, [Next]_vars PROVE ProvenInv'
    OBVIOUS
<1>1. CASE SwitchAlgorithm \/ SwitchSource \/ SwitchRamp \/ Approach
    BY <1>1, EarlyProven
<1>2. CASE Apply
    BY <1>2, ApplyProven
<1>3. CASE Steps
    BY <1>3, StepsProven
<1>4. CASE Recover
    BY <1>4, RecoverProven
<1>5. CASE ComeHome
    BY <1>5, ComeHomeProven
<1>6. CASE Calibrated
    BY <1>6, CalibratedProven
<1>7. CASE Baselined
    BY <1>7, BaselinedProven
<1>8. CASE Look
    BY <1>8, LookProven
<1>9. CASE Tried
    BY <1>9, TriedProven
<1>10. CASE Confirmed
    BY <1>10, ConfirmedProven
<1>11. CASE Compare
    BY <1>11, CompareProven
<1>12. CASE HoldTested
    BY <1>12, HoldTestedProven
<1>13. CASE Decide
    BY <1>13, DecideProven
<1>14. CASE RampBack \/ Restore \/ CutShort \/ Escapes \/ CtrlC \/ UNCHANGED vars
    BY <1>14, RestProven
<1>15. QED BY <1>1, <1>2, <1>3, <1>4, <1>5, <1>6, <1>7, <1>8, <1>9, <1>10, <1>11, <1>12, <1>13,
              <1>14 DEF Next

\* recover goes home, and cmd_tune ends, on gains that completed a trial or that the
\* device came with: however many trials are averaged and whatever they cost, an aborted
\* one never makes its gains the better ones.
THEOREM GainsAreProven == Spec => []OnlyProven
<1>1. Init => RestoreInv /\ ProvenInv
    BY RestoreInit, ProvenInit
<1>2. RestoreInv /\ ProvenInv /\ [Next]_vars => (RestoreInv /\ ProvenInv)'
    BY RestoreStep, ProvenStep
<1>3. ProvenInv => OnlyProven
    BY DEF ProvenInv, TrialInv, ChosenInv, OnlyProven, At
<1>4. QED BY <1>1, <1>2, <1>3, PTL DEF Spec

-----------------------------------------------------------------------------
\* How often gains were tried.

LEMMA TriesIs ==
    ASSUME NEW runs, Fair(runs)
    PROVE  Mean(runs)[2] = runs.completed + runs.aborted /\ Mean(runs)[2] \in Nat
BY DEF Fair, Mean

LEMMA PlusTries ==
    ASSUME NEW runs, Fair(runs), NEW cost \in Nat, cost <= Unstable
    PROVE  Mean(Plus(runs, cost))[2] = Mean(runs)[2] + 1
<1> DEFINE c == runs.cost
           n == runs.completed
           k == runs.aborted
<1>1. n \in Nat /\ k \in Nat /\ runs = [cost |-> c, completed |-> n, aborted |-> k]
    BY DEF Fair
<1>2. Mean(runs)[2] = n + k
    BY TriesIs
<1>3. Mean(Plus(runs, cost))[2] = Plus(runs, cost).completed + Plus(runs, cost).aborted
    BY PlusIsFair, TriesIs
<1> HIDE DEF c, n, k
<1>4. CASE cost = Unstable
    <2>1. Plus(runs, cost) = [cost |-> c, completed |-> n, aborted |-> k + 1]
        BY <1>1, <1>4 DEF Plus
    <2>2. QED BY <1>1, <1>2, <1>3, <2>1
<1>5. CASE cost # Unstable
    <2>1. Plus(runs, cost) = [cost |-> c + cost, completed |-> n + 1, aborted |-> k]
        BY <1>1, <1>5 DEF Plus
    <2>2. QED BY <1>1, <1>2, <1>3, <2>1
<1>6. QED BY <1>4, <1>5

\* A trial that is recorded is one more, and takes none away.
LEMMA WithRunTries ==
    ASSUME CacheInv, NEW g, NEW cost \in Nat, cost <= Unstable, cache' = WithRun(g, cost)
    PROVE  /\ DOMAIN cache' = DOMAIN cache \cup {g}
           /\ \A h \in DOMAIN cache : /\ Tries(h) \in Nat /\ Mean(cache'[h])[2] \in Nat
                                      /\ Mean(cache'[h])[2] >= Tries(h)
           /\ Mean(cache'[g])[2] \in Nat /\ Mean(cache'[g])[2] >= 1
           /\ g \in DOMAIN cache => Mean(cache'[g])[2] > Tries(g)
<1> DEFINE old == IF g \in DOMAIN cache THEN cache[g] ELSE NoRuns
<1>1. /\ DOMAIN cache' = DOMAIN cache \cup {g}
      /\ \A h \in DOMAIN cache' : cache'[h] = IF h # g THEN cache[h] ELSE Plus(old, cost)
    BY DEF WithRun
<1>2. Fair(old)
    BY AutotuneAssumption DEF CacheInv, Fair, NoRuns, AutotuneAssumption
<1>3. g \in DOMAIN cache => old = cache[g]
    OBVIOUS
<1> HIDE DEF old
<1>4. Mean(Plus(old, cost))[2] = Mean(old)[2] + 1 /\ Mean(old)[2] \in Nat
    BY <1>2, PlusTries, TriesIs
<1>5. ASSUME NEW h \in DOMAIN cache
      PROVE  /\ Tries(h) \in Nat /\ Mean(cache'[h])[2] \in Nat
             /\ Mean(cache'[h])[2] >= Tries(h)
    <2>1. Tries(h) \in Nat
        BY TriesIs DEF CacheInv, Tries
    <2>2. CASE h # g
        BY <1>1, <2>1, <2>2 DEF Tries
    <2>3. CASE h = g
        BY <1>1, <1>3, <1>4, <2>1, <2>3 DEF Tries
    <2>4. QED BY <2>1, <2>2, <2>3
<1>6. cache'[g] = Plus(old, cost)
    BY <1>1
<1>7. QED BY <1>1, <1>3, <1>4, <1>5, <1>6 DEF Tries

-----------------------------------------------------------------------------
\* The ways a step ends, for the confirmation.

\* Nothing is accepted before the restore.
LEMMA LeftConfirmed ==
    ASSUME RestoreInv, ~Leaving, Leaving', UNCHANGED accepted
    PROVE  ConfirmInv'
<1>1. accepted' = {}
    BY DEF RestoreInv, Known
<1>2. QED BY <1>1 DEF Leaving, ConfirmInv, TriedInv, RoundsInv, CompareInv, DecideInv, HoldInv

LEMMA RaisedConfirmed ==
    ASSUME RestoreInv, ~Leaving, NEW gains, NEW switched, Leave(gains, switched),
           UNCHANGED accepted
    PROVE  ConfirmInv'
<1>1. Leaving'
    BY DEF Leave, Leaving
<1>2. QED BY <1>1, LeftConfirmed

\* Between two trials.
LEMMA OnConfirmed ==
    ASSUME RestoreInv', pc' # "trial", ~Leaving', TriedInv', CompareInv',
           pc' = "decide" => best' = Base \/ Better(best)'
    PROVE  ConfirmInv'
<1>1. accepted' = {}
    BY DEF RestoreInv, Known
<1>2. QED BY <1>1 DEF ConfirmInv, RoundsInv, DecideInv, HoldInv

\* A trial is begun.
LEMMA BeginConfirmed ==
    ASSUME RestoreInv', NEW gains, NEW label, NEW count, Begin(gains, label, count), TriedInv',
           label = "confirm-base" =>
                /\ gains = Base /\ count \in Nat
                /\ Tries(Base)' >= count /\ Tries(search.best)' >= count,
           label = "confirm-best" =>
                /\ gains = search'.best /\ count \in Nat
                /\ Tries(Base)' > count /\ Tries(search.best)' >= count,
           label \in {"hold-base", "hold-best"} => best' = Base \/ Better(best)'
    PROVE  ConfirmInv'
<1>1. /\ pc' = "trial"
      /\ trial' = [gains |-> gains, label |-> label, count |-> count, at |-> "apply", cost |-> 0]
    BY DEF Begin, Trial
<1>2. /\ trial'.label = label /\ trial'.at = "apply" /\ trial'.gains = gains
      /\ trial'.count = count
    BY <1>1
<1>3. accepted' = {}
    BY <1>1 DEF RestoreInv, Known, Leaving
<1>4. RoundsInv' /\ HoldInv'
    BY <1>2 DEF RoundsInv, HoldInv
<1>5. CompareInv' /\ DecideInv'
    BY <1>1, <1>2, <1>3 DEF CompareInv, DecideInv, Held
<1>6. QED BY <1>4, <1>5 DEF ConfirmInv

\* A trial goes on, or is over and is not recorded.
LEMMA GoOnConfirmed ==
    ASSUME RestoreInv', ConfirmInv, pc = "trial", pc' = "trial", UNCHANGED <<cache, search, best>>,
           trial'.gains = trial.gains, trial'.label = trial.label, trial'.count = trial.count,
           trial'.at \in {"recover", "home"} => ~Held,
           trial'.at = "over" => Held
    PROVE  ConfirmInv'
<1>1. accepted' = {}
    BY DEF RestoreInv, Known, Leaving
<1>2. TriedInv'
    BY DEF ConfirmInv, TriedInv, Tries, Leaving
<1>3. Held' <=> Held
    BY DEF Held
<1>4. Held => trial.label # "confirm-base" /\ trial.label # "confirm-best"
    BY DEF Held
<1>5. RoundsInv'
    BY <1>4 DEF ConfirmInv, RoundsInv, Tries
<1>6. CompareInv' /\ HoldInv'
    BY <1>3 DEF CompareInv, HoldInv
<1>7. DecideInv'
    BY <1>1, <1>3 DEF ConfirmInv, DecideInv, Better, Tries
<1>8. QED BY <1>2, <1>5, <1>6, <1>7 DEF ConfirmInv

\* A trial is over and is recorded.
LEMMA RecordedConfirmed ==
    ASSUME RestoreInv', ProvenInv, ConfirmInv, pc = "trial", pc' = "trial", ~Held,
           UNCHANGED search, NEW cost \in Nat, cost <= Unstable,
           cache' = WithRun(trial.gains, cost),
           trial'.gains = trial.gains, trial'.label = trial.label, trial'.count = trial.count,
           trial'.at = "over"
    PROVE  ConfirmInv'
<1> DEFINE g == trial.gains
<1>1. /\ DOMAIN cache' = DOMAIN cache \cup {g}
      /\ \A h \in DOMAIN cache : /\ Tries(h) \in Nat /\ Mean(cache'[h])[2] \in Nat
                                 /\ Mean(cache'[h])[2] >= Tries(h)
      /\ Mean(cache'[g])[2] \in Nat /\ Mean(cache'[g])[2] >= 1
      /\ g \in DOMAIN cache => Mean(cache'[g])[2] > Tries(g)
    BY WithRunTries DEF ProvenInv
<1> HIDE DEF g
<1>2. accepted' = {} /\ ~Leaving
    BY DEF RestoreInv, Known, Leaving
<1>3. TriedInv'
    <2>1. ASSUME NEW h \in DOMAIN cache' PROVE Mean(cache'[h])[2] >= 1
        <3>1. CASE h = g
            BY <1>1, <3>1
        <3>2. CASE h # g
            <4>1. h \in DOMAIN cache /\ Tries(h) >= 1
                BY <1>1, <1>2, <3>2 DEF ConfirmInv, TriedInv
            <4>2. /\ Tries(h) \in Nat /\ Mean(cache'[h])[2] \in Nat
                  /\ Mean(cache'[h])[2] >= Tries(h)
                BY <1>1, <4>1
            <4>3. QED BY <4>1, <4>2
        <3>3. QED BY <3>1, <3>2
    <2>2. QED BY <2>1 DEF TriedInv, Tries
<1>4. RoundsInv'
    <2>1. ASSUME trial.label \in {"confirm-base", "confirm-best"}
          PROVE  Base \in DOMAIN cache /\ search.best \in DOMAIN cache
        BY <2>1 DEF ProvenInv, BaselineInv, Searching, SearchInv, Found
    <2>2. CASE trial.label = "confirm-base"
        <3>1. g = Base /\ trial.count \in Nat /\ Tries(Base) >= trial.count
              /\ Tries(search.best) >= trial.count
            BY <2>2 DEF ConfirmInv, RoundsInv, g
        <3>2. /\ Tries(Base) \in Nat /\ Tries(search.best) \in Nat
              /\ Mean(cache'[Base])[2] \in Nat /\ Mean(cache'[search.best])[2] \in Nat
              /\ Mean(cache'[Base])[2] > Tries(Base)
              /\ Mean(cache'[search.best])[2] >= Tries(search.best)
            BY <1>1, <2>1, <2>2, <3>1
        <3>3. /\ Mean(cache'[Base])[2] > trial.count
              /\ Mean(cache'[Base])[2] >= trial.count
              /\ Mean(cache'[search.best])[2] >= trial.count
            BY <3>1, <3>2
        <3>4. QED BY <2>2, <3>1, <3>3 DEF RoundsInv, Tries, g
    <2>3. CASE trial.label = "confirm-best"
        <3>1. g = search.best /\ trial.count \in Nat /\ Tries(Base) > trial.count
              /\ Tries(search.best) >= trial.count
            BY <2>3 DEF ConfirmInv, RoundsInv, g
        <3>2. /\ Tries(Base) \in Nat /\ Tries(search.best) \in Nat
              /\ Mean(cache'[Base])[2] \in Nat /\ Mean(cache'[search.best])[2] \in Nat
              /\ Mean(cache'[Base])[2] >= Tries(Base)
              /\ Mean(cache'[search.best])[2] > Tries(search.best)
            BY <1>1, <2>1, <2>3, <3>1
        <3>3. /\ Mean(cache'[Base])[2] > trial.count
              /\ Mean(cache'[search.best])[2] > trial.count
              /\ Mean(cache'[search.best])[2] >= trial.count
            BY <3>1, <3>2
        <3>4. QED BY <2>3, <3>1, <3>3 DEF RoundsInv, Tries, g
    <2>4. CASE trial.label \notin {"confirm-base", "confirm-best"}
        BY <2>4 DEF RoundsInv
    <2>5. QED BY <2>2, <2>3, <2>4
<1>5. CompareInv' /\ HoldInv' /\ DecideInv'
    BY <1>2 DEF CompareInv, HoldInv, DecideInv, Held
<1>6. QED BY <1>3, <1>4, <1>5 DEF ConfirmInv

-----------------------------------------------------------------------------
\* The steps again.

\* Before, after, and what is known of both.
Both == RestoreInv /\ RestoreInv' /\ ProvenInv /\ ProvenInv' /\ ConfirmInv

LEMMA EarlyConfirmed ==
    ASSUME Both, SwitchAlgorithm \/ SwitchSource \/ SwitchRamp \/ Approach
    PROVE  ConfirmInv'
<1>1. Early /\ ~Leaving /\ UNCHANGED <<cache, accepted>>
    BY DEF SwitchAlgorithm, SwitchSource, SwitchRamp, Switch, Approach, quiet, runner, result,
           Early, Leaving
<1>2. TriedInv'
    BY <1>1 DEF Both, ConfirmInv, TriedInv, Tries
<1>3. \/ Early'
      \/ \E g, w : Leave(g, w)
      \/ \E label \in {"calibrate", "baseline"} : Begin(Base, label, 1)
    BY DEF SwitchAlgorithm, SwitchSource, SwitchRamp, Switch, Approach, Early, Raise
<1>4. CASE Early'
    BY <1>2, <1>4, OnConfirmed DEF Both, Early, Leaving, CompareInv
<1>5. CASE \E g, w : Leave(g, w)
    BY <1>1, <1>5, RaisedConfirmed DEF Both
<1>6. ASSUME NEW label \in {"calibrate", "baseline"}, Begin(Base, label, 1) PROVE ConfirmInv'
    BY <1>2, <1>6, BeginConfirmed DEF Both
<1>7. QED BY <1>3, <1>4, <1>5, <1>6

\* A trial's step that is not its end.
LEMMA TrialMovesConfirmed ==
    ASSUME Both, pc = "trial", UNCHANGED <<cache, search, best, accepted>>,
           NEW await, await # "over", await \in {"recover", "home"} => ~Held,
           Raise \/ GoTo(await)
    PROVE  ConfirmInv'
<1>1. CASE Raise
    <2>1. ~Leaving
        BY DEF Leaving
    <2>2. QED BY <1>1, <2>1, RaisedConfirmed DEF Raise, Both
<1>2. CASE GoTo(await)
    <2>1. Run(trial)
        BY DEF Both, ProvenInv, TrialInv
    <2>2. /\ pc' = "trial" /\ trial'.at = await
          /\ trial'.gains = trial.gains /\ trial'.label = trial.label
          /\ trial'.count = trial.count
        BY <1>2, <2>1, RunIs DEF GoTo
    <2>3. QED BY <2>2, GoOnConfirmed DEF Both
<1>3. QED BY <1>1, <1>2

LEMMA ApplyConfirmed == Both /\ Apply => ConfirmInv'
<1> SUFFICES ASSUME Both, Apply PROVE ConfirmInv'
    OBVIOUS
<1>1. pc = "trial" /\ UNCHANGED <<cache, search, best, accepted>>
    BY DEF Apply, At, quiet, runner, result
<1>2. Raise \/ GoTo("steps") \/ (~Held /\ GoTo("recover"))
    BY DEF Apply, Aborted
<1>3. CASE Raise \/ GoTo("steps")
    BY <1>1, <1>3, TrialMovesConfirmed
<1>4. CASE ~Held /\ GoTo("recover")
    BY <1>1, <1>4, TrialMovesConfirmed
<1>5. QED BY <1>2, <1>3, <1>4

LEMMA StepsConfirmed == Both /\ Steps => ConfirmInv'
<1> SUFFICES ASSUME Both, Steps PROVE ConfirmInv'
    OBVIOUS
<1>1. pc = "trial" /\ Run(trial) /\ UNCHANGED <<search, best, accepted>>
    BY DEF Steps, At, result, Both, ProvenInv, TrialInv
<1>2. CASE Raise /\ UNCHANGED runner
    <2>1. "steps" \notin {"over", "recover", "home"}
        OBVIOUS
    <2>2. QED BY <1>1, <1>2, <2>1, TrialMovesConfirmed DEF runner
<1>3. CASE ~Held /\ GoTo("recover") /\ UNCHANGED runner
    BY <1>1, <1>3, TrialMovesConfirmed DEF runner
<1>4. ASSUME NEW cost \in Costs, Completes(cost), pc' = pc PROVE ConfirmInv'
    <2>1. cost \in Nat /\ cost <= Unstable
        BY AutotuneAssumption DEF AutotuneAssumption
    <2>2. /\ trial'.at = "over" /\ trial'.gains = trial.gains
          /\ trial'.label = trial.label /\ trial'.count = trial.count
        BY <1>1, <1>4, OverIs DEF Completes
    <2>3. CASE Held
        <3>1. cache' = cache
            BY <1>4, <2>3 DEF Completes
        <3>2. QED BY <1>1, <1>4, <2>2, <2>3, <3>1, GoOnConfirmed DEF Both
    <2>4. CASE ~Held
        <3>1. cache' = WithRun(trial.gains, cost)
            BY <1>4, <2>4 DEF Completes
        <3>2. QED BY <1>1, <1>4, <2>1, <2>2, <2>4, <3>1, RecordedConfirmed DEF Both
    <2>5. QED BY <2>3, <2>4
<1>5. QED BY <1>2, <1>3, <1>4 DEF Steps, Aborted

LEMMA RecoverConfirmed == Both /\ Recover => ConfirmInv'
<1> SUFFICES ASSUME Both, Recover PROVE ConfirmInv'
    OBVIOUS
<1>1. /\ pc = "trial" /\ UNCHANGED <<cache, search, best, accepted>>
      /\ ~Held
    BY DEF Recover, At, quiet, runner, result, Both, ConfirmInv, HoldInv
<1>2. Raise \/ GoTo("home")
    BY DEF Recover
<1>3. QED BY <1>1, <1>2, TrialMovesConfirmed

LEMMA ComeHomeConfirmed == Both /\ ComeHome => ConfirmInv'
<1> SUFFICES ASSUME Both, ComeHome PROVE ConfirmInv'
    OBVIOUS
<1>1. /\ pc = "trial" /\ Run(trial) /\ UNCHANGED <<search, best, accepted>>
      /\ ~Held
    BY DEF ComeHome, At, result, Both, ProvenInv, TrialInv, ConfirmInv, HoldInv
<1>2. CASE Raise /\ UNCHANGED cache
    BY <1>1, <1>2, RaisedConfirmed DEF Raise, Both, Leaving
<1>3. CASE /\ trial' = [trial EXCEPT !.at = "over", !.cost = AbortCost]
           /\ cache' = WithRun(trial.gains, AbortCost)
           /\ UNCHANGED <<pc, todo>>
    <2>1. AbortCost \in Nat /\ AbortCost <= Unstable
        BY AutotuneAssumption DEF AutotuneAssumption, AbortCost
    <2>2. /\ trial'.at = "over" /\ trial'.gains = trial.gains
          /\ trial'.label = trial.label /\ trial'.count = trial.count
        BY <1>1, <1>3, OverIs
    <2>3. QED BY <1>1, <1>3, <2>1, <2>2, RecordedConfirmed DEF Both
<1>4. QED BY <1>2, <1>3 DEF ComeHome

LEMMA CalibratedConfirmed == Both /\ Calibrated => ConfirmInv'
<1> SUFFICES ASSUME Both, Calibrated PROVE ConfirmInv'
    OBVIOUS
<1>1. ~Leaving /\ UNCHANGED accepted
    BY DEF Calibrated, Over, At, Leaving, result
<1>2. CASE Raise
    BY <1>1, <1>2, RaisedConfirmed DEF Raise, Both
<1>3. CASE Begin(Base, "baseline", 1) /\ cache' = <<>>
    <2>1. TriedInv'
        BY <1>3 DEF TriedInv
    <2>2. QED BY <1>3, <2>1, BeginConfirmed DEF Both
<1>4. QED BY <1>2, <1>3 DEF Calibrated

LEMMA BaselinedConfirmed == Both /\ Baselined => ConfirmInv'
<1> SUFFICES ASSUME Both, Baselined PROVE ConfirmInv'
    OBVIOUS
<1> DEFINE runs == [cache[Base] EXCEPT !.aborted = 0]
<1>1. ~Leaving /\ UNCHANGED accepted
    BY DEF Baselined, Over, At, Leaving, result
<1>2. CASE Begin(Base, "baseline", trial.count + 1) /\ UNCHANGED cache
    <2>1. TriedInv'
        BY <1>1, <1>2 DEF Both, ConfirmInv, TriedInv, Tries
    <2>2. QED BY <1>2, <2>1, BeginConfirmed DEF Both
<1>3. CASE Raise
    BY <1>1, <1>3, RaisedConfirmed DEF Raise, Both
<1>4. CASE cache' = [cache EXCEPT ![Base] = runs] /\ runs.completed # 0 /\ pc' = "search"
    <2>1. Base \in DOMAIN cache /\ CacheInv
        <3>1. trial.label = "baseline" /\ ~Held
            BY DEF Baselined, Over, Held
        <3>2. trial.gains = Base /\ trial.gains \in DOMAIN cache /\ CacheInv
            BY <3>1, OverTrial DEF Baselined, Both
        <3>3. QED BY <3>2
    <2>2. Mean(runs)[2] >= 1
        <3>1. PICK c, n, k : /\ cache[Base] = [cost |-> c, completed |-> n, aborted |-> k]
                             /\ n \in Nat
            BY <2>1 DEF CacheInv, Fair
        <3>2. runs = [cost |-> c, completed |-> n, aborted |-> 0]
            BY <3>1
        <3> HIDE DEF runs
        <3>3. Mean(runs)[2] = n + 0 /\ runs.completed = n
            BY <3>2 DEF Mean
        <3>4. QED BY <1>4, <3>1, <3>3 DEF runs
    <2>3. \A h \in DOMAIN cache : Mean(cache[h])[2] >= 1
        BY <1>1 DEF Both, ConfirmInv, TriedInv, Tries
    <2>4. /\ DOMAIN cache' = DOMAIN cache /\ cache'[Base] = runs
          /\ \A h \in DOMAIN cache : h # Base => cache'[h] = cache[h]
        BY <1>4, <2>1
    <2> HIDE DEF runs
    <2>5. TriedInv'
        BY <2>2, <2>3, <2>4 DEF TriedInv, Tries
    <2>6. QED BY <1>4, <2>5, OnConfirmed DEF Both, Leaving, CompareInv
<1>5. QED BY <1>2, <1>3, <1>4 DEF Baselined

\* Both that the confirmation is about were tried already.
LEMMA TriedBoth ==
    ASSUME Both, Searching, ~Leaving
    PROVE  /\ Tries(Base) \in Nat /\ Tries(Base) >= 1
           /\ Tries(search.best) \in Nat /\ Tries(search.best) >= 1
<1>1. Base \in DOMAIN cache /\ search.best \in DOMAIN cache /\ CacheInv
    BY DEF Both, ProvenInv, BaselineInv, SearchInv, Found
<1>2. \A g \in DOMAIN cache : Tries(g) \in Nat /\ Tries(g) >= 1
    BY <1>1, TriesIs DEF CacheInv, Both, ConfirmInv, TriedInv, Tries
<1>3. QED BY <1>1, <1>2

LEMMA LookConfirmed == Both /\ Look => ConfirmInv'
<1> SUFFICES ASSUME Both, Look PROVE ConfirmInv'
    OBVIOUS
<1>1. pc = "search" /\ ~Leaving /\ UNCHANGED cache
    BY DEF Look, Leaving
<1>2. TriedInv'
    BY <1>1 DEF Both, ConfirmInv, TriedInv, Tries
<1>3. /\ Tries(Base) \in Nat /\ Tries(Base) >= 1
      /\ Tries(search.best) \in Nat /\ Tries(search.best) >= 1
    BY <1>1, TriedBoth DEF Searching
<1>4. CASE Confirm(search) /\ UNCHANGED search
    <2>1. Tries(Base)' = Tries(Base) /\ Tries(search.best)' = Tries(search.best)
        BY <1>1, <1>4 DEF Tries
    <2>2. CASE Begin(Base, "confirm-base", 1)
        BY <1>2, <1>3, <2>1, <2>2, BeginConfirmed DEF Both
    <2>3. CASE ~(search.best # Base /\ Confirms > 0) /\ pc' = "compare"
        <3>1. search.best # Base => Confirms = 0
            BY <2>3, AutotuneAssumption DEF AutotuneAssumption
        <3>2. CompareInv'
            BY <1>3, <1>4, <2>1, <3>1 DEF CompareInv
        <3>3. QED BY <1>2, <2>3, <3>2, OnConfirmed DEF Both, Leaving
    <2>4. QED BY <1>4, <2>2, <2>3 DEF Confirm
<1>5. CASE pc' = pc
    BY <1>1, <1>2, <1>5, OnConfirmed DEF Both, Leaving, CompareInv
<1>6. ASSUME NEW g, NEW label \in {"search", "recheck"}, Begin(g, label, 1) PROVE ConfirmInv'
    BY <1>2, <1>6, BeginConfirmed DEF Both
<1>7. QED BY <1>4, <1>5, <1>6 DEF Look

LEMMA TriedConfirmed == Both /\ Tried => ConfirmInv'
<1> SUFFICES ASSUME Both, Tried PROVE ConfirmInv'
    OBVIOUS
<1>1. ~Leaving /\ UNCHANGED cache /\ pc' = "search"
    BY DEF Tried, Over, At, Leaving
<1>2. TriedInv'
    BY <1>1 DEF Both, ConfirmInv, TriedInv, Tries
<1>3. QED BY <1>1, <1>2, OnConfirmed DEF Both, Leaving, CompareInv

LEMMA ConfirmedConfirmed == Both /\ Confirmed => ConfirmInv'
<1> SUFFICES ASSUME Both, Confirmed PROVE ConfirmInv'
    OBVIOUS
<1>1. /\ pc = "trial" /\ trial.at = "over" /\ ~Leaving /\ UNCHANGED <<cache, search>>
      /\ trial.label \in {"confirm-base", "confirm-best"}
    BY DEF Confirmed, Over, At, Leaving
<1>2. TriedInv'
    BY <1>1 DEF Both, ConfirmInv, TriedInv, Tries
<1>3. Tries(Base)' = Tries(Base) /\ Tries(search.best)' = Tries(search.best)
    BY <1>1 DEF Tries
<1>4. Tries(Base) \in Nat /\ Tries(search.best) \in Nat
    BY <1>1, TriedBoth DEF Searching
<1>5. CASE trial.label = "confirm-base" /\ Begin(search.best, "confirm-best", trial.count)
    <2>1. trial.count \in Nat /\ Tries(Base) > trial.count /\ Tries(search.best) >= trial.count
        BY <1>1, <1>5 DEF Both, ConfirmInv, RoundsInv
    <2>2. search.best = search'.best
        BY <1>1
    <2>3. QED BY <1>2, <1>3, <1>5, <2>1, <2>2, BeginConfirmed DEF Both
<1>6. ASSUME trial.label = "confirm-best"
      PROVE  trial.count \in Nat /\ Tries(Base) > trial.count /\ Tries(search.best) > trial.count
    BY <1>1, <1>6 DEF Both, ConfirmInv, RoundsInv
<1>7. CASE trial.label = "confirm-best" /\ Begin(Base, "confirm-base", trial.count + 1)
    <2> DEFINE n == trial.count + 1
    <2>1. n \in Nat /\ Tries(Base) >= n /\ Tries(search.best) >= n
        BY <1>4, <1>6, <1>7
    <2>2. Begin(Base, "confirm-base", n)
        BY <1>7
    <2> HIDE DEF n
    <2>3. QED BY <1>2, <1>3, <2>1, <2>2, BeginConfirmed DEF Both
<1>8. CASE trial.label = "confirm-best" /\ ~(trial.count < Confirms) /\ pc' = "compare"
    <2>1. Tries(Base) > Confirms /\ Tries(search.best) > Confirms
        BY <1>4, <1>6, <1>8, AutotuneAssumption DEF AutotuneAssumption
    <2>2. CompareInv'
        BY <1>3, <2>1 DEF CompareInv
    <2>3. QED BY <1>2, <1>8, <2>2, OnConfirmed DEF Both, Leaving
<1>9. QED BY <1>1, <1>5, <1>7, <1>8 DEF Confirmed

LEMMA CompareConfirmed == Both /\ Compare => ConfirmInv'
<1> SUFFICES ASSUME Both, Compare PROVE ConfirmInv'
    OBVIOUS
<1>1. pc = "compare" /\ ~Leaving /\ UNCHANGED <<cache, search>>
    BY DEF Compare, same, Leaving
<1>2. TriedInv'
    BY <1>1 DEF Both, ConfirmInv, TriedInv, Tries
<1>3. best' = Base \/ Better(best)'
    <2>1. CASE best' = Base
        BY <2>1
    <2>2. CASE best' # Base
        <3>1. /\ best' = search.best /\ search.best # Base
              /\ Below(Mean(cache[search.best]), Mean(cache[Base]))
            BY <2>2 DEF Compare
        <3>2. Tries(Base) > Confirms /\ Tries(search.best) > Confirms
            BY <1>1, <3>1 DEF Both, ConfirmInv, CompareInv
        <3>3. QED BY <1>1, <3>1, <3>2 DEF Better, Tries
    <2>3. QED BY <2>1, <2>2
<1>4. CASE Begin(Base, "hold-base", 1)
    BY <1>2, <1>3, <1>4, BeginConfirmed DEF Both
<1>5. CASE pc' = "decide"
    BY <1>2, <1>3, <1>5, OnConfirmed DEF Both, Leaving, CompareInv
<1>6. QED BY <1>4, <1>5 DEF Compare

LEMMA HoldTestedConfirmed == Both /\ HoldTested => ConfirmInv'
<1> SUFFICES ASSUME Both, HoldTested PROVE ConfirmInv'
    OBVIOUS
<1>1. pc = "trial" /\ Held /\ ~Leaving /\ UNCHANGED <<cache, best>>
    BY DEF HoldTested, Over, At, Held, same, result, Leaving
<1>2. TriedInv'
    BY <1>1 DEF Both, ConfirmInv, TriedInv, Tries
<1>3. best' = Base \/ Better(best)'
    BY <1>1 DEF Both, ConfirmInv, DecideInv, Better, Tries
<1>4. CASE Begin(best, "hold-best", 1)
    BY <1>2, <1>3, <1>4, BeginConfirmed DEF Both
<1>5. CASE pc' = "decide"
    BY <1>2, <1>3, <1>5, OnConfirmed DEF Both, Leaving, CompareInv
<1>6. QED BY <1>4, <1>5 DEF HoldTested

LEMMA DecideConfirmed == Both /\ Decide => ConfirmInv'
<1> SUFFICES ASSUME Both, Decide PROVE ConfirmInv'
    OBVIOUS
<1>1. pc = "decide" /\ ~Leaving /\ UNCHANGED cache /\ accepted = {}
    BY DEF Decide, runner, Leaving, Both, RestoreInv, Known
<1>2. accepted' = {} \/ accepted' = {[alg |-> dev.alg, gains |-> best]}
    BY <1>1 DEF Decide, Taken
<1>3. best = Base \/ Better(best)
    BY <1>1 DEF Both, ConfirmInv, DecideInv
<1>4. \A a \in accepted' : a.gains = best
    BY <1>2
<1>5. \A a \in accepted' : a.gains = Base \/ Better(a.gains)'
    BY <1>1, <1>3, <1>4 DEF Better, Tries
<1>6. Leaving'
    BY DEF Decide, Raise, Leave, Leaving
<1>7. QED BY <1>5, <1>6 DEF Leaving, ConfirmInv, TriedInv, RoundsInv, CompareInv, DecideInv, HoldInv

LEMMA RestConfirmed ==
    ASSUME Both, RampBack \/ Restore \/ CutShort \/ Escapes \/ CtrlC \/ UNCHANGED vars
    PROVE  ConfirmInv'
<1>1. UNCHANGED <<cache, search, best, accepted>>
    BY DEF RampBack, Restore, CutShort, Escapes, Abandon, CtrlC, vars, rest, runner, result
<1>2. CASE RampBack \/ Restore \/ CutShort \/ Escapes
    <2>1. Leaving'
        BY <1>2 DEF RampBack, Restore, CutShort, Escapes, Abandon, Proceed, Leaving
    <2>2. \A a \in accepted' : a.gains = Base \/ Better(a.gains)'
        BY <1>1 DEF Both, ConfirmInv, DecideInv, Better, Tries
    <2>3. QED BY <2>1, <2>2
             DEF Leaving, ConfirmInv, TriedInv, RoundsInv, CompareInv, DecideInv, HoldInv
<1>3. CASE CtrlC /\ Raise
    <2>1. ~Leaving
        BY <1>3 DEF CtrlC, Leaving
    <2>2. QED BY <1>1, <1>3, <2>1, RaisedConfirmed DEF Raise, Both
<1>4. CASE UNCHANGED <<pc, trial>>
    <2>1. TriedInv' /\ CompareInv'
        BY <1>1, <1>4 DEF Both, ConfirmInv, TriedInv, CompareInv, Tries, Leaving
    <2>2. RoundsInv' /\ HoldInv'
        BY <1>1, <1>4 DEF Both, ConfirmInv, RoundsInv, HoldInv, Held, Tries
    <2>3. DecideInv'
        BY <1>1, <1>4 DEF Both, ConfirmInv, DecideInv, Better, Held, Tries
    <2>4. QED BY <2>1, <2>2, <2>3 DEF ConfirmInv
<1>5. QED BY <1>2, <1>3, <1>4 DEF CtrlC, vars

-----------------------------------------------------------------------------
LEMMA ConfirmInit == Init => ConfirmInv
BY DEF Init, ConfirmInv, TriedInv, RoundsInv, CompareInv, DecideInv, HoldInv

LEMMA ConfirmStep == RestoreInv /\ ProvenInv /\ ConfirmInv /\ [Next]_vars => ConfirmInv'
<1> SUFFICES ASSUME RestoreInv, ProvenInv, ConfirmInv, [Next]_vars PROVE ConfirmInv'
    OBVIOUS
<1>1. Both
    BY RestoreStep, ProvenStep DEF Both
<1>2. CASE SwitchAlgorithm \/ SwitchSource \/ SwitchRamp \/ Approach
    BY <1>1, <1>2, EarlyConfirmed
<1>3. CASE Apply
    BY <1>1, <1>3, ApplyConfirmed
<1>4. CASE Steps
    BY <1>1, <1>4, StepsConfirmed
<1>5. CASE Recover
    BY <1>1, <1>5, RecoverConfirmed
<1>6. CASE ComeHome
    BY <1>1, <1>6, ComeHomeConfirmed
<1>7. CASE Calibrated
    BY <1>1, <1>7, CalibratedConfirmed
<1>8. CASE Baselined
    BY <1>1, <1>8, BaselinedConfirmed
<1>9. CASE Look
    BY <1>1, <1>9, LookConfirmed
<1>10. CASE Tried
    BY <1>1, <1>10, TriedConfirmed
<1>11. CASE Confirmed
    BY <1>1, <1>11, ConfirmedConfirmed
<1>12. CASE Compare
    BY <1>1, <1>12, CompareConfirmed
<1>13. CASE HoldTested
    BY <1>1, <1>13, HoldTestedConfirmed
<1>14. CASE Decide
    BY <1>1, <1>14, DecideConfirmed
<1>15. CASE RampBack \/ Restore \/ CutShort \/ Escapes \/ CtrlC \/ UNCHANGED vars
    BY <1>1, <1>15, RestConfirmed
<1>16. QED BY <1>2, <1>3, <1>4, <1>5, <1>6, <1>7, <1>8, <1>9, <1>10, <1>11, <1>12, <1>13, <1>14,
              <1>15 DEF Next

LEMMA ConfirmIsEnough == ConfirmInv => BestConfirmed
<1> SUFFICES ASSUME ConfirmInv, NEW a \in accepted, a.gains # Base
             PROVE  /\ \A g \in {a.gains, Base} : Mean(cache[g])[2] > Confirms
                    /\ Below(Mean(cache[a.gains]), Mean(cache[Base]))
    BY DEF BestConfirmed
<1>1. Better(a.gains)
    BY DEF ConfirmInv, DecideInv
<1>2. QED BY <1>1 DEF Better, Tries

\* cmd_tune accepts other gains only when they and those it came with were both tried
\* more often than there are rounds of confirmation, and over all those trials the new
\* ones are better by the margin; no hold test, stop or failure in between changes that.
THEOREM BestIsConfirmed == Spec => []BestConfirmed
<1>1. Init => RestoreInv /\ ProvenInv /\ ConfirmInv
    BY RestoreInit, ProvenInit, ConfirmInit
<1>2. RestoreInv /\ ProvenInv /\ ConfirmInv /\ [Next]_vars
        => (RestoreInv /\ ProvenInv /\ ConfirmInv)'
    BY RestoreStep, ProvenStep, ConfirmStep
<1>3. QED BY <1>1, <1>2, ConfirmIsEnough, PTL DEF Spec
=============================================================================
