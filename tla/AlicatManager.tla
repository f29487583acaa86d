--------------------------- MODULE AlicatManager ---------------------------
(***************************************************************************)
(* AlicatManager: named devices on ports that several of them may share.   *)
(* add, remove and close run under the manager's state lock, one at a      *)
(* time; act is the one in progress, at the await it is at.  poll, request *)
(* and execute do not take that lock: disp is one such dispatch, with a    *)
(* task per port, interleaved with them.                                   *)
(*                                                                         *)
(* What a command does on its port is the business of AlicatPort; here it  *)
(* succeeds or fails, and can only succeed on an open transport.           *)
(***************************************************************************)
EXTENDS Naturals, Sequences, SequencesExt

CONSTANTS
    Name,        \* manager-level device names
    Path,        \* port strings a caller may pass
    RealPath,    \* the port a path leads to (symlinks, letter case)
    Given,       \* transports and clients the caller built and owns
    Link,        \* serial transports the manager opens
    None,        \* no name, key or transport
    Policy,      \* ErrorPolicy: "raise" or "return"
    Failures     \* which adds may fail to identify; may tasks be cancelled

\* Identification fails on a port opened for it, or on one already in use; a
\* cancellation is delivered at an await of add, remove or close.
FailureKinds == {"new", "shared", "cancel"}

ASSUME ManagerAssumption ==
    /\ RealPath \in [Path -> Path]
    /\ \A p \in Path : RealPath[RealPath[p]] = RealPath[p]
    /\ None \notin Name \union Path \union Given \union Link
    /\ Path \intersect Given = {}
    /\ Name \intersect (Path \union Given) = {}
    /\ Policy \in {"raise", "return"}
    /\ Failures \subseteq FailureKinds

VARIABLES
    devs,     \* _devices: entries in order of insertion
    ports,    \* _ports: key -> entry, or None
    link,     \* the port each transport of the manager has open, or None
    closed,   \* _closed
    act,      \* the add, remove or close holding _state_lock
    disp      \* a dispatch: its groups, what each is doing, the results

vars == <<devs, ports, link, closed, act, disp>>

Key == Path \union Given

Entry == [name : Name, key : Key \union {None}, link : Link \union {None}]

PortEntry == [link : Link \union {None}, refs : SUBSET Name]

ASSUME NoneIsNoEntry == None \notin PortEntry

NoAct == [op |-> "none", stage |-> "none", name |-> None, key |-> None]

Acts == [op : {"none", "add", "remove", "close"},
         stage : {"none", "open", "identify", "next", "teardown"},
         name : Name \union {None}, key : Key \union {None}]

\* A dispatch runs one task per key; a device without a key is on its own.
Group == Key \union Name

Nothing == [name |-> None, link |-> None]

Dispatches ==
    [state : {"idle", "running", "returned", "raised", "lost"},
     asked : SUBSET Name,
     todo  : [Group -> SUBSET Name],
     doing : [Group -> [name : Name \union {None}, link : Link \union {None}]],
     res   : [Name -> {"none", "ok", "error"}]]

TypeOK ==
    /\ devs \in Seq(Entry)
    /\ ports \in [Key -> PortEntry \union {None}]
    /\ link \in [Link -> Path \union {None}]
    /\ closed \in BOOLEAN
    /\ act \in Acts
    /\ disp \in Dispatches
    /\ act.op = "none" <=> act.stage = "none"
    /\ act.stage \in {"open", "identify"} => act.op = "add"
    /\ act.stage = "next" => act.op = "close"
    /\ act.stage \in {"identify", "teardown"} => ports[act.key] # None

NoDispatch == [state |-> "idle", asked |-> {},
               todo |-> [g \in Group |-> {}],
               doing |-> [g \in Group |-> Nothing],
               res |-> [n \in Name |-> "none"]]

Init ==
    /\ devs = << >>
    /\ ports = [k \in Key |-> None]
    /\ link = [l \in Link |-> None]
    /\ closed = FALSE
    /\ act = NoAct
    /\ disp = NoDispatch

-----------------------------------------------------------------------------
(* The registries.                                                         *)

Entries == {devs[i] : i \in DOMAIN devs}
Names == {d.name : d \in Entries}

\* Mutant: a path is its own key.
KeyOf_Raw(p) == p

\* _canonical_port_key: equivalent paths collapse to one key.
KeyOf(p) == RealPath[p]

\* A transport object nobody refers to any more is as good as a new one.
Unused(l) ==
    /\ link[l] = None
    /\ \A d \in Entries : d.link # l
    /\ \A k \in Key : ports[k] # None => ports[k].link # l
    /\ \A g \in Group : disp.doing[g].link # l

\* Can a command get an answer through this transport?  The caller's own
\* transports (None) are taken to be open.
Usable(l) == IF l = None THEN TRUE ELSE link[l] # None

\* The state lock is free and _check_open passes.
MayMutate == act = NoAct /\ ~closed

Begin(op, stage, n, k) ==
    act' = [op |-> op, stage |-> stage, name |-> n, key |-> k]

\* Mutant: the device is listed, its reference on the port is not counted.
Register_Uncounted(n, k) ==
    /\ devs' = Append(devs, [name |-> n, key |-> k, link |-> ports[k].link])
    /\ UNCHANGED ports

\* add, after open_device: the entry is appended, the reference counted.
Register(n, k) ==
    /\ devs' = Append(devs, [name |-> n, key |-> k, link |-> ports[k].link])
    /\ ports' = [ports EXCEPT ![k].refs = @ \union {n}]

-----------------------------------------------------------------------------
(* add.                                                                    *)

\* A pre-built Device is only listed.
AddDevice(n) ==
    /\ MayMutate /\ n \notin Names
    /\ devs' = Append(devs, [name |-> n, key |-> None, link |-> None])
    /\ UNCHANGED <<ports, link, closed, act, disp>>

\* A port string shares the entry of its key, or opens a transport ...
AddPath(n, p) ==
    /\ MayMutate /\ n \notin Names
    /\ LET k == KeyOf(p) IN
          Begin("add", IF ports[k] = None THEN "open" ELSE "identify", n, k)
    /\ UNCHANGED <<devs, ports, link, closed, disp>>

\* ... while the caller's transport or client is never opened or closed.
AddGiven(n, g) ==
    /\ MayMutate /\ n \notin Names
    /\ ports' = IF ports[g] # None THEN ports
                ELSE [ports EXCEPT ![g] = [link |-> None, refs |-> {}]]
    /\ Begin("add", "identify", n, g)
    /\ UNCHANGED <<devs, link, closed, disp>>

\* _resolve_source: transport.open() returns, or raises.
OpenTransport(l) ==
    /\ act.stage = "open" /\ Unused(l)
    /\ link' = [link EXCEPT ![l] = RealPath[act.key]]
    /\ ports' = [ports EXCEPT ![act.key] = [link |-> l, refs |-> {}]]
    /\ act' = [act EXCEPT !.stage = "identify"]
    /\ UNCHANGED <<devs, closed, disp>>

OpenFails ==
    /\ act.stage = "open"
    /\ act' = NoAct
    /\ UNCHANGED <<devs, ports, link, closed, disp>>

\* open_device returns: it needs answers from the device.
Identified ==
    /\ act.stage = "identify" /\ Usable(ports[act.key].link)
    /\ Register(act.name, act.key)
    /\ act' = NoAct
    /\ UNCHANGED <<link, closed, disp>>

\* What follows a teardown: close goes on, add and remove are over.
After(op) ==
    act' = IF op = "close" THEN [NoAct EXCEPT !.op = "close", !.stage = "next"] ELSE NoAct

\* _maybe_teardown_port: an owned transport that is open has to be closed
\* before the entry is dropped.
DropPort(op, n, k) ==
    \/ /\ ports[k].link # None /\ link[ports[k].link] # None
       /\ Begin(op, "teardown", n, k)
       /\ UNCHANGED ports
    \/ /\ ports[k].link = None \/ ~Usable(ports[k].link)
       /\ ports' = [ports EXCEPT ![k] = None]
       /\ After(op)

\* open_device raises.  The name is not registered yet, so it is never among
\* the references: the port is torn down whoever else is on it.
IdentifyFails ==
    /\ act.stage = "identify"
    /\ \/ ~Usable(ports[act.key].link)
       \/ "cancel" \in Failures
       \/ (IF ports[act.key].refs = {} THEN "new" ELSE "shared") \in Failures
    /\ DropPort("add", act.name, act.key)
    /\ UNCHANGED <<devs, link, closed, disp>>

-----------------------------------------------------------------------------
(* remove and close.                                                       *)

\* _teardown_device: drop the reference, and the port with the last one.
\* Device.close does no I/O here, the manager opens every device on a client.
Unref(op, d) ==
    \/ /\ d.key = None \/ (d.key # None /\ ports[d.key] = None)
       /\ UNCHANGED ports /\ After(op)
    \/ /\ d.key # None /\ ports[d.key] # None
       /\ ports[d.key].refs \ {d.name} # {}
       /\ ports' = [ports EXCEPT ![d.key].refs = @ \ {d.name}] /\ After(op)
    \/ /\ d.key # None /\ ports[d.key] # None
       /\ ports[d.key].refs \subseteq {d.name}
       /\ DropPort(op, d.name, d.key)

RemoveDevice(n) ==
    /\ MayMutate
    /\ \E i \in DOMAIN devs :
          /\ devs[i].name = n
          /\ devs' = RemoveAt(devs, i)
          /\ Unref("remove", devs[i])
    /\ UNCHANGED <<link, closed, disp>>

Close ==
    /\ MayMutate
    /\ After("close")
    /\ UNCHANGED <<devs, ports, link, closed, disp>>

\* Last in, first out.
CloseNext ==
    /\ act.op = "close" /\ act.stage = "next" /\ devs # << >>
    /\ devs' = Front(devs)
    /\ Unref("close", Last(devs))
    /\ UNCHANGED <<link, closed, disp>>

CloseDone ==
    /\ act.op = "close" /\ act.stage = "next" /\ devs = << >>
    /\ closed' = TRUE
    /\ act' = NoAct
    /\ UNCHANGED <<devs, ports, link, disp>>

\* Mutant: the teardown of a port ends whatever call it was a part of.
TornDown_Ends ==
    /\ act.stage = "teardown"
    /\ link' = [link EXCEPT ![ports[act.key].link] = None]
    /\ ports' = [ports EXCEPT ![act.key] = None]
    /\ act' = NoAct
    /\ UNCHANGED <<devs, closed, disp>>

\* transport.close() returns (an exception it raises is logged), and the
\* entry of the port goes, with whatever references it still has.
TornDown ==
    /\ act.stage = "teardown"
    /\ link' = [link EXCEPT ![ports[act.key].link] = None]
    /\ ports' = [ports EXCEPT ![act.key] = None]
    /\ After(act.op)
    /\ UNCHANGED <<devs, closed, disp>>

\* Cancelled in transport.close(): it has let go of the port already, and the
\* entry stays behind with a closed transport.
TeardownCancelled ==
    /\ act.stage = "teardown" /\ "cancel" \in Failures
    /\ link' = [link EXCEPT ![ports[act.key].link] = None]
    /\ ports' = [ports EXCEPT ![act.key].refs = @ \ (IF act.op = "add" THEN {} ELSE {act.name})]
    /\ act' = NoAct
    /\ UNCHANGED <<devs, closed, disp>>

-----------------------------------------------------------------------------
(* poll, request and execute.                                              *)

GroupOf(d) == IF d.key = None THEN d.name ELSE d.key

\* The targets are checked against the registry and grouped by port.
StartDispatch(asked) ==
    /\ disp.state # "running" /\ asked \subseteq Names
    /\ disp' = [NoDispatch EXCEPT
                  !.state = "running", !.asked = asked,
                  !.todo = [g \in Group |->
                      {d.name : d \in {e \in Entries : e.name \in asked /\ GroupOf(e) = g}}]]
    /\ UNCHANGED <<devs, ports, link, closed, act>>

\* Mutant: the member stays in its group.
Resume_Retries(g, res) ==
    \/ /\ disp.todo[g] = {}
       /\ disp' = [disp EXCEPT !.doing[g] = Nothing, !.res = res]
    \/ \E d \in Entries :
          /\ d.name \in disp.todo[g]
          /\ disp' = [disp EXCEPT !.doing[g] = [name |-> d.name, link |-> d.link], !.res = res]
    \/ /\ disp.todo[g] \ Names # {}
       /\ disp' = [NoDispatch EXCEPT !.state = "lost", !.asked = disp.asked, !.res = res]

\* A group looks its next member up again before it awaits it; the order is
\* the caller's.  A member that has been removed raises KeyError, which the
\* task group turns into the end of the whole dispatch.
Resume(g, res) ==
    \/ /\ disp.todo[g] = {}
       /\ disp' = [disp EXCEPT !.doing[g] = Nothing, !.res = res]
    \/ \E d \in Entries :
          /\ d.name \in disp.todo[g]
          /\ disp' = [disp EXCEPT !.doing[g] = [name |-> d.name, link |-> d.link],
                                  !.todo[g] = @ \ {d.name}, !.res = res]
    \/ /\ disp.todo[g] \ Names # {}
       /\ disp' = [NoDispatch EXCEPT !.state = "lost", !.asked = disp.asked, !.res = res]

StartGroup(g) ==
    /\ disp.state = "running" /\ disp.doing[g] = Nothing /\ disp.todo[g] # {}
    /\ Resume(g, disp.res)
    /\ UNCHANGED <<devs, ports, link, closed, act>>

\* op(device) returns, or raises an AlicatError; a closed port only raises.
Answer(g, r) ==
    /\ disp.state = "running" /\ disp.doing[g] # Nothing
    /\ r = "error" \/ Usable(disp.doing[g].link)
    /\ Resume(g, [disp.res EXCEPT ![disp.doing[g].name] = r])
    /\ UNCHANGED <<devs, ports, link, closed, act>>

\* Mutant: the first failure raises while other groups are still at work.
Joined_Eager ==
    /\ disp.state = "running"
    /\ \/ \A g \in Group : disp.todo[g] = {} /\ disp.doing[g] = Nothing
       \/ \E n \in Name : disp.res[n] = "error"
    /\ disp' = [disp EXCEPT !.state =
                  IF Policy = "raise" /\ \E n \in Name : disp.res[n] = "error"
                  THEN "raised" ELSE "returned"]
    /\ UNCHANGED <<devs, ports, link, closed, act>>

\* Every group has finished: the results, or the failures together.
Joined ==
    /\ disp.state = "running"
    /\ \A g \in Group : disp.todo[g] = {} /\ disp.doing[g] = Nothing
    /\ disp' = [disp EXCEPT !.state =
                  IF Policy = "raise" /\ \E n \in Name : disp.res[n] = "error"
                  THEN "raised" ELSE "returned"]
    /\ UNCHANGED <<devs, ports, link, closed, act>>

-----------------------------------------------------------------------------
Mutate == \/ \E n \in Name :
                \/ AddDevice(n) \/ RemoveDevice(n)
                \/ \E p \in Path : AddPath(n, p)
                \/ \E g \in Given : AddGiven(n, g)
          \/ Close

Work == \/ \E l \in Link : OpenTransport(l)
        \/ OpenFails \/ Identified \/ IdentifyFails
        \/ CloseNext \/ CloseDone \/ TornDown \/ TeardownCancelled

Poll == \/ \E g \in Group : StartGroup(g) \/ \E r \in {"ok", "error"} : Answer(g, r)
        \/ Joined

Next == \/ Mutate \/ Work \/ Poll
        \/ \E asked \in SUBSET Name : StartDispatch(asked)

Spec == Init /\ [][Next]_vars

\* The awaits of add, remove and close end, and so do the commands: each has
\* a timeout.  Nobody has to call anything.
LiveSpec == Spec /\ WF_vars(Work) /\ WF_vars(Poll)

-----------------------------------------------------------------------------
(* Properties.                                                             *)

OneClientPerPort == \A l, m \in Link : link[l] # None /\ link[l] = link[m] => l = m
NoOrphan == \A l \in Link : link[l] # None => \E k \in Key :
    ports[k] # None /\ ports[k].link = l
ClosedReleases == closed => devs = << >> /\ \A l \in Link : link[l] = None

\* Two transports of the manager never have the same physical port open, whatever
\* paths it was reached by (_canonical_port_key); an open one always has an entry in
\* _ports, so that a remove or a close can find it and no failed or cancelled call
\* leaks it; a closed manager has nothing open.
PortsSound == OneClientPerPort /\ NoOrphan /\ ClosedReleases

\* Between calls an open transport has a reference, and every reference is a
\* device listed under that key.
RefsExact == act = NoAct => \A k \in Key : ports[k] # None =>
    /\ \A n \in ports[k].refs : \E d \in Entries : d.name = n /\ d.key = k
    /\ Usable(ports[k].link) /\ ports[k].link # None => ports[k].refs # {}

\* A dispatch that returns or raises has a result for each device it was asked
\* for, whatever was added and removed meanwhile, and no command of its own is
\* still in progress on a port.
CompleteOrLost ==
    disp.state \in {"returned", "raised"} =>
        /\ \A n \in disp.asked : disp.res[n] # "none"
        /\ \A g \in Group : disp.doing[g] = Nothing

\* Whatever happens to the registry meanwhile, a dispatch ends.
DispatchEnds == disp.state = "running" ~> disp.state # "running"

\* close closes the manager, or was cancelled in a teardown and has left the entry of
\* that port behind, with its transport closed.
CloseEnds ==
    act.op = "close" ~>
        \/ closed
        \/ act.op # "close" /\ \E k \in Key : ports[k] # None /\ ~Usable(ports[k].link)

-----------------------------------------------------------------------------
(* What the repository says of the manager and the code does not always do. *)

\* "The last remove on a shared port triggers the client's close": a listed
\* device can use its port until it is removed.  True as long as no add to a
\* port already in use fails.
ServedWhileListed == \A d \in Entries : Usable(d.link)

=============================================================================
