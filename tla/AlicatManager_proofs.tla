------------------------ MODULE AlicatManager_proofs ------------------------
(***************************************************************************)
(* What holds of a manager for every number of devices, ports, paths and   *)
(* transports, with every add that may fail and every cancellation.        *)
(***************************************************************************)
EXTENDS AlicatManager, SequenceTheorems, TLAPS

-----------------------------------------------------------------------------
(* The places of a sequence.                                              *)

\* A removal keeps the type, and the head unless it is the head that goes.
LEMMA RemoveAtType ==
    ASSUME NEW S, NEW q \in Seq(S), NEW n \in DOMAIN q
    PROVE  /\ RemoveAt(q, n) \in Seq(S)
           /\ Len(RemoveAt(q, n)) = Len(q) - 1
           /\ n # 1 => RemoveAt(q, n) # << >> /\ Head(RemoveAt(q, n)) = Head(q)
<1> DEFINE a == SubSeq(q, 1, n - 1)
           b == SubSeq(q, n + 1, Len(q))
<1>1. n \in 1..Len(q) /\ Len(q) \in Nat
  BY LenProperties
<1>2. a \in Seq(S) /\ Len(a) = n - 1 /\ \A i \in 1..(n - 1) : a[i] = q[i]
  BY <1>1, SubSeqProperties
<1>3. b \in Seq(S) /\ Len(b) = Len(q) - n
  BY <1>1, SubSeqProperties
<1>4. /\ a \o b \in Seq(S)
      /\ Len(a \o b) = Len(a) + Len(b)
      /\ \A i \in 1..Len(a) : (a \o b)[i] = a[i]
  BY <1>2, <1>3, ConcatProperties
<1>5. RemoveAt(q, n) = a \o b
  BY DEF RemoveAt
<1>6. ASSUME n # 1
      PROVE  a \o b # << >> /\ Head(a \o b) = Head(q)
  <2>1. 1 \in 1..(n - 1) /\ 1 \in 1..Len(a) /\ Len(a \o b) > 0
    BY <1>1, <1>2, <1>3, <1>4, <1>6
  <2>2. (a \o b)[1] = q[1]
    BY <2>1, <1>2, <1>4
  <2>3. a \o b # << >>
    BY <2>1, <1>4, EmptySeq
  <2> HIDE DEF a, b
  <2> QED
    BY <2>2, <2>3, <1>1, <1>4
<1> HIDE DEF a, b
<1>7. Len(a \o b) = Len(q) - 1
  BY <1>1, <1>2, <1>3, <1>4
<1> QED
  BY <1>4, <1>5, <1>6, <1>7

\* What a removal does to places: they move up by one, or not at all.
LEMMA RemoveAtPlaces ==
    ASSUME NEW S, NEW q \in Seq(S), NEW n \in DOMAIN q
    PROVE  /\ DOMAIN RemoveAt(q, n) = 1..(Len(q) - 1)
           /\ \A i \in 1..(Len(q) - 1) : RemoveAt(q, n)[i] = IF i < n THEN q[i] ELSE q[i + 1]
<1> DEFINE a == SubSeq(q, 1, n - 1)
           b == SubSeq(q, n + 1, Len(q))
<1>1. n \in 1..Len(q) /\ Len(q) \in Nat /\ \A i \in 1..Len(q) : q[i] \in S
  BY LenProperties, ElementOfSeq
<1>2. a \in Seq(S) /\ Len(a) = n - 1 /\ \A i \in 1..(n - 1) : a[i] = q[i]
  BY <1>1, SubSeqProperties
<1>3. b \in Seq(S) /\ Len(b) = Len(q) - n /\ \A i \in 1..(Len(q) - n) : b[i] = q[n + i]
  BY <1>1, SubSeqProperties
<1>4. RemoveAt(q, n) = a \o b
  BY DEF RemoveAt
<1> HIDE DEF a, b
<1>5. /\ Len(a \o b) = Len(q) - 1 /\ a \o b \in Seq(S)
      /\ \A i \in 1..(Len(q) - 1) : (a \o b)[i] = IF i <= n - 1 THEN a[i] ELSE b[i - (n - 1)]
  <2>1. /\ a \o b \in Seq(S) /\ Len(a \o b) = Len(a) + Len(b)
        /\ \A i \in 1..(Len(a) + Len(b)) :
              (a \o b)[i] = IF i <= Len(a) THEN a[i] ELSE b[i - Len(a)]
    BY <1>2, <1>3, ConcatProperties
  <2>2. Len(a) + Len(b) = Len(q) - 1
    BY <1>1, <1>2, <1>3
  <2> QED
    BY <2>1, <2>2, <1>2
<1>6. DOMAIN (a \o b) = 1..(Len(q) - 1)
  BY <1>5, LenProperties
<1>7. ASSUME NEW i \in 1..(Len(q) - 1) PROVE (a \o b)[i] = IF i < n THEN q[i] ELSE q[i + 1]
  <2>1. CASE i < n
    <3>1. i <= n - 1 /\ i \in 1..(n - 1)
      BY <2>1, <1>1
    <3>2. (a \o b)[i] = a[i]
      BY <3>1, <1>5
    <3> QED
      BY <2>1, <3>1, <3>2, <1>2
  <2>2. CASE i >= n
    <3>1. i - (n - 1) \in 1..(Len(q) - n) /\ n + (i - (n - 1)) = i + 1
      BY <2>2, <1>1
    <3>2. (a \o b)[i] = b[i - (n - 1)]
      BY <2>2, <1>1, <1>5
    <3>3. b[i - (n - 1)] = q[n + (i - (n - 1))]
      BY <3>1, <1>3
    <3>4. ~(i < n) /\ b[i - (n - 1)] = q[i + 1]
      BY <2>2, <3>1, <3>3, <1>1
    <3> QED
      BY <3>2, <3>4
  <2>3. i < n \/ i >= n
    BY <1>1
  <2> QED
    BY <2>1, <2>2, <2>3
<1> QED
  BY <1>4, <1>6, <1>7

\* What an Append does to places.
LEMMA AppendPlaces ==
    ASSUME NEW S, NEW q \in Seq(S), NEW e \in S
    PROVE  /\ Len(q) \in Nat /\ DOMAIN q = 1..Len(q)
           /\ DOMAIN Append(q, e) = 1..(Len(q) + 1)
           /\ \A i \in 1..(Len(q) + 1) : Append(q, e)[i] = IF i <= Len(q) THEN q[i] ELSE e
<1>1. Append(q, e) \in Seq(S) /\ Len(Append(q, e)) = Len(q) + 1
  BY AppendProperties
<1>2. Len(q) \in Nat /\ DOMAIN q = 1..Len(q) /\ DOMAIN Append(q, e) = 1..(Len(q) + 1)
  BY <1>1, LenProperties
<1>3. ASSUME NEW i \in 1..(Len(q) + 1)
      PROVE  Append(q, e)[i] = IF i <= Len(q) THEN q[i] ELSE e
  <2>1. CASE i <= Len(q)
    BY <2>1, <1>2, AppendProperties
  <2>2. CASE i = Len(q) + 1
    BY <2>2, <1>2, AppendProperties
  <2> QED
    BY <2>1, <2>2, <1>2
<1> QED
  BY <1>2, <1>3

-----------------------------------------------------------------------------
(* The inductive invariant.                                                *)

\* What the add, remove or close in progress has in its hands.
ActSound ==
    /\ act.stage \in {"open", "identify", "teardown"} => act.key \in Key /\ act.name \in Name
    /\ act.stage = "open" =>
        act.key \in Path /\ RealPath[act.key] = act.key /\ ports[act.key] = None
    /\ act.stage \in {"open", "identify"} => act.name \notin Names
    /\ act.stage = "teardown" =>
        act.op # "none" /\ ports[act.key].link # None /\ link[ports[act.key].link] # None
    /\ closed => act = NoAct

NamedOnce == \A i, j \in DOMAIN devs : devs[i].name = devs[j].name => i = j

\* A transport belongs to one entry, and has nothing open but the port of that entry.
LinksSound == \A k \in Key : ports[k] # None /\ ports[k].link # None =>
    /\ link[ports[k].link] \in {None, k}
    /\ \A m \in Key : ports[m] # None /\ ports[m].link = ports[k].link => m = k

\* The entry has a transport of the manager's, and it is open.
InUse(k) == ports[k].link # None /\ Usable(ports[k].link)

\* RefsExact while a call is in progress: the one device that has left the registry and
\* is still among the references is the one whose port is being torn down, and the one
\* open transport without a reference is that of the add or teardown in progress.
RefsSound == \A k \in Key : ports[k] # None =>
    /\ \A n \in ports[k].refs :
        \/ \E d \in Entries : d.name = n /\ d.key = k
        \/ act.stage = "teardown" /\ act.op # "add" /\ act.key = k /\ act.name = n
    /\ InUse(k) => ports[k].refs # {} \/ (act.stage \in {"identify", "teardown"} /\ act.key = k)

ManagerInv ==
    /\ TypeOK /\ ActSound /\ NamedOnce /\ LinksSound /\ RefsSound
    /\ NoOrphan /\ ClosedReleases

-----------------------------------------------------------------------------
(* The registry as a set of entries.                                       *)

LEMMA EntryFields ==
    ASSUME TypeOK, NEW i \in DOMAIN devs
    PROVE  /\ devs[i] \in Entry /\ devs[i].name \in Name
           /\ devs[i].key \in Key \union {None} /\ devs[i].link \in Link \union {None}
<1>1. devs \in Seq(Entry)
  BY DEF TypeOK
<1>2. devs[i] \in Entry
  BY <1>1, ElementOfSeq, LenProperties
<1> QED
  BY <1>2 DEF Entry

LEMMA AppendEntries ==
    ASSUME TypeOK, NamedOnce, NEW e \in Entry, e.name \notin Names, devs' = Append(devs, e)
    PROVE  devs' \in Seq(Entry) /\ Entries' = Entries \union {e} /\ NamedOnce'
<1>1. devs \in Seq(Entry)
  BY DEF TypeOK
<1>2. devs' \in Seq(Entry)
  BY <1>1, AppendProperties
<1>3. /\ Len(devs) \in Nat /\ DOMAIN devs = 1..Len(devs) /\ DOMAIN devs' = 1..(Len(devs) + 1)
      /\ \A i \in 1..(Len(devs) + 1) : devs'[i] = IF i <= Len(devs) THEN devs[i] ELSE e
  BY <1>1, AppendPlaces
<1>4. \A i \in 1..Len(devs) : i \in 1..(Len(devs) + 1) /\ devs'[i] = devs[i]
  BY <1>3
<1>5. Len(devs) + 1 \in 1..(Len(devs) + 1) /\ devs'[Len(devs) + 1] = e
  BY <1>3
<1>6. \A i \in 1..(Len(devs) + 1) : i \in 1..Len(devs) \/ i = Len(devs) + 1
  BY <1>3
<1>7. Entries' = Entries \union {e}
  BY <1>3, <1>4, <1>5, <1>6 DEF Entries
<1>8. \A i \in 1..Len(devs) : devs[i].name # e.name
  BY <1>3 DEF Names, Entries
<1>9. NamedOnce'
  BY <1>3, <1>4, <1>5, <1>6, <1>8 DEF NamedOnce
<1> QED
  BY <1>2, <1>7, <1>9

LEMMA RemoveEntries ==
    ASSUME TypeOK, NamedOnce, NEW n \in DOMAIN devs, devs' = RemoveAt(devs, n)
    PROVE  devs' \in Seq(Entry) /\ Entries' = Entries \ {devs[n]} /\ NamedOnce'
<1>1. devs \in Seq(Entry)
  BY DEF TypeOK
<1>2. devs' \in Seq(Entry)
  BY <1>1, RemoveAtType
<1>3. Len(devs) \in Nat /\ DOMAIN devs = 1..Len(devs) /\ n \in 1..Len(devs)
  BY <1>1, LenProperties
<1>4. /\ DOMAIN devs' = 1..(Len(devs) - 1)
      /\ \A i \in 1..(Len(devs) - 1) : devs'[i] = IF i < n THEN devs[i] ELSE devs[i + 1]
  BY <1>1, RemoveAtPlaces
<1> DEFINE Old(i) == IF i < n THEN i ELSE i + 1
           Now(i) == IF i < n THEN i ELSE i - 1
<1>5. \A i \in 1..(Len(devs) - 1) : Old(i) \in 1..Len(devs) /\ Old(i) # n
  BY <1>3
<1>6. \A i \in 1..(Len(devs) - 1) : devs'[i] = devs[Old(i)]
  BY <1>4
<1>7. \A i, j \in 1..(Len(devs) - 1) : Old(i) = Old(j) => i = j
  BY <1>3
<1>8. \A i \in 1..Len(devs) : i # n => Now(i) \in 1..(Len(devs) - 1) /\ Old(Now(i)) = i
  BY <1>3
<1> HIDE DEF Old, Now
<1>9. NamedOnce'
  BY <1>3, <1>4, <1>5, <1>6, <1>7 DEF NamedOnce
<1>10. \A i \in 1..Len(devs) : i # n => devs[i] # devs[n]
  BY <1>3 DEF NamedOnce
<1>11. ASSUME NEW e, e \in Entries' PROVE e \in Entries \ {devs[n]}
  <2>1. PICK i \in 1..(Len(devs) - 1) : e = devs'[i]
    BY <1>4, <1>11 DEF Entries
  <2> QED
    BY <2>1, <1>3, <1>5, <1>6, <1>10 DEF Entries
<1>12. ASSUME NEW e \in Entries, e # devs[n] PROVE e \in Entries'
  <2>1. PICK i \in 1..Len(devs) : e = devs[i]
    BY <1>3 DEF Entries
  <2>2. Now(i) \in 1..(Len(devs) - 1) /\ devs'[Now(i)] = e
    BY <2>1, <1>6, <1>8, <1>12
  <2> QED
    BY <2>2, <1>4 DEF Entries
<1> QED
  BY <1>2, <1>9, <1>11, <1>12

\* close pops the last entry.
LEMMA FrontEntries ==
    ASSUME TypeOK, devs # << >>
    PROVE  /\ Len(devs) \in DOMAIN devs
           /\ Last(devs) = devs[Len(devs)] /\ Front(devs) = RemoveAt(devs, Len(devs))
<1>1. devs \in Seq(Entry) /\ Len(devs) \in Nat /\ Len(devs) > 0
  BY EmptySeq DEF TypeOK
<1>2. DOMAIN devs = 1..Len(devs)
  BY <1>1, LenProperties
<1>3. SubSeq(devs, Len(devs) + 1, Len(devs)) = << >>
  BY <1>1, SubSeqEmpty
<1>4. SubSeq(devs, 1, Len(devs) - 1) \in Seq(Entry)
  BY <1>1, SubSeqProperties
<1>5. SubSeq(devs, 1, Len(devs) - 1) \o << >> = SubSeq(devs, 1, Len(devs) - 1)
  BY <1>4, ConcatEmptySeq
<1> QED
  BY <1>1, <1>2, <1>3, <1>5 DEF RemoveAt, Last, Front

-----------------------------------------------------------------------------
(* The ports.                                                              *)

LEMMA PortFields ==
    ASSUME TypeOK, NEW k \in Key, ports[k] # None
    PROVE  /\ ports[k] \in PortEntry /\ ports[k].link \in Link \union {None}
           /\ ports[k].refs \in SUBSET Name
  BY DEF TypeOK, PortEntry

LEMMA PortSet ==
    ASSUME TypeOK, NEW k \in Key, NEW e \in PortEntry \union {None},
           ports' = [ports EXCEPT ![k] = e]
    PROVE  /\ ports' \in [Key -> PortEntry \union {None}]
           /\ ports'[k] = e /\ \A m \in Key \ {k} : ports'[m] = ports[m]
  BY DEF TypeOK

LEMMA RefsSet ==
    ASSUME TypeOK, NEW k \in Key, ports[k] # None, NEW r \in SUBSET Name,
           ports' = [ports EXCEPT ![k].refs = r]
    PROVE  /\ ports' \in [Key -> PortEntry \union {None}]
           /\ ports'[k] # None /\ ports'[k].link = ports[k].link /\ ports'[k].refs = r
           /\ \A m \in Key \ {k} : ports'[m] = ports[m]
<1>1. ports[k] \in PortEntry
  BY PortFields
<1>2. ports'[k] = [ports[k] EXCEPT !.refs = r] /\ \A m \in Key \ {k} : ports'[m] = ports[m]
  BY DEF TypeOK
<1>3. ports'[k] \in PortEntry /\ ports'[k].link = ports[k].link /\ ports'[k].refs = r
  BY <1>1, <1>2 DEF PortEntry
<1>4. ports' \in [Key -> PortEntry \union {None}]
  BY <1>2, <1>3 DEF TypeOK
<1> QED
  BY <1>2, <1>3, <1>4, NoneIsNoEntry

\* An entry whose transport is closed, or is the caller's, can be dropped.
LEMMA DropKeeps ==
    ASSUME TypeOK, LinksSound, NoOrphan, NEW k \in Key, ports[k] # None,
           ports' = [ports EXCEPT ![k] = None],
           \A l \in Link : link'[l] \in {link[l], None},
           ports[k].link # None => link'[ports[k].link] = None
    PROVE  /\ ports' \in [Key -> PortEntry \union {None}]
           /\ ports'[k] = None /\ \A m \in Key \ {k} : ports'[m] = ports[m]
           /\ LinksSound' /\ NoOrphan'
<1>1. /\ ports' \in [Key -> PortEntry \union {None}]
      /\ ports'[k] = None /\ \A m \in Key \ {k} : ports'[m] = ports[m]
  BY PortSet
<1>2. \A m \in Key : ports'[m] # None => m # k /\ ports[m] # None /\ ports'[m] = ports[m]
  BY <1>1
<1>3. LinksSound'
  <2> SUFFICES ASSUME NEW m \in Key, ports'[m] # None, ports'[m].link # None
               PROVE  /\ link'[ports'[m].link] \in {None, m}
                      /\ \A q \in Key : ports'[q] # None /\ ports'[q].link = ports'[m].link => q = m
    BY DEF LinksSound
  <2>1. ports[m] # None /\ ports'[m] = ports[m] /\ ports[m].link \in Link
    BY <1>2, PortFields
  <2> QED
    BY <1>2, <2>1 DEF LinksSound
<1>4. NoOrphan'
  <2> SUFFICES ASSUME NEW l \in Link, link'[l] # None
               PROVE  \E m \in Key : ports'[m] # None /\ ports'[m].link = l
    BY DEF NoOrphan
  <2>1. PICK m \in Key : ports[m] # None /\ ports[m].link = l
    BY DEF NoOrphan
  <2>2. m # k
    BY <2>1, ManagerAssumption
  <2> QED
    BY <1>1, <2>1, <2>2
<1> QED
  BY <1>1, <1>3, <1>4

\* New references change no transport.
LEMMA RefsKeep ==
    ASSUME TypeOK, LinksSound, NoOrphan, NEW k \in Key, ports[k] # None, NEW r \in SUBSET Name,
           ports' = [ports EXCEPT ![k].refs = r], link' = link
    PROVE  LinksSound' /\ NoOrphan'
<1>1. \A m \in Key : /\ ports'[m] # None <=> ports[m] # None
                     /\ ports[m] # None => ports'[m].link = ports[m].link
  BY RefsSet
<1> QED
  BY <1>1 DEF LinksSound, NoOrphan

LEMMA AfterKinds ==
    ASSUME NEW op \in {"add", "remove", "close"}, After(op)
    PROVE  /\ act' \in Acts /\ (act'.op = "none" <=> act'.stage = "none")
           /\ act' = NoAct \/ (act'.stage = "next" /\ act'.op = "close")
           /\ act'.stage \in {"none", "next"} /\ (act'.stage = "next" => act'.op = "close")
  BY DEF After, NoAct, Acts

LEMMA BeginKinds ==
    ASSUME NEW op \in {"add", "remove", "close"}, NEW stage \in {"open", "identify", "teardown"},
           NEW n \in Name, NEW k \in Key, Begin(op, stage, n, k)
    PROVE  /\ act' \in Acts /\ act'.op = op /\ act'.stage = stage
           /\ act'.name = n /\ act'.key = k
  BY DEF Begin, Acts

-----------------------------------------------------------------------------
(* Steps.                                                                  *)

LEMMA OldTypes ==
    ASSUME TypeOK
    PROVE  /\ devs \in Seq(Entry) /\ ports \in [Key -> PortEntry \union {None}]
           /\ link \in [Link -> Path \union {None}] /\ closed \in BOOLEAN
           /\ act \in Acts /\ disp \in Dispatches
  BY DEF TypeOK

LEMMA AddDeviceKeeps ==
    ASSUME ManagerInv, NEW n \in Name, AddDevice(n)
    PROVE  ManagerInv'
<1>1. TypeOK /\ NamedOnce /\ act = NoAct /\ ~closed
  BY DEF ManagerInv, AddDevice, MayMutate
<1> DEFINE e == [name |-> n, key |-> None, link |-> None]
<1>2. e \in Entry /\ e.name = n
  BY DEF Entry
<1>3. devs' \in Seq(Entry) /\ Entries' = Entries \union {e} /\ NamedOnce'
  BY <1>1, <1>2, AppendEntries DEF AddDevice
<1> HIDE DEF e
<1>4. TypeOK'
  BY <1>1, <1>3 DEF TypeOK, AddDevice
<1>5. ActSound' /\ ClosedReleases'
  BY <1>1 DEF AddDevice, ActSound, ClosedReleases, NoAct
<1>6. RefsSound'
  BY <1>3 DEF ManagerInv, RefsSound, AddDevice, InUse, Usable
<1> QED
  BY <1>3, <1>4, <1>5, <1>6 DEF ManagerInv, AddDevice, LinksSound, NoOrphan

LEMMA AddPathKeeps ==
    ASSUME ManagerInv, NEW n \in Name, NEW p \in Path, AddPath(n, p)
    PROVE  ManagerInv'
<1>1. TypeOK /\ act = NoAct /\ ~closed /\ n \notin Names
  BY DEF ManagerInv, AddPath, MayMutate
<1> DEFINE k == KeyOf(p)
           st == IF ports[k] = None THEN "open" ELSE "identify"
<1>2. k \in Key /\ k \in Path /\ RealPath[k] = k
  BY ManagerAssumption DEF KeyOf, Key
<1>3. Begin("add", st, n, k) /\ UNCHANGED <<devs, ports, link, closed, disp>>
  BY DEF AddPath
<1>4. /\ act' \in Acts /\ act'.op = "add" /\ act'.stage = st
      /\ act'.name = n /\ act'.key = k
  BY <1>2, <1>3, BeginKinds
<1>5. st \in {"open", "identify"} /\ (st = "open" <=> ports[k] = None)
  OBVIOUS
<1> HIDE DEF k, st
<1>6. TypeOK'
  BY <1>1, <1>3, <1>4, <1>5 DEF TypeOK
<1>7. ActSound'
  BY <1>1, <1>2, <1>3, <1>4, <1>5 DEF ActSound, Names, Entries
<1>8. RefsSound'
  BY <1>1, <1>3 DEF ManagerInv, RefsSound, InUse, Usable, Entries, NoAct
<1> QED
  BY <1>1, <1>3, <1>6, <1>7, <1>8 DEF ManagerInv, NamedOnce, LinksSound, NoOrphan, ClosedReleases

LEMMA AddGivenKeeps ==
    ASSUME ManagerInv, NEW n \in Name, NEW g \in Given, AddGiven(n, g)
    PROVE  ManagerInv'
<1>1. TypeOK /\ act = NoAct /\ ~closed /\ n \notin Names /\ g \in Key
  BY DEF ManagerInv, AddGiven, MayMutate, Key
<1> DEFINE e == [link |-> None, refs |-> {}]
<1>2. e \in PortEntry /\ e # None /\ e.link = None /\ e.refs = {}
  BY NoneIsNoEntry DEF PortEntry
<1>3. /\ act' \in Acts /\ act'.op = "add" /\ act'.stage = "identify"
      /\ act'.name = n /\ act'.key = g
  BY <1>1, BeginKinds DEF AddGiven
<1>4. UNCHANGED <<devs, link, closed, disp>>
  BY DEF AddGiven
<1>5. /\ ports' \in [Key -> PortEntry \union {None}] /\ ports'[g] # None
      /\ \A k \in Key : ports'[k] = ports[k] \/ (k = g /\ ports[g] = None /\ ports'[g] = e)
  BY <1>1, <1>2, PortSet DEF AddGiven, TypeOK
<1> HIDE DEF e
<1>6. TypeOK'
  BY <1>1, <1>3, <1>4, <1>5 DEF TypeOK
<1>7. ActSound'
  BY <1>1, <1>3, <1>4 DEF ActSound, Names, Entries
<1>8. LinksSound'
  BY <1>2, <1>4, <1>5 DEF ManagerInv, LinksSound
<1>9. NoOrphan'
  <2> SUFFICES ASSUME NEW l \in Link, link'[l] # None
               PROVE  \E k \in Key : ports'[k] # None /\ ports'[k].link = l
    BY DEF NoOrphan
  <2>1. PICK k \in Key : ports[k] # None /\ ports[k].link = l
    BY <1>4 DEF ManagerInv, NoOrphan
  <2> QED
    BY <1>5, <2>1
<1>10. RefsSound'
  BY <1>1, <1>2, <1>4, <1>5 DEF ManagerInv, RefsSound, InUse, Usable, Entries, NoAct
<1> QED
  BY <1>1, <1>4, <1>6, <1>7, <1>8, <1>9, <1>10 DEF ManagerInv, NamedOnce, ClosedReleases

LEMMA OpenTransportKeeps ==
    ASSUME ManagerInv, NEW l \in Link, OpenTransport(l)
    PROVE  ManagerInv'
<1> DEFINE k == act.key
           e == [link |-> l, refs |-> {}]
<1>1. /\ TypeOK /\ act.stage = "open" /\ act.name \in Name /\ act.name \notin Names
      /\ k \in Key /\ k \in Path /\ RealPath[k] = k /\ ports[k] = None
      /\ ~closed /\ l # None /\ k # None
  BY ManagerAssumption DEF ManagerInv, ActSound, OpenTransport, NoAct, Key
<1>2. e \in PortEntry /\ e # None /\ e.link = l /\ e.refs = {}
  BY NoneIsNoEntry DEF PortEntry
<1>3. /\ ports' \in [Key -> PortEntry \union {None}]
      /\ ports'[k] = e /\ \A m \in Key \ {k} : ports'[m] = ports[m]
  BY <1>1, <1>2, PortSet DEF OpenTransport
<1>4. /\ link' \in [Link -> Path \union {None}] /\ link'[l] = k
      /\ \A m \in Link \ {l} : link'[m] = link[m]
  BY <1>1 DEF OpenTransport, TypeOK
<1>5. /\ act' \in Acts /\ act'.stage = "identify" /\ act'.op = act.op
      /\ act'.name = act.name /\ act'.key = k
  BY <1>1 DEF OpenTransport, TypeOK, Acts
<1>6. \A m \in Key : ports[m] # None => ports[m].link # l
  BY DEF OpenTransport, Unused
<1>7. UNCHANGED <<devs, closed, disp>>
  BY DEF OpenTransport
<1> HIDE DEF k, e
<1>8. TypeOK'
  BY <1>1, <1>2, <1>3, <1>4, <1>5, <1>7 DEF TypeOK
<1>9. ActSound'
  BY <1>1, <1>5, <1>7 DEF ActSound, Names, Entries
<1>10. LinksSound'
  <2> SUFFICES ASSUME NEW m \in Key, ports'[m] # None, ports'[m].link # None
               PROVE  /\ link'[ports'[m].link] \in {None, m}
                      /\ \A q \in Key : ports'[q] # None /\ ports'[q].link = ports'[m].link => q = m
    BY DEF LinksSound
  <2>1. CASE m = k
    BY <2>1, <1>2, <1>3, <1>4, <1>6
  <2>2. CASE m # k
    <3>1. ports'[m] = ports[m] /\ ports[m].link \in Link \ {l}
      BY <2>2, <1>1, <1>3, <1>6, PortFields
    <3> QED
      BY <2>2, <3>1, <1>2, <1>3, <1>4 DEF ManagerInv, LinksSound
  <2> QED
    BY <2>1, <2>2
<1>11. NoOrphan'
  <2> SUFFICES ASSUME NEW m \in Link, link'[m] # None
               PROVE  \E q \in Key : ports'[q] # None /\ ports'[q].link = m
    BY DEF NoOrphan
  <2>1. CASE m = l
    BY <2>1, <1>1, <1>2, <1>3
  <2>2. CASE m # l
    <3>1. PICK q \in Key : ports[q] # None /\ ports[q].link = m
      BY <2>2, <1>4 DEF ManagerInv, NoOrphan
    <3> QED
      BY <3>1, <1>1, <1>3
  <2> QED
    BY <2>1, <2>2
<1>12. RefsSound'
  <2> SUFFICES ASSUME NEW m \in Key, ports'[m] # None
               PROVE  /\ \A n \in ports'[m].refs : \E d \in Entries : d.name = n /\ d.key = m
                      /\ InUse(m)' => ports'[m].refs # {} \/ m = k
    BY <1>5, <1>7 DEF RefsSound, Entries
  <2>1. CASE m = k
    BY <2>1, <1>2, <1>3
  <2>2. CASE m # k
    <3>1. ports'[m] = ports[m] /\ ports[m] # None /\ ports[m].link \in {None} \union (Link \ {l})
      BY <2>2, <1>1, <1>3, <1>6, PortFields
    <3>2. InUse(m)' <=> InUse(m)
      BY <3>1, <1>4 DEF InUse, Usable
    <3> QED
      BY <2>2, <3>1, <3>2, <1>1 DEF ManagerInv, RefsSound
  <2> QED
    BY <2>1, <2>2
<1> QED
  BY <1>1, <1>7, <1>8, <1>9, <1>10, <1>11, <1>12 DEF ManagerInv, NamedOnce, ClosedReleases

LEMMA OpenFailsKeeps ==
    ASSUME ManagerInv, OpenFails
    PROVE  ManagerInv'
<1>1. /\ TypeOK /\ act.stage = "open" /\ ~closed /\ act' = NoAct
      /\ UNCHANGED <<devs, ports, link, closed, disp>>
  BY DEF ManagerInv, ActSound, OpenFails, NoAct
<1>2. TypeOK'
  BY <1>1 DEF TypeOK, Acts, NoAct
<1>3. ActSound' /\ ClosedReleases'
  BY <1>1 DEF ActSound, ClosedReleases, NoAct
<1>4. RefsSound'
  BY <1>1 DEF ManagerInv, RefsSound, InUse, Usable, Entries
<1> QED
  BY <1>1, <1>2, <1>3, <1>4 DEF ManagerInv, NamedOnce, LinksSound, NoOrphan

LEMMA IdentifiedKeeps ==
    ASSUME ManagerInv, Identified
    PROVE  ManagerInv'
<1> DEFINE k == act.key
           n == act.name
           r == ports[k].refs \union {n}
           e == [name |-> n, key |-> k, link |-> ports[k].link]
<1>1. /\ TypeOK /\ act.stage = "identify" /\ ~closed /\ ports[k] # None
      /\ k \in Key /\ n \in Name /\ n \notin Names
  BY DEF ManagerInv, ActSound, TypeOK, Identified, NoAct
<1>2. r \in SUBSET Name /\ e \in Entry /\ e.name = n /\ e.key = k
  BY <1>1, PortFields DEF Entry
<1>3. devs' \in Seq(Entry) /\ Entries' = Entries \union {e} /\ NamedOnce'
  BY <1>1, <1>2, AppendEntries DEF ManagerInv, Identified, Register
<1>4. ports' = [ports EXCEPT ![k].refs = r]
  BY DEF Identified, Register
<1>5. act' = NoAct /\ UNCHANGED <<link, closed, disp>>
  BY DEF Identified
<1> HIDE DEF e, r
<1>6. /\ ports' \in [Key -> PortEntry \union {None}]
      /\ ports'[k] # None /\ ports'[k].link = ports[k].link /\ ports'[k].refs = r
      /\ \A m \in Key \ {k} : ports'[m] = ports[m]
  BY <1>1, <1>2, <1>4, RefsSet
<1>7. LinksSound' /\ NoOrphan'
  BY <1>1, <1>2, <1>4, <1>5, RefsKeep DEF ManagerInv
<1> HIDE DEF k, n
<1>8. TypeOK'
  BY <1>1, <1>3, <1>5, <1>6 DEF TypeOK, Acts, NoAct
<1>9. ActSound' /\ ClosedReleases'
  BY <1>1, <1>5 DEF ActSound, ClosedReleases, NoAct
<1>10. RefsSound'
  <2> SUFFICES ASSUME NEW m \in Key, ports'[m] # None
               PROVE  /\ \A q \in ports'[m].refs : \E d \in Entries' : d.name = q /\ d.key = m
                      /\ InUse(m)' => ports'[m].refs # {}
    BY DEF RefsSound
  <2>1. CASE m = k
    BY <2>1, <1>1, <1>2, <1>3, <1>6 DEF ManagerInv, RefsSound, r
  <2>2. CASE m # k
    <3>1. ports'[m] = ports[m] /\ ports[m] # None /\ act.key # m
      BY <2>2, <1>6 DEF k
    <3>2. /\ \A q \in ports[m].refs : \E d \in Entries : d.name = q /\ d.key = m
          /\ InUse(m) => ports[m].refs # {}
      BY <1>1, <3>1 DEF ManagerInv, RefsSound
    <3>3. InUse(m)' <=> InUse(m)
      BY <1>5, <3>1 DEF InUse, Usable
    <3> QED
      BY <1>3, <3>1, <3>2, <3>3
  <2> QED
    BY <2>1, <2>2
<1> QED
  BY <1>3, <1>7, <1>8, <1>9, <1>10 DEF ManagerInv

\* An add that fails takes its port with it, whoever else is on it: their references go
\* with the entry, and nothing stays open.
LEMMA IdentifyFailsKeeps ==
    ASSUME ManagerInv, IdentifyFails
    PROVE  ManagerInv'
<1> DEFINE k == act.key
           n == act.name
<1>1. /\ TypeOK /\ act.stage = "identify" /\ ~closed /\ ports[k] # None
      /\ k \in Key /\ n \in Name /\ n \notin Names
  BY DEF ManagerInv, ActSound, TypeOK, IdentifyFails, NoAct
<1>2. DropPort("add", n, k) /\ UNCHANGED <<devs, link, closed, disp>>
  BY DEF IdentifyFails
<1>3. ports[k].link \in Link \union {None}
  BY <1>1, PortFields
<1> HIDE DEF k, n
<1>4. CASE /\ ports[k].link # None /\ link[ports[k].link] # None
           /\ Begin("add", "teardown", n, k) /\ UNCHANGED ports
  <2>1. /\ act' \in Acts /\ act'.op = "add" /\ act'.stage = "teardown"
        /\ act'.name = n /\ act'.key = k
    BY <1>1, <1>4, BeginKinds
  <2>2. TypeOK'
    BY <1>1, <1>2, <1>4, <2>1 DEF TypeOK
  <2>3. ActSound'
    BY <1>1, <1>2, <1>4, <2>1 DEF ActSound
  <2>4. RefsSound'
    BY <1>1, <1>2, <1>4, <2>1 DEF ManagerInv, RefsSound, InUse, Usable, Entries, k
  <2> QED
    BY <1>1, <1>2, <1>4, <2>2, <2>3, <2>4
    DEF ManagerInv, NamedOnce, LinksSound, NoOrphan, ClosedReleases
<1>5. CASE /\ ports[k].link = None \/ ~Usable(ports[k].link)
           /\ ports' = [ports EXCEPT ![k] = None] /\ After("add")
  <2>1. act' = NoAct /\ act' \in Acts
    BY <1>5, AfterKinds DEF After
  <2>2. /\ ports' \in [Key -> PortEntry \union {None}]
        /\ ports'[k] = None /\ \A m \in Key \ {k} : ports'[m] = ports[m]
        /\ LinksSound' /\ NoOrphan'
    BY <1>1, <1>2, <1>3, <1>5, DropKeeps DEF ManagerInv, Usable
  <2>3. TypeOK'
    BY <1>1, <1>2, <2>1, <2>2 DEF TypeOK, NoAct
  <2>4. ActSound' /\ ClosedReleases'
    BY <1>1, <1>2, <2>1 DEF ActSound, ClosedReleases, NoAct
  <2>5. RefsSound'
    BY <1>1, <1>2, <2>1, <2>2 DEF ManagerInv, RefsSound, InUse, Usable, Entries, k
  <2> QED
    BY <1>2, <2>2, <2>3, <2>4, <2>5 DEF ManagerInv, NamedOnce
<1> QED
  BY <1>2, <1>4, <1>5 DEF DropPort

\* remove and close take a device off the registry and its name off its port.
LEMMA UnlistKeeps ==
    ASSUME ManagerInv, NEW op \in {"remove", "close"}, act.stage \in {"none", "next"}, ~closed,
           NEW i \in DOMAIN devs, devs' = RemoveAt(devs, i), Unref(op, devs[i]),
           UNCHANGED <<link, closed, disp>>
    PROVE  ManagerInv'
<1> DEFINE d == devs[i]
           k == d.key
<1>1. TypeOK /\ NamedOnce /\ LinksSound /\ NoOrphan
  BY DEF ManagerInv
<1>2. d \in Entries /\ d.name \in Name /\ k \in Key \union {None}
  BY <1>1, EntryFields DEF Entries
<1>3. devs' \in Seq(Entry) /\ Entries' = Entries \ {d} /\ NamedOnce'
  BY <1>1, RemoveEntries
<1>4. \A m \in Key : ports[m] # None =>
          /\ \A n \in ports[m].refs : \E e \in Entries : e.name = n /\ e.key = m
          /\ InUse(m) => ports[m].refs # {}
  BY DEF ManagerInv, RefsSound
<1>5. \A m \in Key : m # None
  BY ManagerAssumption DEF Key
<1>6. ASSUME NEW m \in Key, ports[m] # None, m # k, ports'[m] = ports[m]
      PROVE  /\ \A n \in ports'[m].refs : \E e \in Entries' : e.name = n /\ e.key = m
             /\ InUse(m)' => ports'[m].refs # {}
  <2>1. InUse(m)' <=> InUse(m)
    BY <1>6 DEF InUse, Usable
  <2> QED
    BY <1>3, <1>4, <1>6, <2>1
<1>7. After(op) => /\ act' \in Acts /\ (act'.op = "none" <=> act'.stage = "none")
                   /\ act' = NoAct \/ (act'.stage = "next" /\ act'.op = "close")
                   /\ act'.stage \in {"none", "next"} /\ (act'.stage = "next" => act'.op = "close")
  BY AfterKinds
<1>8. ASSUME After(op) PROVE ActSound' /\ ClosedReleases'
  BY <1>7, <1>8 DEF ActSound, ClosedReleases
<1>9. ASSUME After(op), ports' \in [Key -> PortEntry \union {None}] PROVE TypeOK'
  BY <1>1, <1>3, <1>7, <1>9 DEF TypeOK
<1> HIDE DEF d, k
<1>10. CASE /\ k = None \/ (k # None /\ ports[k] = None)
            /\ UNCHANGED ports /\ After(op)
  <2>1. RefsSound'
    BY <1>5, <1>6, <1>10 DEF RefsSound
  <2> QED
    BY <1>1, <1>3, <1>8, <1>9, <1>10, <2>1 DEF ManagerInv, LinksSound, NoOrphan, TypeOK
<1>11. CASE /\ k # None /\ ports[k] # None /\ ports[k].refs \ {d.name} # {}
            /\ ports' = [ports EXCEPT ![k].refs = @ \ {d.name}] /\ After(op)
  <2> DEFINE r == ports[k].refs \ {d.name}
  <2>1. k \in Key /\ r \in SUBSET Name /\ r # {}
    BY <1>1, <1>2, <1>11, PortFields
  <2>2. ports' = [ports EXCEPT ![k].refs = r]
    BY <1>11
  <2>3. \A n \in r : n \in ports[k].refs /\ n # d.name
    OBVIOUS
  <2> HIDE DEF r
  <2>4. /\ ports' \in [Key -> PortEntry \union {None}]
        /\ ports'[k] # None /\ ports'[k].refs = r
        /\ \A m \in Key \ {k} : ports'[m] = ports[m]
    BY <1>1, <1>11, <2>1, <2>2, RefsSet
  <2>5. LinksSound' /\ NoOrphan'
    BY <1>1, <1>11, <2>1, <2>2, RefsKeep
  <2>6. \A n \in ports'[k].refs : \E e \in Entries' : e.name = n /\ e.key = k
    BY <1>3, <1>4, <1>11, <2>1, <2>3, <2>4
  <2>7. RefsSound'
    BY <1>6, <2>1, <2>4, <2>6 DEF RefsSound
  <2> QED
    BY <1>3, <1>8, <1>9, <1>11, <2>4, <2>5, <2>7 DEF ManagerInv
<1>12. CASE /\ k # None /\ ports[k] # None /\ ports[k].refs \subseteq {d.name}
            /\ ports[k].link # None /\ link[ports[k].link] # None
            /\ Begin(op, "teardown", d.name, k) /\ UNCHANGED ports
  <2>1. /\ act' \in Acts /\ act'.op = op /\ act'.stage = "teardown"
        /\ act'.name = d.name /\ act'.key = k /\ k \in Key
    BY <1>2, <1>12, BeginKinds
  <2>2. TypeOK'
    BY <1>1, <1>3, <1>12, <2>1 DEF TypeOK
  <2>3. ActSound' /\ ClosedReleases'
    BY <1>2, <1>12, <2>1 DEF ActSound, ClosedReleases
  <2>4. \A n \in ports'[k].refs : act'.stage = "teardown" /\ act'.op # "add"
                                  /\ act'.key = k /\ act'.name = n
    BY <1>12, <2>1
  <2>5. RefsSound'
    BY <1>6, <1>12, <2>1, <2>4 DEF RefsSound
  <2> QED
    BY <1>1, <1>3, <1>12, <2>2, <2>3, <2>5 DEF ManagerInv, LinksSound, NoOrphan
<1>13. CASE /\ k # None /\ ports[k] # None
            /\ ports[k].link = None \/ ~Usable(ports[k].link)
            /\ ports' = [ports EXCEPT ![k] = None] /\ After(op)
  <2>1. k \in Key /\ ports[k].link \in Link \union {None}
    BY <1>1, <1>2, <1>13, PortFields
  <2>2. /\ ports' \in [Key -> PortEntry \union {None}]
        /\ ports'[k] = None /\ \A m \in Key \ {k} : ports'[m] = ports[m]
        /\ LinksSound' /\ NoOrphan'
    BY <1>1, <1>13, <2>1, DropKeeps DEF Usable
  <2>3. RefsSound'
    BY <1>6, <2>2 DEF RefsSound
  <2> QED
    BY <1>3, <1>8, <1>9, <1>13, <2>2, <2>3 DEF ManagerInv
<1> QED
  BY <1>10, <1>11, <1>12, <1>13 DEF Unref, DropPort, d, k

LEMMA RemoveDeviceKeeps ==
    ASSUME ManagerInv, NEW n \in Name, RemoveDevice(n)
    PROVE  ManagerInv'
<1>1. PICK i \in DOMAIN devs : devs' = RemoveAt(devs, i) /\ Unref("remove", devs[i])
  BY DEF RemoveDevice
<1>2. act.stage = "none" /\ ~closed /\ UNCHANGED <<link, closed, disp>>
  BY DEF RemoveDevice, MayMutate, NoAct
<1> QED
  BY <1>1, <1>2, UnlistKeeps

LEMMA CloseNextKeeps ==
    ASSUME ManagerInv, CloseNext
    PROVE  ManagerInv'
<1>1. TypeOK /\ act.stage = "next" /\ ~closed /\ devs # << >>
      /\ UNCHANGED <<link, closed, disp>>
  BY DEF ManagerInv, ActSound, CloseNext, NoAct
<1>2. /\ Len(devs) \in DOMAIN devs
      /\ devs' = RemoveAt(devs, Len(devs)) /\ Unref("close", devs[Len(devs)])
  BY <1>1, FrontEntries DEF CloseNext
<1> QED
  BY <1>1, <1>2, UnlistKeeps

LEMMA CloseKeeps ==
    ASSUME ManagerInv, Close
    PROVE  ManagerInv'
<1>1. TypeOK /\ act = NoAct /\ ~closed /\ UNCHANGED <<devs, ports, link, closed, disp>>
  BY DEF ManagerInv, Close, MayMutate
<1>2. act' \in Acts /\ act'.stage = "next" /\ act'.op = "close"
  BY DEF Close, After, NoAct, Acts
<1>3. TypeOK'
  BY <1>1, <1>2 DEF TypeOK
<1>4. ActSound' /\ ClosedReleases'
  BY <1>1, <1>2 DEF ActSound, ClosedReleases
<1>5. RefsSound'
  BY <1>1, <1>2 DEF ManagerInv, RefsSound, InUse, Usable, Entries, NoAct
<1> QED
  BY <1>1, <1>3, <1>4, <1>5 DEF ManagerInv, NamedOnce, LinksSound, NoOrphan

\* With no device left, no entry has a reference, and nothing without one is open.
LEMMA CloseDoneKeeps ==
    ASSUME ManagerInv, CloseDone
    PROVE  ManagerInv'
<1>1. /\ TypeOK /\ act.stage = "next" /\ devs = << >> /\ closed' = TRUE /\ act' = NoAct
      /\ UNCHANGED <<devs, ports, link, disp>>
  BY DEF ManagerInv, CloseDone
<1>2. Entries = {}
  <2>1. DOMAIN devs = 1..0
    BY <1>1
  <2> QED
    BY <2>1 DEF Entries
<1>3. ASSUME NEW l \in Link, link[l] # None PROVE FALSE
  <2>1. PICK k \in Key : ports[k] # None /\ ports[k].link = l
    BY <1>3 DEF ManagerInv, NoOrphan
  <2>2. InUse(k)
    BY <1>3, <2>1, ManagerAssumption DEF InUse, Usable
  <2> QED
    BY <1>1, <1>2, <2>1, <2>2 DEF ManagerInv, RefsSound
<1>4. TypeOK'
  BY <1>1 DEF TypeOK, NoAct, Acts
<1>5. ActSound' /\ ClosedReleases'
  BY <1>1, <1>3 DEF ActSound, ClosedReleases, NoAct
<1>6. RefsSound'
  BY <1>1 DEF ManagerInv, RefsSound, InUse, Usable, Entries
<1> QED
  BY <1>1, <1>4, <1>5, <1>6 DEF ManagerInv, NamedOnce, LinksSound, NoOrphan

\* What a teardown has closed, returned or cancelled.
LEMMA Closing ==
    ASSUME ManagerInv, act.stage = "teardown",
           link' = [link EXCEPT ![ports[act.key].link] = None]
    PROVE  /\ act.key \in Key /\ ports[act.key] # None /\ ~closed
           /\ ports[act.key].link \in Link /\ link'[ports[act.key].link] = None
           /\ link' \in [Link -> Path \union {None}]
           /\ \A l \in Link \ {ports[act.key].link} : link'[l] = link[l]
           /\ act.op \in {"add", "remove", "close"} /\ act.name \in Name
           /\ \A m \in Key \ {act.key} : ports[m] # None =>
                /\ ports[m].link # ports[act.key].link
                /\ \A n \in ports[m].refs : \E d \in Entries : d.name = n /\ d.key = m
                /\ InUse(m) => ports[m].refs # {}
<1>1. TypeOK /\ act.key \in Key /\ ports[act.key] # None /\ act.name \in Name
      /\ act.op \in {"add", "remove", "close"} /\ ~closed
      /\ ports[act.key].link # None
  BY DEF ManagerInv, ActSound, TypeOK, Acts, NoAct
<1>2. ports[act.key].link \in Link
  BY <1>1, PortFields
<1>3. \A m \in Key \ {act.key} : ports[m] # None =>
         /\ ports[m].link # ports[act.key].link
         /\ \A n \in ports[m].refs : \E d \in Entries : d.name = n /\ d.key = m
         /\ InUse(m) => ports[m].refs # {}
  BY <1>1 DEF ManagerInv, LinksSound, RefsSound
<1> QED
  BY <1>1, <1>2, <1>3 DEF TypeOK

LEMMA TornDownKeeps ==
    ASSUME ManagerInv, TornDown
    PROVE  ManagerInv'
<1> DEFINE k == act.key
<1>1. /\ TypeOK /\ act.stage = "teardown" /\ link' = [link EXCEPT ![ports[k].link] = None]
      /\ ports' = [ports EXCEPT ![k] = None] /\ After(act.op)
      /\ UNCHANGED <<devs, closed, disp>>
  BY DEF ManagerInv, TornDown
<1>2. /\ k \in Key /\ ports[k] # None /\ ~closed
      /\ ports[k].link \in Link /\ link'[ports[k].link] = None
      /\ link' \in [Link -> Path \union {None}]
      /\ \A l \in Link \ {ports[k].link} : link'[l] = link[l]
      /\ act.op \in {"add", "remove", "close"}
      /\ \A m \in Key \ {k} : ports[m] # None =>
           /\ ports[m].link # ports[k].link
           /\ \A n \in ports[m].refs : \E d \in Entries : d.name = n /\ d.key = m
           /\ InUse(m) => ports[m].refs # {}
  BY <1>1, Closing
<1> HIDE DEF k
<1>3. /\ ports' \in [Key -> PortEntry \union {None}]
      /\ ports'[k] = None /\ \A m \in Key \ {k} : ports'[m] = ports[m]
      /\ LinksSound' /\ NoOrphan'
  BY <1>1, <1>2, DropKeeps DEF ManagerInv
<1>4. /\ act' \in Acts /\ (act'.op = "none" <=> act'.stage = "none")
      /\ act' = NoAct \/ (act'.stage = "next" /\ act'.op = "close")
      /\ act'.stage \in {"none", "next"} /\ (act'.stage = "next" => act'.op = "close")
  BY <1>1, <1>2, AfterKinds
<1>5. TypeOK'
  BY <1>1, <1>2, <1>3, <1>4 DEF TypeOK
<1>6. ActSound' /\ ClosedReleases'
  BY <1>1, <1>2, <1>4 DEF ActSound, ClosedReleases
<1>7. ASSUME NEW m \in Key, ports'[m] # None
      PROVE  /\ \A n \in ports'[m].refs : \E d \in Entries' : d.name = n /\ d.key = m
             /\ InUse(m)' => ports'[m].refs # {}
  <2>1. m # k /\ ports'[m] = ports[m] /\ ports[m] # None
    BY <1>3, <1>7
  <2>2. InUse(m)' => InUse(m)
    BY <1>1, <1>2, <2>1, PortFields DEF InUse, Usable
  <2> QED
    BY <1>1, <1>2, <2>1, <2>2 DEF Entries
<1>8. RefsSound'
  BY <1>7 DEF RefsSound
<1> QED
  BY <1>1, <1>3, <1>5, <1>6, <1>8 DEF ManagerInv, NamedOnce

LEMMA TeardownCancelledKeeps ==
    ASSUME ManagerInv, TeardownCancelled
    PROVE  ManagerInv'
<1> DEFINE k == act.key
           r == ports[k].refs \ (IF act.op = "add" THEN {} ELSE {act.name})
<1>1. /\ TypeOK /\ act.stage = "teardown" /\ link' = [link EXCEPT ![ports[k].link] = None]
      /\ ports' = [ports EXCEPT ![k].refs = r] /\ act' = NoAct
      /\ UNCHANGED <<devs, closed, disp>>
  BY DEF ManagerInv, TeardownCancelled
<1>2. /\ k \in Key /\ ports[k] # None /\ ~closed
      /\ ports[k].link \in Link /\ link'[ports[k].link] = None
      /\ link' \in [Link -> Path \union {None}]
      /\ \A l \in Link \ {ports[k].link} : link'[l] = link[l]
      /\ \A m \in Key \ {k} : ports[m] # None =>
           /\ ports[m].link # ports[k].link
           /\ \A n \in ports[m].refs : \E d \in Entries : d.name = n /\ d.key = m
           /\ InUse(m) => ports[m].refs # {}
  BY <1>1, Closing
<1>3. r \in SUBSET Name
  BY <1>1, <1>2, PortFields
<1>4. \A n \in r : \E d \in Entries : d.name = n /\ d.key = k
  BY <1>2 DEF ManagerInv, RefsSound
<1> HIDE DEF k, r
<1>5. /\ ports' \in [Key -> PortEntry \union {None}]
      /\ ports'[k] # None /\ ports'[k].link = ports[k].link /\ ports'[k].refs = r
      /\ \A m \in Key \ {k} : ports'[m] = ports[m]
  BY <1>1, <1>2, <1>3, RefsSet
<1>6. \A m \in Key : /\ ports'[m] # None <=> ports[m] # None
                     /\ ports[m] # None => ports'[m].link = ports[m].link
                                           /\ ports[m].link \in Link \union {None}
  BY <1>1, <1>2, <1>5, PortFields
<1>7. LinksSound'
  <2> SUFFICES ASSUME NEW m \in Key, ports'[m] # None, ports'[m].link # None
               PROVE  /\ link'[ports'[m].link] \in {None, m}
                      /\ \A q \in Key : ports'[q] # None /\ ports'[q].link = ports'[m].link => q = m
    BY DEF LinksSound
  <2>1. ports[m] # None /\ ports'[m].link = ports[m].link /\ ports[m].link \in Link
    BY <1>6
  <2> QED
    BY <1>2, <1>6, <2>1 DEF ManagerInv, LinksSound
<1>8. NoOrphan'
  BY <1>2, <1>6 DEF ManagerInv, NoOrphan
<1>9. TypeOK'
  BY <1>1, <1>2, <1>5 DEF TypeOK, NoAct, Acts
<1>10. ActSound' /\ ClosedReleases'
  BY <1>1, <1>2 DEF ActSound, ClosedReleases, NoAct
<1>11. ASSUME NEW m \in Key, ports'[m] # None
       PROVE  /\ \A n \in ports'[m].refs : \E d \in Entries' : d.name = n /\ d.key = m
              /\ InUse(m)' => ports'[m].refs # {}
  <2>1. Entries' = Entries
    BY <1>1 DEF Entries
  <2>2. CASE m = k
    BY <2>1, <2>2, <1>2, <1>4, <1>5, ManagerAssumption DEF InUse, Usable
  <2>3. CASE m # k
    <3>1. ports'[m] = ports[m] /\ ports[m] # None
      BY <2>3, <1>5, <1>11
    <3>2. InUse(m)' => InUse(m)
      BY <1>1, <1>2, <2>3, <3>1, PortFields DEF InUse, Usable
    <3> QED
      BY <1>2, <2>1, <2>3, <3>1, <3>2
  <2> QED
    BY <2>2, <2>3
<1>12. RefsSound'
  BY <1>11 DEF RefsSound
<1> QED
  BY <1>1, <1>7, <1>8, <1>9, <1>10, <1>12 DEF ManagerInv, NamedOnce

-----------------------------------------------------------------------------
(* Dispatches.                                                             *)

\* Whoever was asked for is still to come, at work, or has a result.
NobodyForgotten == disp.state = "running" => \A n \in disp.asked :
    \/ \E g \in Group : n \in disp.todo[g] \/ disp.doing[g].name = n
    \/ disp.res[n] # "none"

Results == [Name -> {"none", "ok", "error"}]

LEMMA NothingTyped ==
    /\ NoDispatch \in Dispatches
    /\ Nothing \in [name : Name \union {None}, link : Link \union {None}]
    /\ Nothing.name = None
  BY DEF NoDispatch, Dispatches, Nothing

\* What a group does next: everybody keeps what they have, but for the member that goes
\* from the group's list to its hands and the one that left them with a result.
LEMMA ResumeKinds ==
    ASSUME TypeOK, NEW g \in Group, NEW res \in Results, Resume(g, res)
    PROVE  /\ disp' \in Dispatches
           /\ \/ disp'.state = "lost"
              \/ /\ disp'.state = disp.state /\ disp'.asked = disp.asked /\ disp'.res = res
                 /\ \A h \in Group \ {g} :
                      disp'.todo[h] = disp.todo[h] /\ disp'.doing[h] = disp.doing[h]
                 /\ \A n \in disp.todo[g] : n \in disp'.todo[g] \/ disp'.doing[g].name = n
<1>t. disp \in Dispatches /\ devs \in Seq(Entry)
  BY DEF TypeOK
<1>1. CASE disp.todo[g] = {} /\ disp' = [disp EXCEPT !.doing[g] = Nothing, !.res = res]
  <2> DEFINE mid == [disp EXCEPT !.doing[g] = Nothing]
  <2>1. /\ mid \in Dispatches /\ mid.state = disp.state /\ mid.asked = disp.asked
        /\ mid.todo = disp.todo /\ \A h \in Group \ {g} : mid.doing[h] = disp.doing[h]
    BY <1>t, NothingTyped DEF Dispatches
  <2>2. disp' = [mid EXCEPT !.res = res]
    BY <1>1
  <2> HIDE DEF mid
  <2>3. /\ disp' \in Dispatches /\ disp'.state = mid.state /\ disp'.asked = mid.asked
        /\ disp'.todo = mid.todo /\ disp'.doing = mid.doing /\ disp'.res = res
    BY <2>1, <2>2 DEF Dispatches, Results
  <2> QED
    BY <1>1, <2>1, <2>3
<1>2. ASSUME NEW d \in Entries, d.name \in disp.todo[g],
             disp' = [disp EXCEPT !.doing[g] = [name |-> d.name, link |-> d.link],
                                  !.todo[g] = @ \ {d.name}, !.res = res]
      PROVE  /\ disp' \in Dispatches
             /\ disp'.state = disp.state /\ disp'.asked = disp.asked /\ disp'.res = res
             /\ \A h \in Group \ {g} :
                  disp'.todo[h] = disp.todo[h] /\ disp'.doing[h] = disp.doing[h]
             /\ \A n \in disp.todo[g] : n \in disp'.todo[g] \/ disp'.doing[g].name = n
  <2>1. d \in Entry
    BY <1>t, ElementOfSeq, LenProperties DEF Entries
  <2> DEFINE at == [name |-> d.name, link |-> d.link]
             left == disp.todo[g] \ {d.name}
             one == [disp EXCEPT !.doing[g] = at]
             two == [one EXCEPT !.todo[g] = left]
  <2>2. /\ at \in [name : Name \union {None}, link : Link \union {None}] /\ at.name = d.name
        /\ left \in SUBSET Name
    BY <1>t, <2>1 DEF Entry, Dispatches
  <2>3. \A n \in disp.todo[g] : n \in left \/ n = d.name
    OBVIOUS
  <2>4. disp' = [two EXCEPT !.res = res]
    <3>1. one.todo = disp.todo
      BY <1>t DEF Dispatches
    <3> QED
      BY <1>2, <3>1
  <2> HIDE DEF at, left
  <2>5. /\ one \in Dispatches /\ one.state = disp.state /\ one.asked = disp.asked
        /\ one.todo = disp.todo /\ one.doing[g] = at
        /\ \A h \in Group \ {g} : one.doing[h] = disp.doing[h]
    BY <1>t, <2>2 DEF Dispatches
  <2> HIDE DEF one
  <2>6. /\ two \in Dispatches /\ two.state = one.state /\ two.asked = one.asked
        /\ two.doing = one.doing /\ two.todo[g] = left
        /\ \A h \in Group \ {g} : two.todo[h] = one.todo[h]
    BY <2>2, <2>5 DEF Dispatches
  <2> HIDE DEF two
  <2>7. /\ disp' \in Dispatches /\ disp'.state = two.state /\ disp'.asked = two.asked
        /\ disp'.todo = two.todo /\ disp'.doing = two.doing /\ disp'.res = res
    BY <2>4, <2>6 DEF Dispatches, Results
  <2> QED
    BY <2>2, <2>3, <2>5, <2>6, <2>7
<1>3. CASE disp' = [NoDispatch EXCEPT !.state = "lost", !.asked = disp.asked, !.res = res]
  BY <1>t, <1>3, NothingTyped DEF Dispatches, Results
<1> QED
  BY <1>1, <1>2, <1>3 DEF Resume

DispStep ==
    \/ \E g \in Group : StartGroup(g) \/ \E r \in {"ok", "error"} : Answer(g, r)
    \/ Joined
    \/ \E asked \in SUBSET Name : StartDispatch(asked)

LEMMA DispatchKeeps ==
    ASSUME TypeOK, NobodyForgotten, CompleteOrLost, DispStep
    PROVE  disp' \in Dispatches /\ NobodyForgotten' /\ CompleteOrLost'
<1>t. disp \in Dispatches /\ disp.res \in Results /\ None \notin Name
  BY ManagerAssumption DEF TypeOK, Dispatches, Results
<1>1. ASSUME NEW g \in Group, StartGroup(g)
      PROVE  disp' \in Dispatches /\ NobodyForgotten' /\ CompleteOrLost'
  <2>1. disp.state = "running" /\ disp.doing[g] = Nothing /\ Resume(g, disp.res)
    BY <1>1 DEF StartGroup
  <2>2. disp.doing[g].name = None /\ \A n \in disp.asked : n \in Name
    BY <2>1, <1>t, NothingTyped DEF Dispatches
  <2>3. /\ disp' \in Dispatches
        /\ \/ disp'.state = "lost"
           \/ /\ disp'.state = disp.state /\ disp'.asked = disp.asked /\ disp'.res = disp.res
              /\ \A h \in Group \ {g} :
                   disp'.todo[h] = disp.todo[h] /\ disp'.doing[h] = disp.doing[h]
              /\ \A n \in disp.todo[g] : n \in disp'.todo[g] \/ disp'.doing[g].name = n
    BY <2>1, <1>t, ResumeKinds
  <2>4. NobodyForgotten'
    <3> SUFFICES ASSUME disp'.state = "running", NEW n \in disp'.asked
                 PROVE  \/ \E h \in Group : n \in disp'.todo[h] \/ disp'.doing[h].name = n
                        \/ disp'.res[n] # "none"
      BY DEF NobodyForgotten
    <3>1. n \in disp.asked /\ n # None
      BY <2>2, <2>3, <1>t
    <3>2. CASE disp.res[n] # "none"
      BY <3>2, <2>3
    <3>3. ASSUME NEW h \in Group, n \in disp.todo[h] \/ disp.doing[h].name = n
          PROVE  \E q \in Group : n \in disp'.todo[q] \/ disp'.doing[q].name = n
      BY <3>3, <3>1, <2>2, <2>3
    <3> QED
      BY <3>1, <3>2, <3>3, <2>1 DEF NobodyForgotten
  <2> QED
    BY <2>1, <2>3, <2>4 DEF CompleteOrLost
<1>2. ASSUME NEW g \in Group, NEW r \in {"ok", "error"}, Answer(g, r)
      PROVE  disp' \in Dispatches /\ NobodyForgotten' /\ CompleteOrLost'
  <2> DEFINE m == disp.doing[g].name
             res == [disp.res EXCEPT ![m] = r]
  <2>1. disp.state = "running" /\ Resume(g, res)
    BY <1>2 DEF Answer
  <2>2. /\ res \in Results /\ \A n \in Name : n # m => res[n] = disp.res[n]
        /\ m \in Name => res[m] # "none"
    BY <1>t DEF Results
  <2>3. \A n \in disp.asked : n \in Name
    BY <1>t DEF Dispatches
  <2> HIDE DEF res
  <2>4. /\ disp' \in Dispatches
        /\ \/ disp'.state = "lost"
           \/ /\ disp'.state = disp.state /\ disp'.asked = disp.asked /\ disp'.res = res
              /\ \A h \in Group \ {g} :
                   disp'.todo[h] = disp.todo[h] /\ disp'.doing[h] = disp.doing[h]
              /\ \A n \in disp.todo[g] : n \in disp'.todo[g] \/ disp'.doing[g].name = n
    BY <2>1, <2>2, ResumeKinds
  <2>5. NobodyForgotten'
    <3> SUFFICES ASSUME disp'.state = "running", NEW n \in disp'.asked
                 PROVE  \/ \E h \in Group : n \in disp'.todo[h] \/ disp'.doing[h].name = n
                        \/ disp'.res[n] # "none"
      BY DEF NobodyForgotten
    <3>1. n \in disp.asked /\ n \in Name
      BY <2>3, <2>4
    <3>2. CASE n = m \/ disp.res[n] # "none"
      BY <3>1, <3>2, <2>2, <2>4
    <3>3. ASSUME n # m, NEW h \in Group, n \in disp.todo[h] \/ disp.doing[h].name = n
          PROVE  \E q \in Group : n \in disp'.todo[q] \/ disp'.doing[q].name = n
      BY <3>3, <2>4
    <3> QED
      BY <3>1, <3>2, <3>3, <2>1 DEF NobodyForgotten
  <2> QED
    BY <2>1, <2>4, <2>5 DEF CompleteOrLost
<1>3. ASSUME Joined PROVE disp' \in Dispatches /\ NobodyForgotten' /\ CompleteOrLost'
  <2>1. /\ disp.state = "running"
        /\ \A g \in Group : disp.todo[g] = {} /\ disp.doing[g].name = None
                            /\ disp.doing[g] = Nothing
    BY <1>3, NothingTyped DEF Joined
  <2>2. \A n \in disp.asked : disp.res[n] # "none"
    BY <2>1, <1>t DEF NobodyForgotten, Dispatches
  <2>3. /\ disp' \in Dispatches /\ disp'.state \in {"raised", "returned"}
        /\ disp'.asked = disp.asked /\ disp'.res = disp.res /\ disp'.doing = disp.doing
    BY <1>3, <1>t DEF Joined, Dispatches
  <2> QED
    BY <2>1, <2>2, <2>3 DEF NobodyForgotten, CompleteOrLost
<1>4. ASSUME NEW asked \in SUBSET Name, StartDispatch(asked)
      PROVE  disp' \in Dispatches /\ NobodyForgotten' /\ CompleteOrLost'
  <2> DEFINE todo == [g \in Group |->
                 {d.name : d \in {e \in Entries : e.name \in asked /\ GroupOf(e) = g}}]
  <2>1. disp' = [NoDispatch EXCEPT !.state = "running", !.asked = asked, !.todo = todo]
        /\ asked \subseteq Names
    BY <1>4 DEF StartDispatch
  <2>2. \A e \in Entries : e \in Entry /\ e.name \in Name
    <3> TAKE e \in Entries
    <3>1. PICK i \in DOMAIN devs : e = devs[i]
      BY DEF Entries
    <3> QED
      BY <3>1, EntryFields DEF ManagerInv
  <2>3. todo \in [Group -> SUBSET Name]
    BY <2>2
  <2>4. \A n \in asked : \E g \in Group : n \in todo[g]
    <3> SUFFICES ASSUME NEW n \in asked PROVE \E g \in Group : n \in todo[g]
      OBVIOUS
    <3>1. PICK e \in Entries : e.name = n
      BY <2>1 DEF Names
    <3>2. GroupOf(e) \in Group
      BY <2>2, <3>1 DEF GroupOf, Group, Entry
    <3> QED
      BY <3>1, <3>2
  <2> HIDE DEF todo
  <2>5. /\ disp' \in Dispatches /\ disp'.state = "running" /\ disp'.asked = asked
        /\ disp'.todo = todo
    BY <2>1, <2>3, NothingTyped DEF Dispatches
  <2> QED
    BY <2>4, <2>5 DEF NobodyForgotten, CompleteOrLost
<1> QED
  BY <1>1, <1>2, <1>3, <1>4 DEF DispStep

LEMMA DispatchQuiet ==
    ASSUME ManagerInv, disp' \in Dispatches, UNCHANGED <<devs, ports, link, closed, act>>
    PROVE  ManagerInv'
<1>1. TypeOK'
  BY DEF ManagerInv, TypeOK
<1>2. ActSound' /\ NamedOnce' /\ LinksSound'
  BY DEF ManagerInv, ActSound, NamedOnce, LinksSound, Names, Entries
<1>3. RefsSound' /\ NoOrphan' /\ ClosedReleases'
  BY DEF ManagerInv, RefsSound, InUse, Usable, Entries, NoOrphan, ClosedReleases
<1> QED
  BY <1>1, <1>2, <1>3 DEF ManagerInv

-----------------------------------------------------------------------------
(* Theorems.                                                               *)

Inv == ManagerInv /\ NobodyForgotten /\ CompleteOrLost

LEMMA InitInv == Init => Inv
<1> SUFFICES ASSUME Init PROVE Inv
  OBVIOUS
<1>1. /\ devs = << >> /\ \A k \in Key : ports[k] = None
      /\ \A l \in Link : link[l] = None /\ closed = FALSE
      /\ act = NoAct /\ disp = NoDispatch
  BY DEF Init
<1>2. TypeOK
  <2>1. devs \in Seq(Entry)
    BY <1>1, EmptySeq
  <2>2. /\ ports \in [Key -> PortEntry \union {None}]
        /\ link \in [Link -> Path \union {None}]
    BY DEF Init
  <2>3. act \in Acts /\ act.op = "none" /\ act.stage = "none"
    BY <1>1 DEF NoAct, Acts
  <2>4. closed \in BOOLEAN /\ disp \in Dispatches
    <3>1. disp = NoDispatch /\ closed = FALSE
      BY DEF Init
    <3>2. disp \in Dispatches
      BY <3>1, NothingTyped
    <3> QED
      BY <3>1, <3>2
  <2>5. /\ act.op = "none" <=> act.stage = "none"
        /\ act.stage \in {"open", "identify"} => act.op = "add"
        /\ act.stage = "next" => act.op = "close"
        /\ act.stage \in {"identify", "teardown"} => ports[act.key] # None
    BY <2>3
  <2> QED
    BY <2>1, <2>2, <2>3, <2>4, <2>5 DEF TypeOK
<1>3. ActSound /\ LinksSound /\ RefsSound /\ NoOrphan
  BY <1>1 DEF Init, ActSound, LinksSound, RefsSound, NoOrphan, NoAct
<1>4. NamedOnce /\ ClosedReleases
  BY <1>1 DEF Init, NamedOnce, ClosedReleases
<1>5. NobodyForgotten /\ CompleteOrLost
  BY <1>1 DEF NobodyForgotten, CompleteOrLost, NoDispatch
<1> QED
  BY <1>2, <1>3, <1>4, <1>5 DEF Inv, ManagerInv

LEMMA InvStep == Inv /\ [Next]_vars => Inv'
<1> SUFFICES ASSUME Inv, [Next]_vars PROVE Inv'
  OBVIOUS
<1>t. ManagerInv /\ TypeOK /\ NobodyForgotten /\ CompleteOrLost /\ disp \in Dispatches
  BY DEF Inv, ManagerInv, TypeOK
<1>1. ASSUME disp' = disp PROVE NobodyForgotten' /\ CompleteOrLost'
  BY <1>1, <1>t DEF NobodyForgotten, CompleteOrLost
<1>2. CASE UNCHANGED vars
  BY <1>1, <1>2, <1>t, DispatchQuiet DEF vars, Inv
<1>3. ASSUME Mutate PROVE ManagerInv' /\ disp' = disp
  <2>1. ASSUME NEW n \in Name, AddDevice(n) \/ RemoveDevice(n) PROVE ManagerInv' /\ disp' = disp
    BY <2>1, <1>t, AddDeviceKeeps, RemoveDeviceKeeps DEF AddDevice, RemoveDevice
  <2>2. ASSUME NEW n \in Name, NEW p \in Path, AddPath(n, p) PROVE ManagerInv' /\ disp' = disp
    BY <2>2, <1>t, AddPathKeeps DEF AddPath
  <2>3. ASSUME NEW n \in Name, NEW g \in Given, AddGiven(n, g) PROVE ManagerInv' /\ disp' = disp
    BY <2>3, <1>t, AddGivenKeeps DEF AddGiven
  <2>4. ASSUME Close PROVE ManagerInv' /\ disp' = disp
    BY <2>4, <1>t, CloseKeeps DEF Close
  <2> QED
    BY <1>3, <2>1, <2>2, <2>3, <2>4 DEF Mutate
<1>4. ASSUME Work PROVE ManagerInv' /\ disp' = disp
  <2>1. ASSUME NEW l \in Link, OpenTransport(l) PROVE ManagerInv' /\ disp' = disp
    BY <2>1, <1>t, OpenTransportKeeps DEF OpenTransport
  <2>2. ASSUME OpenFails \/ Identified \/ IdentifyFails PROVE ManagerInv' /\ disp' = disp
    BY <2>2, <1>t, OpenFailsKeeps, IdentifiedKeeps, IdentifyFailsKeeps
    DEF OpenFails, Identified, IdentifyFails
  <2>3. ASSUME CloseNext \/ CloseDone \/ TornDown \/ TeardownCancelled
        PROVE  ManagerInv' /\ disp' = disp
    BY <2>3, <1>t, CloseNextKeeps, CloseDoneKeeps, TornDownKeeps, TeardownCancelledKeeps
    DEF CloseNext, CloseDone, TornDown, TeardownCancelled
  <2> QED
    BY <1>4, <2>1, <2>2, <2>3 DEF Work
<1>5. ASSUME DispStep PROVE Inv'
  <2>1. disp' \in Dispatches /\ NobodyForgotten' /\ CompleteOrLost'
    BY <1>5, <1>t, DispatchKeeps
  <2>2. UNCHANGED <<devs, ports, link, closed, act>>
    BY <1>5 DEF DispStep, StartGroup, Answer, Joined, StartDispatch
  <2> QED
    BY <1>t, <2>1, <2>2, DispatchQuiet DEF Inv
<1>6. Mutate \/ Work \/ DispStep \/ UNCHANGED vars
  BY DEF Next, Poll, DispStep
<1> QED
  BY <1>1, <1>2, <1>3, <1>4, <1>5, <1>6 DEF Inv

LEMMA Invariant == Spec => []Inv
  BY InitInv, InvStep, PTL DEF Spec

\* Every variable of the manager has its type, and the add, remove or close in progress
\* is at an await it can be at.
THEOREM ManagerTypes == Spec => []TypeOK
<1>1. Inv => TypeOK
  BY DEF Inv, ManagerInv
<1> QED
  BY <1>1, Invariant, PTL

\* No two transports have one port open, whatever paths it was reached by; every open one
\* has an entry a later call can find, through every failure and cancellation; a closed
\* manager has nothing open.
THEOREM PortsAreSound == Spec => []PortsSound
<1>1. Inv => PortsSound
  <2> SUFFICES ASSUME ManagerInv PROVE OneClientPerPort
    BY DEF Inv, ManagerInv, PortsSound
  <2> SUFFICES ASSUME NEW l \in Link, NEW m \in Link, link[l] # None, link[l] = link[m]
               PROVE  l = m
    BY DEF OneClientPerPort
  <2>1. PICK k \in Key : ports[k] # None /\ ports[k].link = l
    BY DEF ManagerInv, NoOrphan
  <2>2. PICK q \in Key : ports[q] # None /\ ports[q].link = m
    BY DEF ManagerInv, NoOrphan
  <2>3. l # None /\ m # None
    BY ManagerAssumption
  <2> QED
    BY <2>1, <2>2, <2>3 DEF ManagerInv, LinksSound
<1> QED
  BY <1>1, Invariant, PTL

\* Between calls, a port's references are devices listed under it, and a transport nobody
\* refers to is not open.
THEOREM RefsAreExact == Spec => []RefsExact
<1>1. Inv => RefsExact
  BY DEF Inv, ManagerInv, RefsSound, InUse, RefsExact, NoAct
<1> QED
  BY <1>1, Invariant, PTL

\* A dispatch that returns or raises has a result for every device it was asked for, and
\* nothing of its own in progress, whatever the registry went through meanwhile.
THEOREM DispatchComplete == Spec => []CompleteOrLost
<1>1. Inv => CompleteOrLost
  BY DEF Inv
<1> QED
  BY <1>1, Invariant, PTL

=============================================================================
