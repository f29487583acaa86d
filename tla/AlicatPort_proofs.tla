-------------------------- MODULE AlicatPort_proofs --------------------------
(***************************************************************************)
(* What holds of a port for every number of tasks, sessions, unit ids and  *)
(* rates, with writes failing and tasks being cancelled wherever the       *)
(* constants allow it; and, as long as one rate is used and no stop-stream *)
(* is lost, who is addressed.                                              *)
(***************************************************************************)
EXTENDS AlicatPort, SequenceTheorems, TLAPS

-----------------------------------------------------------------------------
(* The places of a sequence.                                              *)

\* A removal keeps the type, and the head unless it is the head that goes.
LEMMA RemoveAtType ==
    ASSUME NEW S, NEW q \in Seq(S), NEW n \in DOMAIN q
    PROVE  /\ RemoveAt(q, n) \in Seq(S)
           /\ Len(RemoveAt(q, n)) = Len(q) - 1
           /\ n # 1 => RemoveAt(q, n) # << >> /\ Head(RemoveAt(q, n)) = Head(q)
<1> DEFINE a == SubSeq(q, 1, n - 1)
           b == SubSeq(q, n + 1, Len(q))
<1>1. n \in 1..Len(q) /\ Len(q) \in Nat
  BY LenProperties
<1>2. a \in Seq(S) /\ Len(a) = n - 1 /\ \A i \in 1..(n - 1) : a[i] = q[i]
  BY <1>1, SubSeqProperties
<1>3. b \in Seq(S) /\ Len(b) = Len(q) - n
  BY <1>1, SubSeqProperties
<1>4. /\ a \o b \in Seq(S)
      /\ Len(a \o b) = Len(a) + Len(b)
      /\ \A i \in 1..Len(a) : (a \o b)[i] = a[i]
  BY <1>2, <1>3, ConcatProperties
<1>5. RemoveAt(q, n) = a \o b
  BY DEF RemoveAt
<1>6. ASSUME n # 1
      PROVE  a \o b # << >> /\ Head(a \o b) = Head(q)
  <2>1. 1 \in 1..(n - 1) /\ 1 \in 1..Len(a) /\ Len(a \o b) > 0
    BY <1>1, <1>2, <1>3, <1>4, <1>6
  <2>2. (a \o b)[1] = q[1]
    BY <2>1, <1>2, <1>4
  <2>3. a \o b # << >>
    BY <2>1, <1>4, EmptySeq
  <2> HIDE DEF a, b
  <2> QED
    BY <2>2, <2>3, <1>1, <1>4
<1> HIDE DEF a, b
<1>7. Len(a \o b) = Len(q) - 1
  BY <1>1, <1>2, <1>3, <1>4
<1> QED
  BY <1>4, <1>5, <1>6, <1>7

\* What a removal does to places: they move up by one, or not at all.
LEMMA RemoveAtPlaces ==
    ASSUME NEW S, NEW q \in Seq(S), NEW n \in DOMAIN q
    PROVE  /\ DOMAIN RemoveAt(q, n) = 1..(Len(q) - 1)
           /\ \A i \in 1..(Len(q) - 1) : RemoveAt(q, n)[i] = IF i < n THEN q[i] ELSE q[i + 1]
<1> DEFINE a == SubSeq(q, 1, n - 1)
           b == SubSeq(q, n + 1, Len(q))
<1>1. n \in 1..Len(q) /\ Len(q) \in Nat /\ \A i \in 1..Len(q) : q[i] \in S
  BY LenProperties, ElementOfSeq
<1>2. a \in Seq(S) /\ Len(a) = n - 1 /\ \A i \in 1..(n - 1) : a[i] = q[i]
  BY <1>1, SubSeqProperties
<1>3. b \in Seq(S) /\ Len(b) = Len(q) - n /\ \A i \in 1..(Len(q) - n) : b[i] = q[n + i]
  BY <1>1, SubSeqProperties
<1>4. RemoveAt(q, n) = a \o b
  BY DEF RemoveAt
<1> HIDE DEF a, b
<1>5. /\ Len(a \o b) = Len(q) - 1 /\ a \o b \in Seq(S)
      /\ \A i \in 1..(Len(q) - 1) : (a \o b)[i] = IF i <= n - 1 THEN a[i] ELSE b[i - (n - 1)]
  <2>1. /\ a \o b \in Seq(S) /\ Len(a \o b) = Len(a) + Len(b)
        /\ \A i \in 1..(Len(a) + Len(b)) :
              (a \o b)[i] = IF i <= Len(a) THEN a[i] ELSE b[i - Len(a)]
    BY <1>2, <1>3, ConcatProperties
  <2>2. Len(a) + Len(b) = Len(q) - 1
    BY <1>1, <1>2, <1>3
  <2> QED
    BY <2>1, <2>2, <1>2
<1>6. DOMAIN (a \o b) = 1..(Len(q) - 1)
  BY <1>5, LenProperties
<1>7. ASSUME NEW i \in 1..(Len(q) - 1) PROVE (a \o b)[i] = IF i < n THEN q[i] ELSE q[i + 1]
  <2>1. CASE i < n
    <3>1. i <= n - 1 /\ i \in 1..(n - 1)
      BY <2>1, <1>1
    <3>2. (a \o b)[i] = a[i]
      BY <3>1, <1>5
    <3> QED
      BY <2>1, <3>1, <3>2, <1>2
  <2>2. CASE i >= n
    <3>1. i - (n - 1) \in 1..(Len(q) - n) /\ n + (i - (n - 1)) = i + 1
      BY <2>2, <1>1
    <3>2. (a \o b)[i] = b[i - (n - 1)]
      BY <2>2, <1>1, <1>5
    <3>3. b[i - (n - 1)] = q[n + (i - (n - 1))]
      BY <3>1, <1>3
    <3>4. ~(i < n) /\ b[i - (n - 1)] = q[i + 1]
      BY <2>2, <3>1, <3>3, <1>1
    <3> QED
      BY <3>2, <3>4
  <2>3. i < n \/ i >= n
    BY <1>1
  <2> QED
    BY <2>1, <2>2, <2>3
<1> QED
  BY <1>4, <1>6, <1>7

\* What a Tail does to places.
LEMMA TailPlaces ==
    ASSUME NEW S, NEW q \in Seq(S), q # << >>
    PROVE  /\ Len(q) \in Nat /\ Len(q) > 0 /\ q[1] = Head(q)
           /\ DOMAIN Tail(q) = 1..(Len(q) - 1)
           /\ \A i \in 1..(Len(q) - 1) : Tail(q)[i] = q[i + 1]
<1>1. Len(q) \in Nat /\ Len(q) > 0
  BY EmptySeq
<1>2. Tail(q) \in Seq(S) /\ Len(Tail(q)) = Len(q) - 1
  BY HeadTailProperties
<1> QED
  BY <1>1, <1>2, HeadTailProperties, LenProperties

\* What an Append does to places.
LEMMA AppendPlaces ==
    ASSUME NEW S, NEW q \in Seq(S), NEW e \in S
    PROVE  /\ Len(q) \in Nat /\ DOMAIN q = 1..Len(q)
           /\ DOMAIN Append(q, e) = 1..(Len(q) + 1)
           /\ \A i \in 1..(Len(q) + 1) : Append(q, e)[i] = IF i <= Len(q) THEN q[i] ELSE e
<1>1. Append(q, e) \in Seq(S) /\ Len(Append(q, e)) = Len(q) + 1
  BY AppendProperties
<1>2. Len(q) \in Nat /\ DOMAIN q = 1..Len(q) /\ DOMAIN Append(q, e) = 1..(Len(q) + 1)
  BY <1>1, LenProperties
<1>3. ASSUME NEW i \in 1..(Len(q) + 1)
      PROVE  Append(q, e)[i] = IF i <= Len(q) THEN q[i] ELSE e
  <2>1. CASE i <= Len(q)
    BY <2>1, <1>2, AppendProperties
  <2>2. CASE i = Len(q) + 1
    BY <2>2, <1>2, AppendProperties
  <2> QED
    BY <2>1, <2>2, <1>2
<1> QED
  BY <1>2, <1>3

-----------------------------------------------------------------------------
(* The inductive invariant.  Typing the queue after a release needs to know *)
(* that whoever releases is at its head, so the two go together.            *)

\* Whoever is on the wire owns the lock.
HolderOnWire == \A t \in Task : OnWire(t) => Holds(t)

LockInv == PortTyped /\ HolderOnWire

LEMMA InitLock == Init => LockInv
<1> SUFFICES ASSUME Init PROVE LockInv
  OBVIOUS
<1>1. lock \in Seq(Task) /\ latch \in BOOLEAN /\ pc \in [Task -> Stage]
  BY EmptySeq DEF Init, Stage
<1>2. job \in [Task -> {NoJob} \union Requests]
  BY DEF Init
<1>3. sess \in [Session -> [id : UnitId, doubt : BOOLEAN,
                            state : {"OPERATIONAL", "BROKEN"}]]
  BY PortAssumption DEF Init
<1>4. dev \in [Session -> [id : UnitId \union {At}, baud : Baud]]
  BY PortAssumption DEF Init
<1>5. line \in [baud : Baud, open : BOOLEAN]
  BY PortAssumption DEF Init
<1>6. \A t \in Task : Captured(t)
  BY DEF Init, Captured, NoJob
<1>7. HolderOnWire
  BY DEF Init, HolderOnWire, OnWire
<1> QED
  BY <1>1, <1>2, <1>3, <1>4, <1>5, <1>6, <1>7 DEF LockInv, PortTyped

\* What a task that is not idle captured.
LEMMA JobFields ==
    ASSUME PortTyped, NEW t \in Task, pc[t] # "idle"
    PROVE  /\ job[t] \in Requests
           /\ job[t].sess \in Session
           /\ job[t].op \in {"exec", "rename", "baud", "start", "stop"}
           /\ job[t].op = "rename" => job[t].arg \in UnitId
           /\ job[t].op = "baud" => job[t].arg \in Baud
           /\ pc[t] = "ack" => job[t].op = "baud"
           /\ pc[t] = "verify" => job[t].op \in {"rename", "baud"}
  BY DEF PortTyped, Captured, Requests

LEMMA ReturnTyped ==
    ASSUME PortTyped, NEW t \in Task, Return(t)
    PROVE  /\ pc' \in [Task -> Stage]
           /\ job' \in [Task -> {NoJob} \union Requests]
           /\ \A u \in Task : Captured(u)'
<1>1. pc' \in [Task -> Stage] /\ job' \in [Task -> {NoJob} \union Requests]
  BY DEF PortTyped, Return, Stage
<1>2. pc'[t] = "idle" /\ job'[t] = NoJob
  BY DEF PortTyped, Return
<1>3. Captured(t)'
  BY <1>2 DEF Captured, NoJob
<1>4. \A u \in Task \ {t} : pc'[u] = pc[u] /\ job'[u] = job[u]
  BY DEF PortTyped, Return
<1>5. \A u \in Task \ {t} : Captured(u)'
  BY <1>4 DEF PortTyped, Captured
<1> QED
  BY <1>1, <1>3, <1>5

\* A step to another await, with the same captured job or another that fits.
LEMMA GotoTyped ==
    ASSUME PortTyped, NEW t \in Task, NEW st \in Stage, Goto(t, st),
           pc[t] # "idle",
           \/ UNCHANGED job
           \/ \E h \in SUBSET Session : job' = [job EXCEPT ![t].heard = h]
           \/ job' = [job EXCEPT ![t].op = "stop"] /\ st = "wait",
           st = "ack" => job[t].op = "baud",
           st = "verify" => job[t].op \in {"rename", "baud"}
    PROVE  /\ pc' \in [Task -> Stage]
           /\ job' \in [Task -> {NoJob} \union Requests]
           /\ \A u \in Task : Captured(u)'
<1>0. job[t] \in Requests
  BY JobFields
<1>1. pc' \in [Task -> Stage] /\ pc'[t] = st
  BY DEF PortTyped, Goto
<1>2. /\ job'[t] \in Requests
      /\ job'[t].arg = job[t].arg
      /\ job'[t].op \in {job[t].op, "stop"}
      /\ st # "wait" => job'[t].op = job[t].op
  <2>1. CASE UNCHANGED job
    BY <2>1, <1>0
  <2>2. ASSUME NEW h \in SUBSET Session, job' = [job EXCEPT ![t].heard = h]
        PROVE  job'[t] \in Requests /\ job'[t].arg = job[t].arg /\ job'[t].op = job[t].op
    <3>1. job'[t] = [job[t] EXCEPT !.heard = h]
      BY <2>2 DEF PortTyped
    <3> QED
      BY <3>1, <1>0 DEF Requests
  <2>3. CASE job' = [job EXCEPT ![t].op = "stop"] /\ st = "wait"
    <3>1. job'[t] = [job[t] EXCEPT !.op = "stop"]
      BY <2>3 DEF PortTyped
    <3> QED
      BY <3>1, <2>3, <1>0 DEF Requests
  <2> QED
    BY <2>1, <2>2, <2>3
<1>3. job' \in [Task -> {NoJob} \union Requests]
  BY <1>0, <1>2 DEF PortTyped
<1>4. \A u \in Task \ {t} : pc'[u] = pc[u] /\ job'[u] = job[u]
  BY DEF PortTyped, Goto
<1>5. Captured(t)'
  BY <1>1, <1>2, JobFields DEF Captured
<1>6. \A u \in Task \ {t} : Captured(u)'
  BY <1>4 DEF PortTyped, Captured
<1> QED
  BY <1>1, <1>3, <1>5, <1>6

LEMMA BusTyped ==
    ASSUME PortTyped, NEW heard,
           \/ \E i \in UnitId \union {At} : Readdress(heard, i)
           \/ \E b \in Baud : Retune(heard, b)
           \/ UNCHANGED dev
    PROVE  dev' \in [Session -> [id : UnitId \union {At}, baud : Baud]]
<1>1. CASE \E i \in UnitId \union {At} : Readdress(heard, i)
  BY <1>1 DEF PortTyped, Readdress
<1>2. CASE \E b \in Baud : Retune(heard, b)
  BY <1>2 DEF PortTyped, Retune
<1> QED
  BY <1>1, <1>2 DEF PortTyped

\* The owner leaves the wire and hands the lock to the next waiter.
LEMMA ReleaseHands ==
    ASSUME LockInv, NEW t \in Task, Holds(t), Release,
           \E st \in {"idle", "streaming"} : pc' = [pc EXCEPT ![t] = st]
    PROVE  lock' \in Seq(Task) /\ HolderOnWire'
<1>1. lock # << >> /\ lock \in Seq(Task)
  BY DEF Holds, LockInv, PortTyped
<1>2. lock' \in Seq(Task)
  BY <1>1, HeadTailProperties DEF Release
<1>3. \A u \in Task : OnWire(u)' => u # t /\ OnWire(u)
  BY DEF LockInv, PortTyped, OnWire
<1>4. \A u \in Task : ~OnWire(u)'
  BY <1>3 DEF LockInv, HolderOnWire, Holds
<1> QED
  BY <1>2, <1>4 DEF HolderOnWire

\* The owner goes from one await to the next.
LEMMA OwnerMoves ==
    ASSUME LockInv, NEW t \in Task, Holds(t), UNCHANGED lock,
           NEW st, pc' = [pc EXCEPT ![t] = st]
    PROVE  lock' \in Seq(Task) /\ HolderOnWire'
<1>1. \A u \in Task : u # t => OnWire(u)' = OnWire(u)
  BY DEF LockInv, PortTyped, OnWire
<1>2. \A u \in Task : Holds(u)' = Holds(u)
  BY DEF Holds
<1> QED
  BY <1>1, <1>2 DEF LockInv, PortTyped, HolderOnWire

\* A task queues at the end: nobody's place changes.
LEMMA QueueGrows ==
    ASSUME LockInv, NEW t \in Task, lock' = Append(lock, t),
           pc' = [pc EXCEPT ![t] = "wait"]
    PROVE  lock' \in Seq(Task) /\ HolderOnWire'
<1>1. lock' \in Seq(Task)
  BY AppendProperties DEF LockInv, PortTyped
<1>2. lock # << >> => lock' # << >> /\ Head(lock') = Head(lock)
  BY AppendProperties DEF LockInv, PortTyped
<1>3. \A u \in Task : OnWire(u)' => OnWire(u)
  BY DEF LockInv, PortTyped, OnWire
<1>4. \A u \in Task : Holds(u) => Holds(u)'
  BY <1>2 DEF Holds
<1> QED
  BY <1>1, <1>3, <1>4 DEF LockInv, HolderOnWire

\* A task not on the wire does nothing with the lock.
LEMMA LockKept ==
    ASSUME LockInv, NEW t \in Task, UNCHANGED lock, ~OnWire(t),
           NEW st \in {"leave", "idle"}, pc' = [pc EXCEPT ![t] = st]
    PROVE  lock' \in Seq(Task) /\ HolderOnWire'
<1>1. \A u \in Task : OnWire(u)' => OnWire(u)
  BY DEF LockInv, PortTyped, OnWire
<1> QED
  BY <1>1 DEF LockInv, PortTyped, HolderOnWire, Holds

LEMMA OwnerHolds ==
    ASSUME LockInv, NEW t \in Task,
           pc[t] \in {"write", "read", "ack", "verify", "start", "stop", "drain"}
    PROVE  Holds(t)
  BY DEF LockInv, HolderOnWire, OnWire

\* A request that queues captures a job that fits.
LEMMA EnqueueKeeps ==
    ASSUME LockInv, NEW t \in Task, NEW s \in Session,
           NEW op \in {"exec", "rename", "baud", "start"},
           NEW arg \in UnitId \union Baud,
           op = "rename" => arg \in UnitId,
           op = "baud" => arg \in Baud,
           Enqueue(t, Request(op, s, arg)),
           UNCHANGED <<latch, sess, dev, line>>
    PROVE  LockInv'
<1> DEFINE j == Request(op, s, arg)
<1>0. sess[s].id \in UnitId
  BY DEF LockInv, PortTyped
<1>1. j \in Requests /\ j.op = op /\ j.arg = arg
  BY <1>0 DEF Request, Requests
<1>2. lock' \in Seq(Task) /\ HolderOnWire'
  BY QueueGrows DEF Enqueue
<1> HIDE DEF j
<1>3. pc' \in [Task -> Stage] /\ job' \in [Task -> {NoJob} \union Requests]
  BY <1>1 DEF LockInv, PortTyped, Enqueue, Stage, j
<1>4. pc'[t] = "wait" /\ job'[t] = j
  BY DEF LockInv, PortTyped, Enqueue, j
<1>5. Captured(t)'
  BY <1>1, <1>4 DEF Captured
<1>6. \A u \in Task \ {t} : pc'[u] = pc[u] /\ job'[u] = job[u]
  BY DEF LockInv, PortTyped, Enqueue
<1>7. \A u \in Task \ {t} : Captured(u)'
  BY <1>6 DEF LockInv, PortTyped, Captured
<1>8. /\ latch' \in BOOLEAN
      /\ sess' \in [Session -> [id : UnitId, doubt : BOOLEAN,
                                state : {"OPERATIONAL", "BROKEN"}]]
      /\ dev' \in [Session -> [id : UnitId \union {At}, baud : Baud]]
      /\ line' \in [baud : Baud, open : BOOLEAN]
  BY DEF LockInv, PortTyped
<1> QED
  BY <1>2, <1>3, <1>5, <1>7, <1>8 DEF LockInv, PortTyped

\* The session of a lifecycle change is marked, or its cached id swapped.
LEMMA SessionTyped ==
    ASSUME PortTyped, NEW t \in Task, pc[t] # "idle",
           \/ UNCHANGED sess
           \/ \E d \in BOOLEAN : sess' = [sess EXCEPT ![job[t].sess].doubt = d]
           \/ sess' = [sess EXCEPT ![job[t].sess].state = "BROKEN"]
           \/ \E i \in UnitId : sess' = [sess EXCEPT ![job[t].sess].id = i,
                                                     ![job[t].sess].doubt = FALSE]
    PROVE  sess' \in [Session -> [id : UnitId, doubt : BOOLEAN,
                                  state : {"OPERATIONAL", "BROKEN"}]]
<1>1. job[t].sess \in Session
  BY JobFields
<1>2. CASE UNCHANGED sess
  BY <1>2 DEF PortTyped
<1>3. ASSUME NEW d \in BOOLEAN, sess' = [sess EXCEPT ![job[t].sess].doubt = d]
      PROVE  sess' \in [Session -> [id : UnitId, doubt : BOOLEAN,
                                    state : {"OPERATIONAL", "BROKEN"}]]
  BY <1>1, <1>3 DEF PortTyped
<1>4. CASE sess' = [sess EXCEPT ![job[t].sess].state = "BROKEN"]
  BY <1>1, <1>4 DEF PortTyped
<1>5. ASSUME NEW i \in UnitId,
             sess' = [sess EXCEPT ![job[t].sess].id = i, ![job[t].sess].doubt = FALSE]
      PROVE  sess' \in [Session -> [id : UnitId, doubt : BOOLEAN,
                                    state : {"OPERATIONAL", "BROKEN"}]]
  <2> DEFINE mid == [sess EXCEPT ![job[t].sess].id = i]
  <2>1. mid \in [Session -> [id : UnitId, doubt : BOOLEAN,
                             state : {"OPERATIONAL", "BROKEN"}]]
    BY <1>1, <1>5 DEF PortTyped
  <2>2. sess' = [mid EXCEPT ![job[t].sess].doubt = FALSE]
    BY <1>5 DEF mid
  <2> HIDE DEF mid
  <2> QED
    BY <1>1, <2>1, <2>2
<1> QED
  BY <1>2, <1>3, <1>4, <1>5

-----------------------------------------------------------------------------
\* Putting the pieces together, once for each way a step uses the lock.
LEMMA ByRelease ==
    ASSUME LockInv, NEW t \in Task, Holds(t), Return(t), Release,
           latch' \in BOOLEAN,
           sess' \in [Session -> [id : UnitId, doubt : BOOLEAN,
                                  state : {"OPERATIONAL", "BROKEN"}]],
           dev' \in [Session -> [id : UnitId \union {At}, baud : Baud]],
           line' \in [baud : Baud, open : BOOLEAN]
    PROVE  LockInv'
<1>1. lock' \in Seq(Task) /\ HolderOnWire'
  BY ReleaseHands DEF Return
<1> QED
  BY <1>1, ReturnTyped DEF LockInv, PortTyped

LEMMA ByMove ==
    ASSUME LockInv, NEW t \in Task, Holds(t), NEW st \in Stage, Goto(t, st),
           pc[t] # "idle", UNCHANGED lock,
           \/ UNCHANGED job
           \/ \E h \in SUBSET Session : job' = [job EXCEPT ![t].heard = h],
           st = "ack" => job[t].op = "baud",
           st = "verify" => job[t].op \in {"rename", "baud"},
           latch' \in BOOLEAN,
           UNCHANGED sess,
           dev' \in [Session -> [id : UnitId \union {At}, baud : Baud]],
           line' \in [baud : Baud, open : BOOLEAN]
    PROVE  LockInv'
<1>1. lock' \in Seq(Task) /\ HolderOnWire'
  BY OwnerMoves DEF Goto
<1>2. /\ pc' \in [Task -> Stage]
      /\ job' \in [Task -> {NoJob} \union Requests]
      /\ \A u \in Task : Captured(u)'
  BY GotoTyped DEF LockInv
<1> QED
  BY <1>1, <1>2 DEF LockInv, PortTyped

LEMMA LockStep == LockInv /\ [Next]_vars => LockInv'
<1> SUFFICES ASSUME LockInv, [Next]_vars PROVE LockInv'
  OBVIOUS
<1>t. /\ PortTyped
      /\ latch \in BOOLEAN
      /\ sess \in [Session -> [id : UnitId, doubt : BOOLEAN,
                               state : {"OPERATIONAL", "BROKEN"}]]
      /\ dev \in [Session -> [id : UnitId \union {At}, baud : Baud]]
      /\ line \in [baud : Baud, open : BOOLEAN]
  BY DEF LockInv, PortTyped
<1>1. ASSUME NEW t \in Task, NEW s \in Session, Execute(t, s)
      PROVE  LockInv'
  <2>1. sess[s].id \in UnitId
    BY <1>t
  <2> QED
    BY <1>1, <2>1, EnqueueKeeps DEF Execute
<1>2. ASSUME NEW t \in Task, NEW s \in Session, NEW i \in UnitId, ChangeUnitId(t, s, i)
      PROVE  LockInv'
  BY <1>2, EnqueueKeeps DEF ChangeUnitId
<1>3. ASSUME NEW t \in Task, NEW s \in Session, NEW b \in Baud, ChangeBaudRate(t, s, b)
      PROVE  LockInv'
  BY <1>3, EnqueueKeeps DEF ChangeBaudRate
<1>4. ASSUME NEW t \in Task, NEW s \in Session, EnterStream(t, s)
      PROVE  LockInv'
  <2>1. sess[s].id \in UnitId
    BY <1>t
  <2> QED
    BY <1>4, <2>1, EnqueueKeeps DEF EnterStream
<1>5. ASSUME NEW t \in Task, Acquire(t) PROVE LockInv'
  BY <1>5, <1>t, ByMove DEF Acquire, Stage
<1>6. ASSUME NEW t \in Task, SendCommand(t) PROVE LockInv'
  <2>1. Holds(t) /\ pc[t] = "write"
    BY <1>6, OwnerHolds DEF SendCommand
  <2>2. ASSUME NEW heard \in Outcomes(job[t].id),
               job' = [job EXCEPT ![t].heard = heard],
               Goto(t, "read"), UNCHANGED <<lock, latch, sess, dev, line>>
        PROVE  LockInv'
    <3>1. heard \in SUBSET Session
      BY <2>2 DEF Outcomes, Hears
    <3> QED
      BY <2>1, <2>2, <3>1, <1>t, ByMove DEF Stage
  <2>3. ASSUME Return(t), Release, UNCHANGED <<latch, sess, dev, line>>
        PROVE  LockInv'
    BY <2>1, <2>3, <1>t, ByRelease
  <2> QED
    BY <1>6, <2>2, <2>3 DEF SendCommand
<1>7. ASSUME NEW t \in Task, ReadReply(t) PROVE LockInv'
  BY <1>7, <1>t, OwnerHolds, ByRelease DEF ReadReply
<1>8. ASSUME NEW t \in Task, SendRename(t) PROVE LockInv'
  <2>1. job[t].arg \in UnitId
    BY <1>8, <1>t, JobFields DEF SendRename
  <2>2. dev' \in [Session -> [id : UnitId \union {At}, baud : Baud]]
    BY <1>8, <1>t, <2>1, BusTyped DEF SendRename
  <2> QED
    BY <1>8, <1>t, <2>2, OwnerHolds, ByMove DEF SendRename, Stage
<1>9. ASSUME NEW t \in Task, SendBaud(t) PROVE LockInv'
  <2>1. job[t].arg \in Baud
    BY <1>9, <1>t, JobFields DEF SendBaud
  <2>2. PICK heard \in Outcomes(job[t].id) :
           Retune(heard, job[t].arg) /\ job' = [job EXCEPT ![t].heard = heard]
    BY <1>9 DEF SendBaud
  <2>3. heard \in SUBSET Session
    BY <2>2 DEF Outcomes, Hears
  <2>4. dev' \in [Session -> [id : UnitId \union {At}, baud : Baud]]
    BY <1>t, <2>1, <2>2, BusTyped
  <2> QED
    BY <1>9, <1>t, <2>2, <2>3, <2>4, OwnerHolds, ByMove DEF SendBaud, Stage
<1>10. ASSUME NEW t \in Task, WriteRaises(t) PROVE LockInv'
  <2>1. PICK heard \in Outcomes(job[t].id) :
           CASE job[t].op = "rename" -> Readdress(heard, job[t].arg)
             [] job[t].op = "baud"   -> Retune(heard, job[t].arg)
             [] OTHER                -> UNCHANGED dev
    BY <1>10 DEF WriteRaises
  <2>2. dev' \in [Session -> [id : UnitId \union {At}, baud : Baud]]
    <3>1. CASE job[t].op = "rename"
      BY <2>1, <3>1, <1>10, <1>t, JobFields, BusTyped DEF WriteRaises
    <3>2. CASE job[t].op = "baud"
      BY <2>1, <3>2, <1>10, <1>t, JobFields, BusTyped DEF WriteRaises
    <3>3. CASE job[t].op \notin {"rename", "baud"}
      BY <2>1, <3>3, <1>t
    <3> QED
      BY <3>1, <3>2, <3>3
  <2>3. sess' \in [Session -> [id : UnitId, doubt : BOOLEAN,
                               state : {"OPERATIONAL", "BROKEN"}]]
    <3>1. job[t].sess \in Session
      BY <1>10, <1>t, JobFields DEF WriteRaises
    <3>2. \E d \in BOOLEAN : sess' = [sess EXCEPT ![job[t].sess].doubt = d]
      BY <1>10, <1>t, <3>1 DEF WriteRaises
    <3> QED
      BY <1>10, <1>t, <3>2, SessionTyped DEF WriteRaises
  <2> QED
    BY <1>10, <1>t, <2>2, <2>3, OwnerHolds, ByRelease DEF WriteRaises
<1>11. ASSUME NEW t \in Task, Reopen(t) PROVE LockInv'
  <2>1. job[t].arg \in Baud /\ job[t].op = "baud"
    BY <1>11, <1>t, JobFields DEF Reopen
  <2>2. line' \in [baud : Baud, open : BOOLEAN]
    BY <1>11, <2>1 DEF Reopen
  <2> QED
    BY <1>11, <1>t, <2>1, <2>2, OwnerHolds, ByMove DEF Reopen, Stage
<1>12. ASSUME NEW t \in Task, ReopenFails(t) PROVE LockInv'
  <2>1. job[t].arg \in Baud
    BY <1>12, <1>t, JobFields DEF ReopenFails
  <2>2. line' \in [baud : Baud, open : BOOLEAN]
    BY <1>12, <2>1 DEF ReopenFails
  <2>3. sess' \in [Session -> [id : UnitId, doubt : BOOLEAN,
                               state : {"OPERATIONAL", "BROKEN"}]]
    BY <1>12, <1>t, SessionTyped DEF ReopenFails, Break
  <2> QED
    BY <1>12, <1>t, <2>2, <2>3, OwnerHolds, ByRelease DEF ReopenFails, Break
<1>13. ASSUME NEW t \in Task, AckFails(t) PROVE LockInv'
  <2>1. sess' \in [Session -> [id : UnitId, doubt : BOOLEAN,
                               state : {"OPERATIONAL", "BROKEN"}]]
    BY <1>13, <1>t, SessionTyped DEF AckFails, Break
  <2> QED
    BY <1>13, <1>t, <2>1, OwnerHolds, ByRelease DEF AckFails, Break
<1>14. ASSUME NEW t \in Task, Verified(t) PROVE LockInv'
  <2>1. job[t].op = "rename" => job[t].arg \in UnitId
    BY <1>14, <1>t, JobFields DEF Verified
  <2>2. sess' \in [Session -> [id : UnitId, doubt : BOOLEAN,
                               state : {"OPERATIONAL", "BROKEN"}]]
    BY <1>14, <1>t, <2>1, SessionTyped DEF Verified
  <2> QED
    BY <1>14, <1>t, <2>2, OwnerHolds, ByRelease DEF Verified
<1>15. ASSUME NEW t \in Task, VerifyFails(t) PROVE LockInv'
  <2>1. sess' \in [Session -> [id : UnitId, doubt : BOOLEAN,
                               state : {"OPERATIONAL", "BROKEN"}]]
    BY <1>15, <1>t, SessionTyped DEF VerifyFails, Break
  <2> QED
    BY <1>15, <1>t, <2>1, OwnerHolds, ByRelease DEF VerifyFails, Break
<1>16. ASSUME NEW t \in Task, RefuseStream(t) PROVE LockInv'
  BY <1>16, <1>t, ByRelease DEF RefuseStream
<1>17. ASSUME NEW t \in Task, MarkStreaming(t) PROVE LockInv'
  BY <1>17, <1>t, ByMove DEF MarkStreaming, Stage
<1>18. ASSUME NEW t \in Task, StartStream(t) PROVE LockInv'
  <2>1. dev' \in [Session -> [id : UnitId \union {At}, baud : Baud]]
    BY <1>18, <1>t, BusTyped DEF StartStream
  <2>2. Holds(t)
    BY <1>18, OwnerHolds DEF StartStream
  <2>3. lock' \in Seq(Task) /\ HolderOnWire'
    BY <1>18, <2>2, ReleaseHands DEF StartStream, Goto
  <2>4. /\ pc' \in [Task -> Stage]
        /\ job' \in [Task -> {NoJob} \union Requests]
        /\ \A u \in Task : Captured(u)'
    BY <1>18, <1>t, GotoTyped DEF StartStream, Stage
  <2> QED
    BY <1>18, <1>t, <2>1, <2>3, <2>4 DEF StartStream, LockInv, PortTyped
<1>19. ASSUME NEW t \in Task, StartRaises(t) PROVE LockInv'
  <2>1. dev' \in [Session -> [id : UnitId \union {At}, baud : Baud]]
    BY <1>19, <1>t, BusTyped DEF StartRaises
  <2> QED
    BY <1>19, <1>t, <2>1, OwnerHolds, ByRelease DEF StartRaises
<1>20. ASSUME NEW t \in Task, AskToStop(t) PROVE LockInv'
  <2>1. lock' \in Seq(Task) /\ HolderOnWire'
    BY <1>20, QueueGrows DEF AskToStop, Goto
  <2>2. /\ pc' \in [Task -> Stage]
        /\ job' \in [Task -> {NoJob} \union Requests]
        /\ \A u \in Task : Captured(u)'
    BY <1>20, <1>t, GotoTyped DEF AskToStop, Stage
  <2> QED
    BY <1>20, <1>t, <2>1, <2>2 DEF AskToStop, LockInv, PortTyped
<1>21. ASSUME NEW t \in Task, AcquireToStop(t) PROVE LockInv'
  BY <1>21, <1>t, ByMove DEF AcquireToStop, Stage
<1>22. ASSUME NEW t \in Task, StopStream(t) PROVE LockInv'
  <2>1. sess[job[t].sess].id \in UnitId
    BY <1>22, <1>t, JobFields DEF StopStream
  <2>2. dev' \in [Session -> [id : UnitId \union {At}, baud : Baud]]
    BY <1>22, <1>t, <2>1, BusTyped DEF StopStream
  <2> QED
    BY <1>22, <1>t, <2>2, OwnerHolds, ByMove DEF StopStream, Stage
<1>23. ASSUME NEW t \in Task, LeaveStream(t) PROVE LockInv'
  <2>1. lock' \in Seq(Task) /\ HolderOnWire'
    BY <1>23, LockKept DEF LeaveStream, Goto, OnWire
  <2>2. /\ pc' \in [Task -> Stage]
        /\ job' \in [Task -> {NoJob} \union Requests]
        /\ \A u \in Task : Captured(u)'
    BY <1>23, <1>t, GotoTyped DEF LeaveStream, Stage
  <2> QED
    BY <1>23, <1>t, <2>1, <2>2 DEF LeaveStream, LockInv, PortTyped
<1>24. ASSUME NEW t \in Task, StopCancelled(t) PROVE LockInv'
  <2>1. sess[job[t].sess].id \in UnitId
    BY <1>24, <1>t, JobFields DEF StopCancelled
  <2>2. dev' \in [Session -> [id : UnitId \union {At}, baud : Baud]]
    BY <1>24, <1>t, <2>1, BusTyped DEF StopCancelled
  <2> QED
    BY <1>24, <1>t, <2>2, OwnerHolds, ByRelease DEF StopCancelled
<1>28. ASSUME NEW t \in Task, LeaveCancelled(t) PROVE LockInv'
  <2>1. lock' \in Seq(Task) /\ HolderOnWire'
    BY <1>28, LockKept DEF LeaveCancelled, Return, OnWire
  <2>2. /\ pc' \in [Task -> Stage]
        /\ job' \in [Task -> {NoJob} \union Requests]
        /\ \A u \in Task : Captured(u)'
    BY <1>28, <1>t, ReturnTyped DEF LeaveCancelled
  <2> QED
    BY <1>28, <1>t, <2>1, <2>2 DEF LeaveCancelled, LockInv, PortTyped
<1>25. ASSUME NEW t \in Task, Drained(t) PROVE LockInv'
  BY <1>25, <1>t, OwnerHolds, ByRelease DEF Drained
<1>26. ASSUME NEW t \in Task, CancelWait(t) PROVE LockInv'
  <2>1. PICK n \in DOMAIN lock : lock[n] = t /\ lock' = RemoveAt(lock, n)
    BY <1>26 DEF CancelWait
  <2>2. /\ lock' \in Seq(Task)
        /\ n # 1 => lock' # << >> /\ Head(lock') = Head(lock)
    BY <2>1, RemoveAtType DEF LockInv, PortTyped
  <2>3. \A u \in Task : OnWire(u)' => OnWire(u) /\ u # t
    BY <1>26, <1>t DEF CancelWait, Return, OnWire, PortTyped
  <2>4. \A u \in Task : OnWire(u)' => Holds(u)'
    <3> SUFFICES ASSUME NEW u \in Task, OnWire(u)' PROVE Holds(u)'
      OBVIOUS
    <3>1. Holds(u) /\ u # t
      BY <2>3 DEF LockInv, HolderOnWire
    <3>2. n # 1
      BY <3>1, <2>1, <1>t DEF Holds, PortTyped
    <3> QED
      BY <3>1, <3>2, <2>2 DEF Holds
  <2>5. latch' \in BOOLEAN
    BY <1>26 DEF CancelWait
  <2>6. /\ pc' \in [Task -> Stage]
        /\ job' \in [Task -> {NoJob} \union Requests]
        /\ \A u \in Task : Captured(u)'
    BY <1>26, <1>t, ReturnTyped DEF CancelWait
  <2> QED
    BY <1>26, <1>t, <2>2, <2>4, <2>5, <2>6 DEF CancelWait, LockInv, PortTyped, HolderOnWire
<1>27. CASE UNCHANGED vars
  BY <1>27 DEF vars, LockInv, PortTyped, Captured, HolderOnWire, OnWire, Holds
<1> QED
  BY <1>1, <1>2, <1>3, <1>4, <1>5, <1>6, <1>7, <1>8, <1>9, <1>10, <1>11, <1>12,
     <1>13, <1>14, <1>15, <1>16, <1>17, <1>18, <1>19, <1>20, <1>21, <1>22,
     <1>23, <1>24, <1>25, <1>26, <1>27, <1>28 DEF Next, Call, Progress

LEMMA LockInvariant == Spec => []LockInv
  BY InitLock, LockStep, PTL DEF Spec

LEMMA LooseStep == loose \subseteq Session /\ [Next]_vars => (loose \subseteq Session)'
<1> SUFFICES ASSUME loose \subseteq Session, [Next]_vars PROVE loose' \subseteq Session
  OBVIOUS
<1>1. CASE UNCHANGED vars
  BY <1>1 DEF vars
<1>2. ASSUME NEW t \in Task, Call(t) PROVE loose' \subseteq Session
  BY <1>2 DEF Call, Execute, ChangeUnitId, ChangeBaudRate, EnterStream
<1>3. ASSUME NEW t \in Task,
             \/ Acquire(t) \/ SendCommand(t) \/ ReadReply(t) \/ SendRename(t) \/ SendBaud(t)
             \/ WriteRaises(t) \/ AckFails(t) \/ Verified(t) \/ VerifyFails(t)
             \/ RefuseStream(t) \/ MarkStreaming(t) \/ StartStream(t) \/ LeaveStream(t)
             \/ LeaveCancelled(t) \/ AskToStop(t) \/ AcquireToStop(t) \/ Drained(t)
      PROVE  loose' = loose
  BY <1>3 DEF Acquire, SendCommand, ReadReply, SendRename, SendBaud, WriteRaises, AckFails,
              Verified, VerifyFails, RefuseStream, MarkStreaming, StartStream, LeaveStream,
              LeaveCancelled, AskToStop, AcquireToStop, Drained
<1>4. ASSUME NEW t \in Task,
             \/ StartRaises(t) \/ Reopen(t) \/ ReopenFails(t) \/ StopStream(t)
             \/ StopCancelled(t) \/ CancelWait(t)
      PROVE  loose' \subseteq Session
  BY <1>4 DEF StartRaises, Reopen, ReopenFails, StopStream, StopCancelled, CancelWait, LetGo
<1> QED
  BY <1>1, <1>2, <1>3, <1>4 DEF Next, Progress

\* Every variable of the port has its type in every reachable state, and the
\* operation a task captured fits the await it is at.
THEOREM TypeCorrect == Spec => []TypeOK
<1>1. Init => loose \subseteq Session
  BY DEF Init
<1>2. LockInv /\ loose \subseteq Session => TypeOK
  BY DEF LockInv, TypeOK
<1> QED
  BY <1>1, <1>2, LooseStep, LockInvariant, PTL DEF Spec

\* Whatever raises and whoever is cancelled, two tasks are never both in the
\* middle of a transaction: being on the wire means being the lock's owner.
THEOREM InFlight == Spec => []OneInFlight
<1>1. LockInv => OneInFlight
  BY DEF LockInv, HolderOnWire, OneInFlight, Holds
<1> QED
  BY <1>1, LockInvariant, PTL

-----------------------------------------------------------------------------
(* What a step does to the wire and to the stream, seen from outside: the  *)
(* same six kinds prove that the latch is owned and that the port          *)
(* implements the arbiter.                                                  *)

OthersKept(t) == \A u \in Task \ {t} :
    OnWire(u)' = OnWire(u) /\ Streams(u)' = Streams(u)

Unseen(t) == OnWire(t)' = OnWire(t) /\ Streams(t)' = Streams(t) /\ latch' = latch

Begins(t) == /\ Holds(t) /\ ~OnWire(t) /\ OnWire(t)'
             /\ Streams(t)' = Streams(t) /\ latch' = latch

Ends(t) == /\ OnWire(t) /\ ~OnWire(t)'
           /\ Streams(t)' = Streams(t) /\ latch' = latch

Opens(t) == /\ Holds(t) /\ ~OnWire(t) /\ OnWire(t)'
            /\ ~Streams(t) /\ Streams(t)' /\ ~latch /\ latch'

Closes(t) == Streams(t) /\ ~Streams(t)' /\ ~OnWire(t)' /\ latch' = FALSE

Leaks(t) == /\ Streams(t) /\ ~Streams(t)' /\ ~OnWire(t)'
            /\ latch' = latch /\ "leave" \in Cancellable

Kinds(t) == \/ Unseen(t) \/ Begins(t) \/ Ends(t)
            \/ Opens(t) \/ Closes(t) \/ Leaks(t)

\* A step of one task leaves the pc and the job of the others alone.
LEMMA OnlyOne ==
    ASSUME PortTyped, NEW t \in Task, NEW st, pc' = [pc EXCEPT ![t] = st],
           \/ UNCHANGED job
           \/ \E j : job' = [job EXCEPT ![t] = j]
    PROVE  pc'[t] = st /\ OthersKept(t)
<1>1. pc'[t] = st
  BY DEF PortTyped
<1>2. \A u \in Task \ {t} : pc'[u] = pc[u] /\ job'[u] = job[u]
  BY DEF PortTyped
<1> QED
  BY <1>1, <1>2 DEF OthersKept, OnWire, Streams

LEMMA StepKinds ==
    ASSUME LockInv, Next
    PROVE  \E t \in Task : OthersKept(t) /\ Kinds(t)
<1>t. PortTyped
  BY DEF LockInv
<1> DEFINE Seen == \E t \in Task : OthersKept(t) /\ Kinds(t)
<1>1. ASSUME NEW t \in Task, NEW s \in Session, NEW op \in {"exec", "rename", "baud", "start"},
             NEW arg, Enqueue(t, Request(op, s, arg)), UNCHANGED latch
      PROVE  OthersKept(t) /\ Unseen(t)
  <2>1. pc[t] = "idle" /\ pc'[t] = "wait" /\ OthersKept(t)
    BY <1>1, <1>t, OnlyOne DEF Enqueue
  <2>2. job'[t].op # "stop"
    BY <1>1, <1>t DEF Enqueue, Request, PortTyped
  <2> QED
    BY <1>1, <2>1, <2>2 DEF Unseen, OnWire, Streams
<1>2. ASSUME NEW t \in Task, Call(t) PROVE OthersKept(t) /\ Unseen(t)
  BY <1>2, <1>1 DEF Call, Execute, ChangeUnitId, ChangeBaudRate, EnterStream
<1>3. ASSUME NEW t \in Task, Acquire(t) PROVE OthersKept(t) /\ Begins(t)
  BY <1>3, <1>t, OnlyOne DEF Acquire, Goto, Begins, OnWire, Streams
<1>4. ASSUME NEW t \in Task, AcquireToStop(t) PROVE OthersKept(t) /\ Begins(t)
  BY <1>4, <1>t, OnlyOne DEF AcquireToStop, Goto, Begins, OnWire, Streams
<1>5. ASSUME NEW t \in Task, MarkStreaming(t) PROVE OthersKept(t) /\ Opens(t)
  BY <1>5, <1>t, OnlyOne DEF MarkStreaming, Goto, Opens, OnWire, Streams
<1>6. ASSUME NEW t \in Task, Return(t),
             pc[t] \in {"write", "read", "ack", "verify"}, UNCHANGED latch
      PROVE  OthersKept(t) /\ Ends(t)
  BY <1>6, <1>t, OnlyOne DEF Return, Ends, OnWire, Streams
<1>7. ASSUME NEW t \in Task, Return(t),
             pc[t] \in {"start", "stop", "drain"}, latch' = FALSE
      PROVE  OthersKept(t) /\ Closes(t)
  <2>1. pc'[t] = "idle" /\ OthersKept(t)
    BY <1>7, <1>t, OnlyOne DEF Return
  <2> QED
    BY <1>7, <2>1 DEF Closes, OnWire, Streams
<1>8. ASSUME NEW t \in Task, NEW st \in {"write", "read", "ack", "verify"}, Goto(t, st),
             pc[t] \in {"write", "read", "ack", "verify"}, UNCHANGED latch,
             \/ UNCHANGED job
             \/ \E h : job' = [job EXCEPT ![t].heard = h]
      PROVE  OthersKept(t) /\ Unseen(t)
  <2>1. pc'[t] = st
    BY <1>8, <1>t DEF Goto, PortTyped
  <2>2. \E j : job' = [job EXCEPT ![t] = j] \/ UNCHANGED job
    BY <1>8
  <2>3. OthersKept(t)
    BY <1>8, <1>t, <2>2, OnlyOne DEF Goto
  <2> QED
    BY <1>8, <2>1, <2>3 DEF Unseen, OnWire, Streams
<1>9. ASSUME NEW t \in Task, RefuseStream(t) PROVE OthersKept(t) /\ Unseen(t)
  <2>1. pc'[t] = "idle" /\ OthersKept(t)
    BY <1>9, <1>t, OnlyOne DEF RefuseStream, Return
  <2> QED
    BY <1>9, <2>1 DEF RefuseStream, Unseen, OnWire, Streams
<1>10. ASSUME NEW t \in Task, StartStream(t) PROVE OthersKept(t) /\ Ends(t)
  <2>1. pc'[t] = "streaming" /\ OthersKept(t)
    BY <1>10, <1>t, OnlyOne DEF StartStream, Goto
  <2> QED
    BY <1>10, <2>1 DEF StartStream, Ends, OnWire, Streams
<1>11. ASSUME NEW t \in Task, AskToStop(t) PROVE OthersKept(t) /\ Unseen(t)
  <2>1. pc[t] = "leave" /\ pc'[t] = "wait" /\ OthersKept(t)
    BY <1>11, <1>t, OnlyOne DEF AskToStop, Goto
  <2>2. job[t] \in Requests
    BY <2>1, <1>t, JobFields
  <2>3. job'[t] = [job[t] EXCEPT !.op = "stop"]
    BY <1>11, <1>t DEF AskToStop, PortTyped
  <2>4. job'[t].op = "stop"
    BY <2>2, <2>3 DEF Requests
  <2> QED
    BY <1>11, <2>1, <2>4 DEF AskToStop, Unseen, OnWire, Streams
<1>12. ASSUME NEW t \in Task, StopStream(t) PROVE OthersKept(t) /\ Unseen(t)
  <2>1. pc'[t] = "drain" /\ OthersKept(t)
    BY <1>12, <1>t, OnlyOne DEF StopStream, Goto
  <2> QED
    BY <1>12, <2>1 DEF StopStream, Unseen, OnWire, Streams
<1>13. ASSUME NEW t \in Task, LeaveStream(t) PROVE OthersKept(t) /\ Unseen(t)
  <2>1. pc'[t] = "leave" /\ OthersKept(t)
    BY <1>13, <1>t, OnlyOne DEF LeaveStream, Goto
  <2> QED
    BY <1>13, <2>1 DEF LeaveStream, Unseen, OnWire, Streams
<1>14. ASSUME NEW t \in Task, CancelWait(t)
       PROVE  OthersKept(t) /\ (Unseen(t) \/ Closes(t))
  <2>1. pc[t] = "wait" /\ pc'[t] = "idle" /\ OthersKept(t)
    BY <1>14, <1>t, OnlyOne DEF CancelWait, Return
  <2>2. CASE job[t].op = "stop"
    BY <1>14, <2>1, <2>2 DEF CancelWait, Closes, OnWire, Streams
  <2>3. CASE job[t].op # "stop"
    BY <1>14, <1>t, <2>1, <2>3 DEF CancelWait, Unseen, OnWire, Streams, PortTyped
  <2> QED
    BY <2>1, <2>2, <2>3
<1>21. ASSUME NEW t \in Task, LeaveCancelled(t) PROVE OthersKept(t) /\ Leaks(t)
  <2>1. pc[t] = "leave" /\ pc'[t] = "idle" /\ OthersKept(t)
    BY <1>21, <1>t, OnlyOne DEF LeaveCancelled, Return
  <2> QED
    BY <1>21, <2>1 DEF LeaveCancelled, Leaks, OnWire, Streams
<1>15. ASSUME NEW t \in Task, SendCommand(t) \/ ReadReply(t) PROVE Seen
  BY <1>15, <1>6, <1>8 DEF SendCommand, ReadReply, Kinds
<1>16. ASSUME NEW t \in Task, SendRename(t) \/ SendBaud(t) \/ WriteRaises(t) PROVE Seen
  BY <1>16, <1>6, <1>8 DEF SendRename, SendBaud, WriteRaises, Kinds
<1>17. ASSUME NEW t \in Task, Reopen(t) \/ ReopenFails(t) \/ AckFails(t) PROVE Seen
  BY <1>17, <1>6, <1>8 DEF Reopen, ReopenFails, AckFails, Break, Kinds
<1>18. ASSUME NEW t \in Task, Verified(t) \/ VerifyFails(t) PROVE Seen
  BY <1>18, <1>6 DEF Verified, VerifyFails, Break, Kinds
<1>19. ASSUME NEW t \in Task, StartRaises(t) \/ StopCancelled(t) \/ Drained(t) PROVE Seen
  BY <1>19, <1>7 DEF StartRaises, StopCancelled, Drained, Kinds
<1>20. ASSUME NEW t \in Task, Call(t) \/ Progress(t) \/ LeaveStream(t)
                              \/ LeaveCancelled(t) \/ StopCancelled(t) \/ Drained(t) \/ CancelWait(t)
       PROVE  Seen
  BY <1>20, <1>2, <1>3, <1>4, <1>5, <1>9, <1>10, <1>11, <1>12, <1>13, <1>14,
     <1>15, <1>16, <1>17, <1>18, <1>19, <1>21 DEF Progress, Kinds
<1> QED
  BY <1>20 DEF Next

LEMMA LatchStep == LockInv /\ LatchIsOwned /\ [Next]_vars => LatchIsOwned'
<1> SUFFICES ASSUME LockInv, LatchIsOwned, [Next]_vars PROVE LatchIsOwned'
  OBVIOUS
<1>1. CASE UNCHANGED vars
  BY <1>1 DEF vars, LatchIsOwned, Streams
<1>2. CASE Next
  <2>1. PICK t \in Task : OthersKept(t) /\ Kinds(t)
    BY <1>2, StepKinds
  <2>2. ASSUME NEW u \in Task, u # t PROVE Streams(u)' = Streams(u)
    BY <2>1, <2>2 DEF OthersKept
  <2>3. CASE Streams(t)' = Streams(t) /\ latch' = latch
    BY <2>2, <2>3 DEF LatchIsOwned
  <2>4. CASE Opens(t)
    <3>1. \A u \in Task : ~Streams(u)
      BY <2>4 DEF Opens, LatchIsOwned
    <3>2. \A u \in Task : Streams(u)' => u = t
      BY <3>1, <2>2
    <3>3. latch' /\ Streams(t)'
      BY <2>4 DEF Opens
    <3>4. latch' \in BOOLEAN
      BY LockStep DEF LockInv, PortTyped
    <3> QED
      BY <3>2, <3>3, <3>4 DEF LatchIsOwned
  <2>5. CASE Closes(t)
    <3>1. \A u \in Task : ~Streams(u)'
      BY <2>2, <2>5 DEF Closes, LatchIsOwned
    <3> QED
      BY <3>1, <2>5 DEF Closes, LatchIsOwned
  <2>6. CASE Leaks(t)
    <3>1. \A u \in Task : ~Streams(u)'
      BY <2>2, <2>6 DEF Leaks, LatchIsOwned
    <3> QED
      BY <3>1, <2>6 DEF Leaks, LatchIsOwned
  <2> QED
    BY <2>1, <2>3, <2>4, <2>5, <2>6 DEF Kinds, Unseen, Begins, Ends
<1> QED
  BY <1>1, <1>2

\* The latch is set while one stream is between its start and the end of its
\* exit: no raise, refusal or cancellation clears another's, and none leaves it
\* set behind but a cancellation at the beginning of an exit.
THEOREM LatchOwned == Spec => []LatchIsOwned
<1>1. Init => LatchIsOwned
  BY DEF Init, LatchIsOwned, Streams, NoJob
<1> QED
  BY <1>1, LatchStep, LockInvariant, PTL DEF Spec

-----------------------------------------------------------------------------
(* What a stream leaves behind when it is over.                            *)

\* The device of s streams for a StreamingSession whose stop it will hear.
Attended(s) ==
    /\ latch /\ line.open /\ dev[s].baud = line.baud
    /\ \A t \in Task : pc[t] # "drain"

ExitInv == \A s \in Session : dev[s].id = At => s \in loose \/ Attended(s)

\* A step that sets no device streaming, moves none that streams and leaves the port alone.
LEMMA StreamsKept ==
    ASSUME PortTyped, ExitInv, NEW t \in Task, NEW st, st # "drain",
           pc' = [pc EXCEPT ![t] = st], latch => latch', UNCHANGED <<line, loose>>,
           \A s \in Session : dev'[s].id = At => dev[s].id = At /\ dev'[s].baud = dev[s].baud
    PROVE  ExitInv'
<1>1. ASSUME \A u \in Task : pc[u] # "drain" PROVE \A u \in Task : pc'[u] # "drain"
  BY <1>1 DEF PortTyped
<1>2. ASSUME NEW s \in Session, Attended(s), dev'[s].baud = dev[s].baud PROVE Attended(s)'
  BY <1>1, <1>2 DEF Attended
<1> QED
  BY <1>2 DEF ExitInv

\* What was sent to a unit id was not heard by a device that streams.
LEMMA SentPast ==
    ASSUME PortTyped, NEW i \in UnitId, NEW heard \in Outcomes(i),
           \/ \E x \in UnitId : Readdress(heard, x)
           \/ \E b : Retune(heard, b)
    PROVE  \A s \in Session : dev'[s].id = At => dev[s].id = At /\ dev'[s].baud = dev[s].baud
<1>1. \A s \in Session : dev[s].id = At => s \notin heard
  BY PortAssumption DEF Outcomes, Hears
<1>2. ASSUME NEW x \in UnitId, Readdress(heard, x), NEW s \in Session, dev'[s].id = At
      PROVE  dev[s].id = At /\ dev'[s].baud = dev[s].baud
  <2>1. s \in heard => dev'[s].id = x
    BY <1>2 DEF Readdress, PortTyped
  <2> QED
    BY <1>2, <2>1, PortAssumption DEF Readdress
<1>3. ASSUME NEW b, Retune(heard, b), NEW s \in Session, dev'[s].id = At
      PROVE  dev[s].id = At /\ dev'[s].baud = dev[s].baud
  <2>1. s \notin heard => dev'[s] = dev[s]
    BY <1>3 DEF Retune
  <2>2. s \in heard => dev'[s].id = dev[s].id
    BY <1>3 DEF Retune, PortTyped
  <2> QED
    BY <1>1, <1>3, <2>1, <2>2
<1> QED
  BY <1>2, <1>3

LEMMA ExitStep == LockInv /\ LatchIsOwned /\ ExitInv /\ [Next]_vars => ExitInv'
<1> SUFFICES ASSUME LockInv, LatchIsOwned, ExitInv, [Next]_vars PROVE ExitInv'
  OBVIOUS
<1>t. PortTyped
  BY DEF LockInv
<1>g. ASSUME LetGo PROVE ExitInv'
  BY <1>g DEF LetGo, ExitInv
<1>1. CASE UNCHANGED vars
  BY <1>1 DEF vars, ExitInv, Attended
<1>2. ASSUME NEW t \in Task, Call(t) PROVE ExitInv'
  <2>1. pc' = [pc EXCEPT ![t] = "wait"] /\ UNCHANGED <<latch, dev, line, loose>>
    BY <1>2 DEF Call, Execute, ChangeUnitId, ChangeBaudRate, EnterStream, Enqueue
  <2> QED
    BY <1>t, <2>1, StreamsKept
<1>3. ASSUME NEW t \in Task,
             \/ Acquire(t) \/ SendCommand(t) \/ ReadReply(t) \/ AckFails(t)
             \/ Verified(t) \/ VerifyFails(t) \/ RefuseStream(t) \/ MarkStreaming(t)
             \/ LeaveStream(t) \/ LeaveCancelled(t) \/ AskToStop(t) \/ AcquireToStop(t)
      PROVE  ExitInv'
  <2>1. /\ \E st \in {"idle", "wait", "write", "read", "start", "leave", "stop"} :
            pc' = [pc EXCEPT ![t] = st]
        /\ UNCHANGED <<dev, line, loose>>
        /\ latch => latch'
    BY <1>3 DEF Acquire, SendCommand, ReadReply, AckFails, Break, Verified, VerifyFails,
                RefuseStream, MarkStreaming, LeaveStream, LeaveCancelled, AskToStop,
                AcquireToStop, Return, Goto
  <2> QED
    BY <1>t, <2>1, StreamsKept
<1>4. ASSUME NEW t \in Task, SendRename(t) \/ SendBaud(t) \/ WriteRaises(t) PROVE ExitInv'
  <2>1. /\ pc[t] = "write" /\ job[t].id \in UnitId
        /\ job[t].op = "rename" => job[t].arg \in UnitId
    <3>1. pc[t] = "write"
      BY <1>4 DEF SendRename, SendBaud, WriteRaises
    <3> QED
      BY <1>t, <3>1, JobFields DEF Requests
  <2>2. /\ \E st \in {"verify", "ack", "idle"} : pc' = [pc EXCEPT ![t] = st]
        /\ UNCHANGED <<latch, line, loose>>
    BY <1>4 DEF SendRename, SendBaud, WriteRaises, Return, Goto
  <2>3. \/ \E heard \in Outcomes(job[t].id) :
            \/ \E x \in UnitId : Readdress(heard, x)
            \/ \E b : Retune(heard, b)
        \/ dev' = dev
    <3>1. CASE SendRename(t) \/ SendBaud(t)
      BY <2>1, <3>1 DEF SendRename, SendBaud
    <3>2. CASE WriteRaises(t) /\ job[t].op = "rename"
      BY <2>1, <3>2 DEF WriteRaises
    <3>3. CASE WriteRaises(t) /\ job[t].op # "rename"
      BY <3>3 DEF WriteRaises
    <3> QED
      BY <1>4, <3>1, <3>2, <3>3
  <2>4. \A s \in Session : dev'[s].id = At => dev[s].id = At /\ dev'[s].baud = dev[s].baud
    BY <1>t, <2>1, <2>3, SentPast
  <2> QED
    BY <1>t, <2>2, <2>4, StreamsKept
<1>5. ASSUME NEW t \in Task, Reopen(t) PROVE ExitInv'
  <2>1. /\ line'.open /\ line'.baud = job[t].arg /\ UNCHANGED <<latch, dev>>
        /\ loose' = loose \union {s \in Session : dev[s].id = At /\ dev[s].baud # job[t].arg}
        /\ pc' = [pc EXCEPT ![t] = "verify"]
    BY <1>5 DEF Reopen, Goto
  <2>2. ASSUME NEW s \in Session, dev[s].id = At, s \notin loose' PROVE Attended(s)'
    <3>1. Attended(s) /\ dev[s].baud = job[t].arg
      BY <2>1, <2>2 DEF ExitInv
    <3>2. \A u \in Task : pc'[u] # "drain"
      BY <1>t, <2>1, <3>1 DEF Attended, PortTyped
    <3> QED
      BY <2>1, <3>1, <3>2 DEF Attended
  <2> QED
    BY <2>1, <2>2 DEF ExitInv
<1>6. ASSUME NEW t \in Task, StartStream(t) PROVE ExitInv'
  <2>1. /\ pc[t] = "start" /\ line.open /\ UNCHANGED <<latch, line, loose>>
        /\ pc' = [pc EXCEPT ![t] = "streaming"]
    BY <1>6 DEF StartStream, Goto
  <2>2. latch /\ \A u \in Task : pc[u] # "drain"
    BY <2>1 DEF LatchIsOwned, Streams
  <2>3. \A u \in Task : pc'[u] # "drain"
    BY <1>t, <2>1, <2>2 DEF PortTyped
  <2>4. PICK heard \in Outcomes(sess[job[t].sess].id) : Readdress(heard, At)
    BY <1>6 DEF StartStream
  <2>5. ASSUME NEW s \in Session, dev'[s].id = At, s \notin loose PROVE Attended(s)'
    <3>1. CASE s \in heard
      <4>1. dev'[s].baud = line.baud
        BY <1>t, <2>4, <3>1 DEF Outcomes, Hears, Readdress, PortTyped
      <4> QED
        BY <2>1, <2>2, <2>3, <4>1 DEF Attended
    <3>2. CASE s \notin heard
      <4>1. dev'[s] = dev[s]
        BY <2>4, <3>2 DEF Readdress
      <4>2. Attended(s)
        BY <2>5, <4>1 DEF ExitInv
      <4> QED
        BY <2>1, <2>3, <4>1, <4>2 DEF Attended
    <3> QED
      BY <3>1, <3>2
  <2> QED
    BY <2>1, <2>5 DEF ExitInv
<1>7. ASSUME NEW t \in Task, StopStream(t) PROVE ExitInv'
  <2>1. CASE LetGo
    BY <1>g, <2>1
  <2>2. CASE Readdress(Hears(At), sess[job[t].sess].id) /\ loose' = loose \ Hears(At)
    <3>1. sess[job[t].sess].id \in UnitId
      BY <1>7, <1>t, JobFields DEF StopStream, PortTyped
    <3>2. ASSUME NEW s \in Session, dev'[s].id = At PROVE s \in loose'
      <4>1. s \notin Hears(At)
        BY <1>t, <2>2, <3>1, <3>2, PortAssumption DEF Readdress, PortTyped
      <4>2. dev[s].id = At
        BY <2>2, <3>2, <4>1 DEF Readdress
      <4>3. s \in loose
        BY <4>1, <4>2 DEF ExitInv, Attended, Hears
      <4> QED
        BY <2>2, <4>1, <4>3
    <3> QED
      BY <3>2 DEF ExitInv
  <2> QED
    BY <1>7, <2>1, <2>2 DEF StopStream
<1>8. ASSUME NEW t \in Task, Drained(t) PROVE ExitInv'
  <2>1. pc[t] = "drain" /\ UNCHANGED <<dev, loose>>
    BY <1>8 DEF Drained
  <2> QED
    BY <2>1 DEF ExitInv, Attended
<1>9. ASSUME NEW t \in Task, CancelWait(t) PROVE ExitInv'
  <2>1. CASE job[t].op = "stop"
    BY <1>9, <1>g, <2>1 DEF CancelWait
  <2>2. CASE job[t].op # "stop"
    <3>1. /\ pc' = [pc EXCEPT ![t] = "idle"] /\ UNCHANGED <<dev, line, loose>>
          /\ latch => latch'
      BY <1>9, <2>2 DEF CancelWait, Return
    <3> QED
      BY <1>t, <3>1, StreamsKept
  <2> QED
    BY <2>1, <2>2
<1>10. ASSUME NEW t \in Task, StartRaises(t) \/ ReopenFails(t) \/ StopCancelled(t) PROVE ExitInv'
  BY <1>10, <1>g DEF StartRaises, ReopenFails, StopCancelled
<1> QED
  BY <1>1, <1>2, <1>3, <1>4, <1>5, <1>6, <1>7, <1>8, <1>9, <1>10 DEF Next, Progress

\* However many streams, renames and rate changes a port goes through, and whatever fails
\* or is cancelled in them: while the latch is clear no device streams but one that was let
\* go - its start raised, its stop was lost, or the rate was moved under it.
THEOREM ExitStops == Spec => []StoppedOnExit
<1>1. Init => ExitInv
  BY PortAssumption DEF Init, ExitInv
<1>2. ExitInv => StoppedOnExit
  BY DEF ExitInv, Attended, StoppedOnExit
<1>3. Init => LatchIsOwned
  BY DEF Init, LatchIsOwned, Streams, NoJob
<1> QED
  BY <1>1, <1>2, <1>3, LatchStep, ExitStep, LockInvariant, PTL DEF Spec

-----------------------------------------------------------------------------
(* Refinement.                                                             *)

LEMMA ArbStep == LockInv /\ LatchIsOwned /\ [Next]_vars => [Arb!ArbNext]_(Arb!arbVars)
<1> DEFINE wire == {t \in Task : OnWire(t)}
           streams == {t \in Task : Streams(t)}
<1> SUFFICES ASSUME LockInv, LatchIsOwned, [Next]_vars
             PROVE  [Arb!ArbNext]_(Arb!arbVars)
  OBVIOUS
<1>1. CASE UNCHANGED vars
  <2>1. wire' = wire /\ streams' = streams
    BY <1>1 DEF vars, OnWire, Streams
  <2> QED
    BY <2>1 DEF Arb!arbVars
<1>2. CASE Next
  <2>1. PICK t \in Task : OthersKept(t) /\ Kinds(t)
    BY <1>2, StepKinds
  <2>2. /\ wire' \ {t} = wire \ {t}
        /\ streams' \ {t} = streams \ {t}
    BY <2>1 DEF OthersKept
  <2>3. /\ t \in wire <=> OnWire(t)
        /\ t \in wire' <=> OnWire(t)'
        /\ t \in streams <=> Streams(t)
        /\ t \in streams' <=> Streams(t)'
    OBVIOUS
  <2>4. Holds(t) /\ ~OnWire(t) => wire = {}
    BY DEF LockInv, HolderOnWire, Holds
  <2>5. OnWire(t) => wire = {t}
    BY DEF LockInv, HolderOnWire, Holds
  <2>6. Streams(t) => streams = {t}
    BY DEF LatchIsOwned
  <2>7. ~latch => streams = {}
    BY DEF LatchIsOwned
  <2> HIDE DEF wire, streams
  <2>8. CASE Unseen(t)
    <3>1. wire' = wire /\ streams' = streams
      BY <2>2, <2>3, <2>8 DEF Unseen
    <3> QED
      BY <3>1 DEF Arb!arbVars, wire, streams
  <2>9. CASE Begins(t)
    <3>1. wire = {} /\ wire' = {t} /\ streams' = streams
      BY <2>2, <2>3, <2>4, <2>9 DEF Begins
    <3> QED
      BY <3>1 DEF Arb!ArbNext, Arb!Begin, wire, streams
  <2>10. CASE Ends(t)
    <3>1. wire = {t} /\ wire' = {} /\ streams' = streams
      BY <2>2, <2>3, <2>5, <2>10 DEF Ends
    <3> QED
      BY <3>1 DEF Arb!ArbNext, Arb!End, wire, streams
  <2>11. CASE Opens(t)
    <3>1. wire = {} /\ streams = {} /\ wire' = {t} /\ streams' = {t}
      BY <2>2, <2>3, <2>4, <2>7, <2>11 DEF Opens
    <3> QED
      BY <3>1 DEF Arb!ArbNext, Arb!BeginStream, wire, streams
  <2>12. CASE Closes(t)
    <3>1. streams = {t} /\ streams' = {} /\ wire' = wire \ {t}
      BY <2>2, <2>3, <2>6, <2>12 DEF Closes
    <3> QED
      BY <3>1 DEF Arb!ArbNext, Arb!EndStream, wire, streams
  <2>13. CASE Leaks(t)
    <3>1. streams = {t} /\ streams' = {} /\ wire' = wire \ {t}
      BY <2>2, <2>3, <2>6, <2>13 DEF Leaks
    <3> QED
      BY <3>1 DEF Arb!ArbNext, Arb!EndStream, wire, streams
  <2> QED
    BY <2>1, <2>8, <2>9, <2>10, <2>11, <2>12, <2>13 DEF Kinds
<1> QED
  BY <1>1, <1>2

\* The port, with its lock, latch, cancellations and failures, implements the
\* arbiter: one transaction at a time, one streamer at a time.
THEOREM Implements == Spec => Arbitrates
<1>1. Init => Arb!ArbInit
  BY DEF Init, Arb!ArbInit, OnWire, Streams, NoJob
<1> QED
  BY <1>1, ArbStep, LockInvariant, LatchOwned, PTL DEF Spec, Arbitrates, Arb!Arbiter

-----------------------------------------------------------------------------
(* The rate.                                                               *)

\* Every step is one task's: the others stay at their awaits.
LEMMA OneMoves ==
    ASSUME NEW t \in Task,
           \/ Call(t) \/ Progress(t) \/ LeaveStream(t) \/ LeaveCancelled(t)
           \/ StopCancelled(t) \/ Drained(t) \/ CancelWait(t)
    PROVE  \E st : pc' = [pc EXCEPT ![t] = st]
<1> DEFINE Goes == \E st : pc' = [pc EXCEPT ![t] = st]
<1>1. ASSUME Return(t) PROVE Goes
  BY <1>1 DEF Return
<1>2. ASSUME NEW st, Goto(t, st) PROVE Goes
  BY <1>2 DEF Goto
<1>3. ASSUME NEW j, Enqueue(t, j) PROVE Goes
  BY <1>3 DEF Enqueue
<1> HIDE DEF Goes
<1>4. ASSUME Call(t) PROVE Goes
  BY <1>3, <1>4 DEF Call, Execute, ChangeUnitId, ChangeBaudRate, EnterStream
<1>5. ASSUME \/ Acquire(t) \/ SendRename(t) \/ SendBaud(t) \/ Reopen(t) \/ MarkStreaming(t)
             \/ StartStream(t) \/ LeaveStream(t) \/ AskToStop(t) \/ AcquireToStop(t)
             \/ StopStream(t) \/ SendCommand(t)
      PROVE  Goes
  BY <1>1, <1>2, <1>5 DEF Acquire, SendRename, SendBaud, Reopen, MarkStreaming, StartStream,
     LeaveStream, AskToStop, AcquireToStop, StopStream, SendCommand
<1>6. ASSUME \/ ReadReply(t) \/ WriteRaises(t) \/ ReopenFails(t) \/ AckFails(t) \/ Verified(t)
             \/ VerifyFails(t) \/ RefuseStream(t) \/ StartRaises(t) \/ LeaveCancelled(t)
             \/ StopCancelled(t) \/ Drained(t) \/ CancelWait(t)
      PROVE  Goes
  BY <1>1, <1>6 DEF ReadReply, WriteRaises, ReopenFails, AckFails, Verified, VerifyFails, Break,
     RefuseStream, StartRaises, LeaveCancelled, StopCancelled, Drained, CancelWait
<1> QED
  BY <1>4, <1>5, <1>6 DEF Progress, Goes

\* A change_baud_rate that returns normally leaves the transport open at the rate of its
\* own session's device, as long as no other device has that address: with every failure
\* of the write, the acknowledgement, the reopening and the verification.
THEOREM RateReconciled == Spec => BaudReconciled
<1> DEFINE Agrees(t) == LET s == job[t].sess IN
        (/\ pc[t] = "verify" /\ job[t].op = "baud" /\ pc'[t] = "idle"
         /\ sess'[s].state = "OPERATIONAL"
         /\ \A r \in Session \ {s} : dev[r].id # sess[s].id)
            => line.open /\ dev[s].baud = line.baud
           A == \A t \in Task : Agrees(t)
<1>1. ASSUME LockInv, [Next]_vars PROVE [A]_vars
  <2> SUFFICES ASSUME NEW u \in Task,
                      \/ Call(u) \/ Progress(u) \/ LeaveStream(u) \/ LeaveCancelled(u)
                      \/ StopCancelled(u) \/ Drained(u) \/ CancelWait(u),
                      NEW t \in Task, pc[t] = "verify", job[t].op = "baud", pc'[t] = "idle",
                      sess'[job[t].sess].state = "OPERATIONAL",
                      \A r \in Session \ {job[t].sess} : dev[r].id # sess[job[t].sess].id
               PROVE  line.open /\ dev[job[t].sess].baud = line.baud
    BY <1>1 DEF Next
  <2>0. job[t].sess \in Session
    BY <1>1, JobFields DEF LockInv
  <2>1. u = t
    BY <1>1, OneMoves DEF LockInv, PortTyped
  <2>2. Verified(t) \/ VerifyFails(t)
    BY <2>1 DEF Call, Execute, ChangeUnitId, ChangeBaudRate, EnterStream, Enqueue, Progress,
       Acquire, SendCommand, ReadReply, SendRename, SendBaud, WriteRaises, Reopen, ReopenFails,
       AckFails, RefuseStream, MarkStreaming, StartStream, StartRaises, AskToStop,
       AcquireToStop, StopStream, LeaveStream, LeaveCancelled, StopCancelled, Drained, CancelWait
  <2>3. ~VerifyFails(t)
    BY <1>1, <2>0 DEF VerifyFails, Break, LockInv, PortTyped
  <2>4. Hears(sess[job[t].sess].id) # {}
    BY <2>2, <2>3 DEF Verified, Expected
  <2> QED
    BY <2>4 DEF Hears
<1> QED
  BY <1>1, LockInvariant, PTL DEF Spec, BaudReconciled

-----------------------------------------------------------------------------
(* Who is addressed: renames, streams, stale commands and cancellations, as *)
(* long as one rate is used and no stop-stream is lost.                     *)

\* What port_rename assumes: nobody changes the rate to another one, no write fails by
\* itself, and a stream's start, its exit's wait for the lock and its stop are not
\* cancelled.  Requests, renames and the beginning of an exit may be.
NoStopLost ==
    /\ Baud = {HomeBaud}
    /\ ~Faults
    /\ Cancellable \subseteq {"wait", "write", "leave"}

-----------------------------------------------------------------------------
(* The queue.                                                              *)

\* Task t is ahead of task u in the queue of the lock.
Before(t, u) == \E i, j \in DOMAIN lock : i < j /\ lock[i] = t /\ lock[j] = u

\* The queue holds whoever waits, once, and nobody who is done.
QueueSound ==
    /\ \A i, j \in DOMAIN lock : lock[i] = lock[j] => i = j
    /\ \A i \in DOMAIN lock : pc[lock[i]] = "wait" \/ OnWire(lock[i])
    /\ \A t \in Task : pc[t] = "wait" => \E i \in DOMAIN lock : lock[i] = t

-----------------------------------------------------------------------------
(* Addresses.                                                              *)

\* The command of task t is encoded and not yet sent.
Pending(t) == pc[t] \in {"wait", "write"} /\ job[t].op \in {"exec", "rename", "baud"}

Renames(t) == job[t].op = "rename"

\* An address is cached by one session, held by its device or promised to one rename.
IdsDisjoint == \A s, r \in Session : s # r =>
    sess[s].id # sess[r].id /\ dev[s].id # sess[r].id /\ dev[s].id # dev[r].id

PromisesKept ==
    /\ \A t \in Task, r \in Session :
        Renames(t) /\ r # job[t].sess => job[t].arg \notin {sess[r].id, dev[r].id}
    /\ \A t, u \in Task : Renames(t) /\ Renames(u) /\ job[t].arg = job[u].arg => t = u

\* Nobody else has, or is about to be given before the command is sent, the address a
\* command was encoded with: the queue keeps a rename to it behind the command.
EncodedOwn ==
    /\ \A t \in Task, r \in Session :
        Pending(t) /\ r # job[t].sess => job[t].id \notin {sess[r].id, dev[r].id}
    /\ \A t, u \in Task :
        (Before(u, t) /\ Renames(u) /\ Pending(t) /\ job[u].sess # job[t].sess)
            => job[u].arg # job[t].id

\* While the port is open, only the device of the streaming session answers to "@".
StreamsOwn ==
    /\ \A t \in Task : pc[t] = "ack" => line.open
    /\ line.open => \A s \in Session : dev[s].id = At =>
        /\ latch
        /\ \A t \in Task : Streams(t) => job[t].sess = s /\ pc[t] # "drain"

AddressInv == IdsDisjoint /\ PromisesKept /\ EncodedOwn /\ RightDevice /\ StreamsOwn

-----------------------------------------------------------------------------
(* How a step uses the queue.                                              *)

Moves(t, st) == pc' = [pc EXCEPT ![t] = st]

Stays(t) ==
    /\ UNCHANGED lock
    /\ \E st \in Stage : Moves(t, st) /\
         \/ /\ pc[t] = "wait" \/ OnWire(t)
            /\ st \in {"write", "read", "ack", "verify", "start", "stop", "drain"}
         \/ pc[t] \in {"streaming", "leave"} /\ st \in {"leave", "idle"}

Joins(t) == pc[t] \in {"idle", "leave"} /\ lock' = Append(lock, t) /\ Moves(t, "wait")

HandsOn(t) == /\ Holds(t) /\ Release
              /\ \E st \in {"idle", "streaming"} : Moves(t, st)

GivesUp(t) == /\ \E n \in DOMAIN lock : lock[n] = t /\ lock' = RemoveAt(lock, n)
              /\ Moves(t, "idle")

LEMMA QueueKinds ==
    ASSUME LockInv, Next
    PROVE  \E t \in Task : Stays(t) \/ Joins(t) \/ HandsOn(t) \/ GivesUp(t)
<1> DEFINE Kind(t) == Stays(t) \/ Joins(t) \/ HandsOn(t) \/ GivesUp(t)
<1>1. ASSUME NEW t \in Task, Call(t) PROVE Joins(t)
  BY <1>1 DEF Call, Execute, ChangeUnitId, ChangeBaudRate, EnterStream, Enqueue, Joins, Moves
<1>2. ASSUME NEW t \in Task, Return(t), Release,
             pc[t] \in {"write", "read", "ack", "verify", "start", "stop", "drain"}
      PROVE  HandsOn(t)
  BY <1>2, OwnerHolds DEF Return, HandsOn, Moves
<1>3. ASSUME NEW t \in Task, UNCHANGED lock,
             NEW st \in {"write", "read", "ack", "verify", "start", "stop", "drain"},
             Goto(t, st), pc[t] = "wait" \/ OnWire(t)
      PROVE  Stays(t)
  BY <1>3 DEF Goto, Stays, Moves, Stage
<1>4. ASSUME NEW t \in Task, Acquire(t) \/ AcquireToStop(t) \/ MarkStreaming(t) PROVE Stays(t)
  BY <1>4, <1>3 DEF Acquire, AcquireToStop, MarkStreaming
<1>5. ASSUME NEW t \in Task, RefuseStream(t) PROVE HandsOn(t)
  BY <1>5 DEF RefuseStream, Return, HandsOn, Moves
<1>6. ASSUME NEW t \in Task, StartStream(t) PROVE HandsOn(t)
  BY <1>6, OwnerHolds DEF StartStream, Goto, HandsOn, Moves
<1>7. ASSUME NEW t \in Task, AskToStop(t) PROVE Joins(t)
  BY <1>7 DEF AskToStop, Goto, Joins, Moves
<1>8. ASSUME NEW t \in Task, LeaveStream(t) \/ LeaveCancelled(t) PROVE Stays(t)
  BY <1>8 DEF LeaveStream, LeaveCancelled, Goto, Return, Stays, Moves, Stage
<1>9. ASSUME NEW t \in Task, CancelWait(t) PROVE GivesUp(t)
  BY <1>9 DEF CancelWait, Return, GivesUp, Moves
<1>10. ASSUME NEW t \in Task, SendCommand(t) PROVE Kind(t)
  BY <1>10, <1>2, <1>3 DEF SendCommand, OnWire
<1>11. ASSUME NEW t \in Task, SendRename(t) \/ SendBaud(t) \/ Reopen(t) \/ StopStream(t)
       PROVE  Stays(t)
  BY <1>11, <1>3 DEF SendRename, SendBaud, Reopen, StopStream, OnWire
<1>12. ASSUME NEW t \in Task, \/ ReadReply(t) \/ WriteRaises(t) \/ ReopenFails(t)
                              \/ AckFails(t) \/ Verified(t) \/ VerifyFails(t)
       PROVE  HandsOn(t)
  BY <1>12, <1>2 DEF ReadReply, WriteRaises, ReopenFails, AckFails, Verified, VerifyFails, Break
<1>13. ASSUME NEW t \in Task, StartRaises(t) \/ StopCancelled(t) \/ Drained(t)
       PROVE  HandsOn(t)
  BY <1>13, <1>2 DEF StartRaises, StopCancelled, Drained
<1>14. ASSUME NEW t \in Task, Progress(t) PROVE Kind(t)
  BY <1>14, <1>4, <1>5, <1>6, <1>7, <1>10, <1>11, <1>12, <1>13 DEF Progress
<1> HIDE DEF Kind
<1>15. \A t \in Task : (Joins(t) \/ HandsOn(t) \/ Stays(t) \/ GivesUp(t)) => Kind(t)
  BY DEF Kind
<1>16. \E t \in Task : Kind(t)
  BY <1>1, <1>8, <1>9, <1>13, <1>14, <1>15 DEF Next
<1> QED
  BY <1>16 DEF Kind

\* Nobody overtakes: the order of two tasks is the one they joined in.
LEMMA OrderKept ==
    ASSUME LockInv, QueueSound, Next
    PROVE  /\ QueueSound'
           /\ \A t, u \in Task : Before(t, u)' =>
                \/ Before(t, u) /\ pc[t] # "idle" /\ pc[u] # "idle" /\ pc'[t] # "idle" /\ pc'[u] # "idle"
                \/ pc[u] \in {"idle", "leave"} /\ lock' = Append(lock, u)
<1>t. PortTyped /\ lock \in Seq(Task) /\ pc \in [Task -> Stage] /\ DOMAIN lock = 1..Len(lock)
      /\ Len(lock) \in Nat /\ \A i \in 1..Len(lock) : lock[i] \in Task
  BY LenProperties, ElementOfSeq DEF LockInv, PortTyped
<1>q. /\ \A i, j \in 1..Len(lock) : lock[i] = lock[j] => i = j
      /\ \A i \in 1..Len(lock) : pc[lock[i]] \in {"wait", "write", "read", "ack", "verify",
                                                 "start", "stop", "drain"}
      /\ \A t \in Task : pc[t] = "wait" => \E i \in 1..Len(lock) : lock[i] = t
  BY <1>t DEF QueueSound, OnWire
<1> DEFINE Ordered(t, u) == Before(t, u) /\ pc[t] # "idle" /\ pc[u] # "idle"
                            /\ pc'[t] # "idle" /\ pc'[u] # "idle"
           Joined(u) == pc[u] \in {"idle", "leave"} /\ lock' = Append(lock, u)
           Goal == QueueSound' /\ \A t, u \in Task : Before(t, u)' => Ordered(t, u) \/ Joined(u)
<1>1. ASSUME NEW t \in Task, Stays(t) PROVE Goal
  <2>1. PICK st \in Stage : Moves(t, st) /\
            \/ /\ pc[t] = "wait" \/ OnWire(t)
               /\ st \in {"write", "read", "ack", "verify", "start", "stop", "drain"}
            \/ pc[t] \in {"streaming", "leave"} /\ st \in {"leave", "idle"}
    BY <1>1 DEF Stays
  <2>2. lock' = lock /\ pc'[t] = st /\ \A u \in Task \ {t} : pc'[u] = pc[u]
    BY <1>1, <2>1, <1>t DEF Stays, Moves
  <2>3. \A i \in 1..Len(lock) : pc'[lock[i]] \in {"wait", "write", "read", "ack", "verify",
                                                 "start", "stop", "drain"}
    BY <2>1, <2>2, <1>t, <1>q
  <2>4. \A u \in Task : pc'[u] = "wait" => pc[u] = "wait"
    BY <2>1, <2>2
  <2>5. QueueSound'
    BY <2>2, <2>3, <2>4, <1>t, <1>q DEF QueueSound, OnWire
  <2>6. ASSUME NEW a \in Task, NEW b \in Task, Before(a, b)' PROVE Ordered(a, b)
    <3>1. Before(a, b)
      BY <2>2, <2>6 DEF Before
    <3> QED
      BY <3>1, <2>3, <1>q, <1>t DEF Before
  <2> QED
    BY <2>5, <2>6
<1>2. ASSUME NEW t \in Task, Joins(t) PROVE Goal
  <2>1. pc'[t] = "wait" /\ pc[t] \in {"idle", "leave"} /\ \A u \in Task \ {t} : pc'[u] = pc[u]
    BY <1>2, <1>t DEF Joins, Moves
  <2>2. /\ DOMAIN lock' = 1..(Len(lock) + 1)
        /\ \A i \in 1..(Len(lock) + 1) : lock'[i] = IF i <= Len(lock) THEN lock[i] ELSE t
    BY <1>2, <1>t, AppendPlaces DEF Joins
  <2>3. \A i \in 1..Len(lock) : lock[i] # t
    BY <2>1, <1>q
  <2>4. ASSUME NEW i \in 1..(Len(lock) + 1), NEW j \in 1..(Len(lock) + 1), lock'[i] = lock'[j]
        PROVE  i = j
    BY <2>2, <2>3, <2>4, <1>t, <1>q
  <2>5. ASSUME NEW i \in 1..(Len(lock) + 1)
        PROVE  pc'[lock'[i]] \in {"wait", "write", "read", "ack", "verify", "start", "stop", "drain"}
    <3>1. CASE i <= Len(lock)
      BY <3>1, <2>1, <2>2, <2>3, <1>t, <1>q
    <3>2. CASE i = Len(lock) + 1
      BY <3>2, <2>1, <2>2, <1>t
    <3> QED
      BY <3>1, <3>2, <1>t
  <2>6. ASSUME NEW u \in Task, pc'[u] = "wait" PROVE \E i \in 1..(Len(lock) + 1) : lock'[i] = u
    <3>1. CASE u = t
      <4>1. lock'[Len(lock) + 1] = t /\ Len(lock) + 1 \in 1..(Len(lock) + 1)
        BY <2>2, <1>t
      <4> QED
        BY <4>1, <3>1
    <3>2. CASE u # t
      <4>1. PICK i \in 1..Len(lock) : lock[i] = u
        BY <3>2, <2>1, <2>6, <1>q
      <4>2. i \in 1..(Len(lock) + 1) /\ lock'[i] = u
        BY <4>1, <2>2, <1>t
      <4> QED
        BY <4>2
    <3> QED
      BY <3>1, <3>2
  <2>7. QueueSound'
    BY <2>2, <2>4, <2>5, <2>6 DEF QueueSound, OnWire
  <2>8. ASSUME NEW a \in Task, NEW b \in Task, Before(a, b)', b # t PROVE Ordered(a, b)
    <3>1. PICK i \in 1..(Len(lock) + 1), j \in 1..(Len(lock) + 1) :
              i < j /\ lock'[i] = a /\ lock'[j] = b
      BY <2>2, <2>8 DEF Before
    <3>2. i \in 1..Len(lock) /\ j \in 1..Len(lock) /\ lock[i] = a /\ lock[j] = b
      BY <3>1, <2>2, <2>8, <1>t
    <3>3. Before(a, b) /\ a # t
      BY <3>1, <3>2, <2>3, <1>t DEF Before
    <3> QED
      BY <3>2, <3>3, <2>1, <2>8, <1>q
  <2>9. Joined(t)
    BY <1>2 DEF Joins
  <2> QED
    BY <2>7, <2>8, <2>9
<1>3. ASSUME NEW t \in Task, HandsOn(t) PROVE Goal
  <2>1. PICK st \in {"idle", "streaming"} : Moves(t, st)
    BY <1>3 DEF HandsOn
  <2>2. pc'[t] = st /\ \A u \in Task \ {t} : pc'[u] = pc[u]
    BY <2>1, <1>t DEF Moves
  <2>3. lock # << >> /\ lock' = Tail(lock) /\ Head(lock) = t
    BY <1>3 DEF HandsOn, Holds, Release
  <2>4. /\ Len(lock) > 0 /\ lock[1] = t
        /\ DOMAIN lock' = 1..(Len(lock) - 1)
        /\ \A i \in 1..(Len(lock) - 1) : lock'[i] = lock[i + 1] /\ lock'[i] # t
    <3>1. /\ Len(lock) > 0 /\ lock[1] = t
          /\ DOMAIN lock' = 1..(Len(lock) - 1)
          /\ \A i \in 1..(Len(lock) - 1) : lock'[i] = lock[i + 1]
      BY <2>3, <1>t, TailPlaces
    <3> QED
      BY <3>1, <1>q, <1>t
  <2>5. ASSUME NEW i \in 1..(Len(lock) - 1), NEW j \in 1..(Len(lock) - 1), lock'[i] = lock'[j]
        PROVE  i = j
    <3>1. i + 1 \in 1..Len(lock) /\ j + 1 \in 1..Len(lock) /\ lock[i + 1] = lock[j + 1]
      BY <2>4, <2>5, <1>t
    <3>2. i + 1 = j + 1
      BY <3>1, <1>q
    <3> QED
      BY <3>2
  <2>6. ASSUME NEW i \in 1..(Len(lock) - 1)
        PROVE  pc'[lock'[i]] \in {"wait", "write", "read", "ack", "verify", "start", "stop", "drain"}
    <3>1. i + 1 \in 1..Len(lock) /\ lock'[i] = lock[i + 1] /\ lock'[i] # t
      BY <2>4, <1>t
    <3> QED
      BY <3>1, <2>2, <1>q, <1>t
  <2>7. ASSUME NEW u \in Task, pc'[u] = "wait" PROVE \E i \in 1..(Len(lock) - 1) : lock'[i] = u
    <3>1. u # t /\ pc[u] = "wait"
      BY <2>2, <2>7
    <3>2. PICK i \in 1..Len(lock) : lock[i] = u
      BY <3>1, <1>q
    <3>3. i - 1 \in 1..(Len(lock) - 1) /\ lock'[i - 1] = u
      BY <3>1, <3>2, <2>4, <1>t
    <3> QED
      BY <3>3
  <2>8. QueueSound'
    BY <2>4, <2>5, <2>6, <2>7 DEF QueueSound, OnWire
  <2>9. ASSUME NEW a \in Task, NEW b \in Task, Before(a, b)' PROVE Ordered(a, b)
    <3>1. PICK i \in 1..(Len(lock) - 1), j \in 1..(Len(lock) - 1) :
              i < j /\ lock'[i] = a /\ lock'[j] = b
      BY <2>4, <2>9 DEF Before
    <3>2. /\ i + 1 \in 1..Len(lock) /\ j + 1 \in 1..Len(lock) /\ i + 1 < j + 1
          /\ lock[i + 1] = a /\ lock[j + 1] = b
      BY <3>1, <2>4, <1>t
    <3>3. Before(a, b) /\ pc[a] # "idle" /\ pc[b] # "idle"
      BY <3>2, <1>t, <1>q DEF Before
    <3> QED
      BY <3>1, <3>3, <2>4, <2>6
  <2> QED
    BY <2>8, <2>9
<1>4. ASSUME NEW t \in Task, GivesUp(t) PROVE Goal
  <2>1. PICK n \in 1..Len(lock) : lock[n] = t /\ lock' = RemoveAt(lock, n)
    BY <1>4, <1>t DEF GivesUp
  <2>2. pc'[t] = "idle" /\ \A u \in Task \ {t} : pc'[u] = pc[u]
    BY <1>4, <1>t DEF GivesUp, Moves
  <2> DEFINE Old(i) == IF i < n THEN i ELSE i + 1
  <2>3. /\ DOMAIN lock' = 1..(Len(lock) - 1)
        /\ \A i \in 1..(Len(lock) - 1) :
              Old(i) \in 1..Len(lock) /\ lock'[i] = lock[Old(i)] /\ lock'[i] # t
    <3>1. /\ DOMAIN lock' = 1..(Len(lock) - 1)
          /\ \A i \in 1..(Len(lock) - 1) : lock'[i] = IF i < n THEN lock[i] ELSE lock[i + 1]
      BY <2>1, <1>t, RemoveAtPlaces
    <3>2. ASSUME NEW i \in 1..(Len(lock) - 1)
          PROVE  Old(i) \in 1..Len(lock) /\ Old(i) # n /\ lock'[i] = lock[Old(i)]
      BY <3>1, <2>1, <1>t
    <3> HIDE DEF Old
    <3> QED
      BY <3>1, <3>2, <2>1, <1>q
  <2>4. \A i, j \in 1..(Len(lock) - 1) : (Old(i) = Old(j) => i = j) /\ (i < j => Old(i) < Old(j))
    BY <2>1, <1>t
  <2>5. ASSUME NEW u \in Task, pc'[u] = "wait" PROVE \E i \in 1..(Len(lock) - 1) : lock'[i] = u
    <3>1. u # t /\ pc[u] = "wait"
      BY <2>2, <2>5
    <3>2. PICK i \in 1..Len(lock) : lock[i] = u
      BY <3>1, <1>q
    <3>3. CASE i < n
      <4>1. i \in 1..(Len(lock) - 1) /\ Old(i) = i
        BY <3>3, <2>1, <1>t
      <4> QED
        BY <4>1, <3>2, <2>3
    <3>4. CASE i > n
      <4>1. i - 1 \in 1..(Len(lock) - 1) /\ Old(i - 1) = i
        BY <3>4, <2>1, <1>t
      <4> QED
        BY <4>1, <3>2, <2>3
    <3>5. i # n /\ i \in Int /\ n \in Int
      BY <3>1, <3>2, <2>1
    <3> QED
      BY <3>3, <3>4, <3>5
  <2> HIDE DEF Old
  <2>6. \A i, j \in 1..(Len(lock) - 1) : lock'[i] = lock'[j] => i = j
    BY <2>3, <2>4, <1>q
  <2>7. \A i \in 1..(Len(lock) - 1) :
            pc'[lock'[i]] \in {"wait", "write", "read", "ack", "verify", "start", "stop", "drain"}
    BY <2>2, <2>3, <1>q, <1>t
  <2>8. QueueSound'
    BY <2>3, <2>5, <2>6, <2>7 DEF QueueSound, OnWire
  <2>9. ASSUME NEW a \in Task, NEW b \in Task, Before(a, b)' PROVE Ordered(a, b)
    <3>1. PICK i \in 1..(Len(lock) - 1), j \in 1..(Len(lock) - 1) :
              i < j /\ lock'[i] = a /\ lock'[j] = b
      BY <2>3, <2>9 DEF Before
    <3>2. /\ Old(i) \in 1..Len(lock) /\ Old(j) \in 1..Len(lock) /\ Old(i) < Old(j)
          /\ lock[Old(i)] = a /\ lock[Old(j)] = b
      BY <3>1, <2>3, <2>4
    <3>3. Before(a, b) /\ pc[a] # "idle" /\ pc[b] # "idle"
      BY <3>2, <1>t, <1>q DEF Before
    <3> QED
      BY <3>1, <3>3, <2>7
  <2> QED
    BY <2>8, <2>9
<1> HIDE DEF Goal
<1>5. Goal
  BY <1>1, <1>2, <1>3, <1>4, QueueKinds
<1> QED
  BY <1>5 DEF Goal

-----------------------------------------------------------------------------
(* What a step that is not a call does to addresses.                       *)

\* An address moves to where it was claimed before: the cached id becomes the device's,
\* the device's the cached or the promised one, and one device at a time answers to "@".
IdsMove ==
    /\ \A s \in Session : sess'[s].id \in {sess[s].id, dev[s].id} \cap UnitId
    /\ \A s \in Session :
        \/ dev'[s].id \in {dev[s].id, sess[s].id, At}
        \/ \E u \in Task : Holds(u) /\ Renames(u) /\ job[u].sess = s /\ dev'[s].id = job[u].arg
    /\ \A s, r \in Session : dev'[s].id = At /\ dev'[r].id = At => s = r

SameIds == \A s \in Session : sess'[s].id = sess[s].id /\ dev'[s].id = dev[s].id

JobsMove == \A u \in Task :
    /\ Renames(u)' => Renames(u) /\ job'[u].arg = job[u].arg /\ job'[u].sess = job[u].sess
    /\ Pending(u)' => Pending(u) /\ job'[u].id = job[u].id /\ job'[u].sess = job[u].sess
    /\ Streams(u)' => job'[u].sess = job[u].sess

\* Nothing that StreamsOwn looks at begins.
QuietStream ==
    /\ latch' = latch
    /\ \A s \in Session : dev'[s].id = At => dev[s].id = At
    /\ \A u \in Task : Streams(u)' => Streams(u) /\ (pc'[u] = "drain" => pc[u] = "drain")
    /\ line'.open => line.open
    /\ \A u \in Task : pc'[u] = "ack" => line'.open

LEMMA StaysQuiet ==
    ASSUME StreamsOwn, QuietStream, JobsMove
    PROVE  StreamsOwn'
  BY DEF StreamsOwn, QuietStream, JobsMove

LEMMA IdsStay ==
    ASSUME PortTyped, IdsDisjoint, SameIds
    PROVE  IdsMove
  BY DEF PortTyped, IdsDisjoint, SameIds, IdsMove

\* A task returns, and the others stay where they are.
LEMMA ReturnMoves ==
    ASSUME PortTyped, RightDevice, NEW t \in Task, Return(t)
    PROVE  /\ JobsMove /\ RightDevice'
           /\ pc'[t] = "idle" /\ ~Streams(t)'
           /\ \A u \in Task \ {t} : pc'[u] = pc[u] /\ job'[u] = job[u]
<1>1. pc'[t] = "idle" /\ job'[t] = NoJob
  BY DEF PortTyped, Return
<1>2. \A u \in Task \ {t} : pc'[u] = pc[u] /\ job'[u] = job[u]
  BY DEF PortTyped, Return
<1>3. ~Streams(t)' /\ ~Pending(t)' /\ ~Renames(t)'
  BY <1>1 DEF Streams, Pending, Renames, NoJob
<1>4. \A u \in Task \ {t} : /\ Renames(u)' = Renames(u)
                            /\ Pending(u)' = Pending(u)
  BY <1>2 DEF Renames, Pending
<1>5. JobsMove
  BY <1>2, <1>3, <1>4 DEF JobsMove
<1>6. RightDevice'
  BY <1>1, <1>2 DEF RightDevice
<1> QED
  BY <1>1, <1>2, <1>3, <1>5, <1>6

\* A task goes to another await of the same operation.
LEMMA GotoMoves ==
    ASSUME PortTyped, RightDevice, NEW t \in Task, NEW st \in Stage, Goto(t, st), pc[t] # "idle",
           \/ UNCHANGED job
           \/ \E h \in SUBSET Session : job' = [job EXCEPT ![t].heard = h],
           st = "write" => pc[t] = "wait",
           st \notin {"idle", "wait"},
           st = "read" => job'[t].heard \subseteq {job[t].sess}
    PROVE  /\ JobsMove /\ RightDevice'
           /\ pc'[t] = st
           /\ \A u \in Task \ {t} : pc'[u] = pc[u] /\ job'[u] = job[u]
<1>0. job[t] \in Requests
  BY JobFields
<1>1. pc'[t] = st /\ \A u \in Task \ {t} : pc'[u] = pc[u]
  BY DEF PortTyped, Goto
<1>2. \A u \in Task \ {t} : job'[u] = job[u]
  BY DEF PortTyped
<1>3. /\ job'[t].op = job[t].op /\ job'[t].arg = job[t].arg
      /\ job'[t].id = job[t].id /\ job'[t].sess = job[t].sess
  <2>1. CASE UNCHANGED job
    BY <2>1
  <2>2. ASSUME NEW h \in SUBSET Session, job' = [job EXCEPT ![t].heard = h]
        PROVE  /\ job'[t].op = job[t].op /\ job'[t].arg = job[t].arg
               /\ job'[t].id = job[t].id /\ job'[t].sess = job[t].sess
    <3>1. job'[t] = [job[t] EXCEPT !.heard = h]
      BY <2>2 DEF PortTyped
    <3> QED
      BY <3>1, <1>0 DEF Requests
  <2> QED
    BY <2>1, <2>2
<1>4. JobsMove
  BY <1>1, <1>2, <1>3 DEF JobsMove, Renames, Pending
<1>5. RightDevice'
  BY <1>1, <1>2, <1>3 DEF RightDevice
<1> QED
  BY <1>1, <1>2, <1>4, <1>5

\* A command reaches the device it was encoded for, or nobody.
LEMMA HeardByOwn ==
    ASSUME LockInv, EncodedOwn, NEW t \in Task, Pending(t), NEW heard \in Outcomes(job[t].id)
    PROVE  heard \subseteq {job[t].sess} /\ heard \subseteq Session
  BY DEF EncodedOwn, Outcomes, Hears

LEMMA OneAt ==
    ASSUME IdsDisjoint, NEW s \in Session, NEW r \in Session, dev[s].id = At, dev[r].id = At
    PROVE  s = r
  BY DEF IdsDisjoint

\* A task goes on, and the stream of the port goes on as it was.
LEMMA QuietMove ==
    ASSUME StreamsOwn, NEW t \in Task,
           \A u \in Task \ {t} : pc'[u] = pc[u] /\ job'[u] = job[u],
           Streams(t)' => Streams(t), pc'[t] # "drain",
           latch' = latch, line' = line, SameIds,
           pc'[t] = "ack" => line.open
    PROVE  QuietStream
  BY DEF StreamsOwn, SameIds, QuietStream, Streams

Moved == IdsMove /\ JobsMove /\ RightDevice' /\ StreamsOwn'

\* The new rate changes nobody's address.
LEMMA RetuneKeepsIds ==
    ASSUME PortTyped, NEW heard, NEW b, Retune(heard, b) \/ UNCHANGED dev
    PROVE  \A s \in Session : dev'[s].id = dev[s].id
  BY DEF PortTyped, Retune

LEMMA ReaddressMoves ==
    ASSUME PortTyped, NEW heard, NEW i, Readdress(heard, i)
    PROVE  \A s \in Session : dev'[s].id = IF s \in heard THEN i ELSE dev[s].id
  BY DEF PortTyped, Readdress

\* Steps by which no address moves and no stream begins or ends.
LEMMA PlainMoves ==
    ASSUME LockInv, AddressInv, NEW t \in Task,
           \/ Acquire(t) \/ SendCommand(t) \/ ReadReply(t) \/ SendBaud(t)
           \/ RefuseStream(t) \/ AckFails(t) \/ VerifyFails(t) \/ LeaveStream(t)
           \/ LeaveCancelled(t) \/ AcquireToStop(t)
    PROVE  Moved
<1>t. PortTyped /\ IdsDisjoint /\ RightDevice /\ StreamsOwn /\ EncodedOwn
  BY DEF LockInv, AddressInv
<1>1. ASSUME SameIds, JobsMove, RightDevice', latch' = latch, line' = line,
             \A u \in Task \ {t} : pc'[u] = pc[u] /\ job'[u] = job[u],
             Streams(t)' => Streams(t), pc'[t] # "drain", pc'[t] = "ack" => line.open
      PROVE  Moved
  <2>1. QuietStream
    BY <1>1, <1>t, QuietMove
  <2> QED
    BY <1>1, <1>t, <2>1, StaysQuiet, IdsStay DEF Moved
<1>2. ASSUME UNCHANGED <<latch, dev, line>>, Return(t),
             \A s \in Session : sess'[s].id = sess[s].id
      PROVE  Moved
  <2>1. SameIds
    BY <1>2 DEF SameIds
  <2>2. /\ JobsMove /\ RightDevice' /\ pc'[t] = "idle" /\ ~Streams(t)'
        /\ \A u \in Task \ {t} : pc'[u] = pc[u] /\ job'[u] = job[u]
    BY <1>2, <1>t, ReturnMoves
  <2> QED
    BY <1>1, <1>2, <2>1, <2>2
<1>3. CASE Acquire(t)
  <2>1. /\ JobsMove /\ RightDevice' /\ pc'[t] = "write"
        /\ \A u \in Task \ {t} : pc'[u] = pc[u] /\ job'[u] = job[u]
    BY <1>3, <1>t, GotoMoves DEF Acquire, Stage
  <2> QED
    BY <1>1, <1>3, <2>1 DEF Acquire, SameIds, Streams
<1>4. CASE SendCommand(t)
  <2>1. pc[t] = "write" /\ UNCHANGED <<latch, sess, dev, line>> /\ Pending(t)
    BY <1>4 DEF SendCommand, Pending
  <2>2. ASSUME NEW heard \in Outcomes(job[t].id),
               job' = [job EXCEPT ![t].heard = heard], Goto(t, "read")
        PROVE  Moved
    <3>1. heard \subseteq {job[t].sess} /\ heard \in SUBSET Session
      BY <1>t, <2>1, <2>2, HeardByOwn
    <3>2. job[t] \in Requests
      BY <1>t, <2>1, JobFields
    <3>3. job'[t].heard = heard
      BY <1>t, <2>2, <3>2 DEF PortTyped, Requests
    <3>4. /\ JobsMove /\ RightDevice' /\ pc'[t] = "read"
          /\ \A u \in Task \ {t} : pc'[u] = pc[u] /\ job'[u] = job[u]
      BY <1>t, <2>1, <2>2, <3>1, <3>3, GotoMoves DEF Stage
    <3> QED
      BY <1>1, <2>1, <3>4 DEF SameIds, Streams
  <2> QED
    BY <1>2, <1>4, <2>1, <2>2 DEF SendCommand
<1>5. CASE ReadReply(t) \/ RefuseStream(t) \/ LeaveCancelled(t)
  BY <1>2, <1>5 DEF ReadReply, RefuseStream, LeaveCancelled
<1>6. CASE SendBaud(t)
  <2>1. PICK heard \in Outcomes(job[t].id) :
            Retune(heard, job[t].arg) /\ job' = [job EXCEPT ![t].heard = heard]
    BY <1>6 DEF SendBaud
  <2>2. heard \in SUBSET Session
    BY <2>1 DEF Outcomes, Hears
  <2>3. SameIds
    BY <1>6, <1>t, <2>1, RetuneKeepsIds DEF SendBaud, SameIds
  <2>4. /\ JobsMove /\ RightDevice' /\ pc'[t] = "ack"
        /\ \A u \in Task \ {t} : pc'[u] = pc[u] /\ job'[u] = job[u]
    BY <1>6, <1>t, <2>1, <2>2, GotoMoves DEF SendBaud, Stage
  <2> QED
    BY <1>1, <1>6, <2>3, <2>4 DEF SendBaud, Streams
<1>7. CASE AckFails(t) \/ VerifyFails(t)
  <2>1. \A s \in Session : sess'[s].id = sess[s].id
    BY <1>7, <1>t DEF AckFails, VerifyFails, Break, PortTyped
  <2> QED
    BY <1>2, <1>7, <2>1 DEF AckFails, VerifyFails, Break
<1>8. CASE LeaveStream(t)
  <2>1. /\ JobsMove /\ RightDevice' /\ pc'[t] = "leave"
        /\ \A u \in Task \ {t} : pc'[u] = pc[u] /\ job'[u] = job[u]
    BY <1>8, <1>t, GotoMoves DEF LeaveStream, Stage
  <2>2. Streams(t)
    BY <1>8 DEF LeaveStream, Streams
  <2> QED
    BY <1>1, <1>8, <2>1, <2>2 DEF LeaveStream, SameIds
<1>9. CASE AcquireToStop(t)
  <2>1. /\ JobsMove /\ RightDevice' /\ pc'[t] = "stop"
        /\ \A u \in Task \ {t} : pc'[u] = pc[u] /\ job'[u] = job[u]
    BY <1>9, <1>t, GotoMoves DEF AcquireToStop, Stage
  <2>2. Streams(t)
    BY <1>9 DEF AcquireToStop, Streams
  <2> QED
    BY <1>1, <1>9, <2>1, <2>2 DEF AcquireToStop, SameIds
<1> QED
  BY <1>3, <1>4, <1>5, <1>6, <1>7, <1>8, <1>9

\* Only the device a rename is for, or nobody, moves to the promised address.
LEMMA RenameMoves ==
    ASSUME LockInv, AddressInv, NEW t \in Task, pc[t] = "write", Renames(t),
           NEW heard \in Outcomes(job[t].id), Readdress(heard, job[t].arg),
           \A s \in Session : sess'[s].id = sess[s].id
    PROVE  IdsMove /\ \A s \in Session : dev'[s].id = At => dev[s].id = At
<1>t. PortTyped /\ IdsDisjoint /\ EncodedOwn
  BY DEF LockInv, AddressInv
<1>1. Holds(t) /\ job[t].arg \in UnitId /\ At \notin UnitId
  BY <1>t, OwnerHolds, JobFields, PortAssumption DEF Renames
<1>2. heard \subseteq {job[t].sess}
  BY <1>t, HeardByOwn DEF Pending, Renames
<1>3. \A s \in Session : dev'[s].id = IF s \in heard THEN job[t].arg ELSE dev[s].id
  BY <1>t, ReaddressMoves
<1>4. \A s \in Session : dev'[s].id = At => dev[s].id = At
  BY <1>1, <1>3
<1>5. \A s, r \in Session : dev'[s].id = At /\ dev'[r].id = At => s = r
  BY <1>t, <1>4, OneAt
<1>6. \A s \in Session :
          \/ dev'[s].id = dev[s].id
          \/ job[t].sess = s /\ dev'[s].id = job[t].arg
  BY <1>2, <1>3
<1> QED
  BY <1>t, <1>1, <1>4, <1>5, <1>6 DEF IdsMove, PortTyped

LEMMA SendRenameMoves ==
    ASSUME LockInv, AddressInv, NEW t \in Task, SendRename(t)
    PROVE  Moved
<1>t. PortTyped /\ IdsDisjoint /\ RightDevice /\ StreamsOwn
  BY DEF LockInv, AddressInv
<1>1. IdsMove /\ \A s \in Session : dev'[s].id = At => dev[s].id = At
  BY RenameMoves DEF SendRename, Renames
<1>2. /\ JobsMove /\ RightDevice' /\ pc'[t] = "verify"
      /\ \A u \in Task \ {t} : pc'[u] = pc[u] /\ job'[u] = job[u]
  BY <1>t, GotoMoves DEF SendRename, Stage
<1>3. QuietStream
  BY <1>t, <1>1, <1>2 DEF SendRename, StreamsOwn, QuietStream, Streams
<1> QED
  BY <1>t, <1>1, <1>2, <1>3, StaysQuiet DEF Moved

LEMMA WriteRaisesMoves ==
    ASSUME LockInv, AddressInv, NEW t \in Task, WriteRaises(t)
    PROVE  Moved
<1>t. PortTyped /\ IdsDisjoint /\ RightDevice /\ StreamsOwn
  BY DEF LockInv, AddressInv
<1>1. \A s \in Session : sess'[s].id = sess[s].id
  BY <1>t DEF WriteRaises, PortTyped
<1>2. PICK heard \in Outcomes(job[t].id) :
          CASE job[t].op = "rename" -> Readdress(heard, job[t].arg)
            [] job[t].op = "baud"   -> Retune(heard, job[t].arg)
            [] OTHER                -> UNCHANGED dev
  BY DEF WriteRaises
<1>3. IdsMove /\ \A s \in Session : dev'[s].id = At => dev[s].id = At
  <2>1. CASE job[t].op = "rename"
    BY <2>1, <1>1, <1>2, RenameMoves DEF WriteRaises, Renames
  <2>2. CASE job[t].op # "rename"
    <3>1. \A s \in Session : dev'[s].id = dev[s].id
      BY <2>2, <1>t, <1>2, RetuneKeepsIds
    <3> QED
      BY <3>1, <1>1, <1>t, IdsStay DEF SameIds
  <2> QED
    BY <2>1, <2>2
<1>4. /\ JobsMove /\ RightDevice' /\ pc'[t] = "idle" /\ ~Streams(t)'
      /\ \A u \in Task \ {t} : pc'[u] = pc[u] /\ job'[u] = job[u]
  BY <1>t, ReturnMoves DEF WriteRaises
<1>5. QuietStream
  BY <1>t, <1>3, <1>4 DEF WriteRaises, StreamsOwn, QuietStream, Streams
<1> QED
  BY <1>t, <1>3, <1>4, <1>5, StaysQuiet DEF Moved

LEMMA ReopenMoves ==
    ASSUME LockInv, AddressInv, NEW t \in Task, Reopen(t) \/ ReopenFails(t)
    PROVE  Moved
<1>t. PortTyped /\ IdsDisjoint /\ RightDevice /\ StreamsOwn /\ line.open
  BY DEF LockInv, AddressInv, StreamsOwn, Reopen, ReopenFails
<1>1. CASE Reopen(t)
  <2>1. /\ JobsMove /\ RightDevice' /\ pc'[t] = "verify"
        /\ \A u \in Task \ {t} : pc'[u] = pc[u] /\ job'[u] = job[u]
    BY <1>1, <1>t, GotoMoves DEF Reopen, Stage
  <2>2. QuietStream
    BY <1>1, <1>t, <2>1 DEF Reopen, QuietStream, Streams
  <2>3. IdsMove
    BY <1>1, <1>t, IdsStay DEF Reopen, SameIds
  <2> QED
    BY <1>t, <2>1, <2>2, <2>3, StaysQuiet DEF Moved
<1>2. CASE ReopenFails(t)
  <2>1. /\ JobsMove /\ RightDevice' /\ pc'[t] = "idle"
        /\ \A u \in Task \ {t} : pc'[u] = pc[u] /\ job'[u] = job[u]
    BY <1>2, <1>t, ReturnMoves DEF ReopenFails, Break
  <2>2. \A u \in Task : pc[u] = "ack" => u = t
    BY <1>2, OwnerHolds DEF ReopenFails, Holds
  <2>3. StreamsOwn'
    BY <1>2, <2>1, <2>2 DEF ReopenFails, StreamsOwn
  <2>4. IdsMove
    BY <1>2, <1>t, IdsStay DEF ReopenFails, Break, SameIds, PortTyped
  <2> QED
    BY <2>1, <2>3, <2>4 DEF Moved
<1> QED
  BY <1>1, <1>2

\* An echo from the promised address is the echo of the renamed device.
LEMMA EchoIsOwn ==
    ASSUME LockInv, PromisesKept, NEW t \in Task, Renames(t), Hears(job[t].arg) # {}
    PROVE  job[t].sess \in Session /\ dev[job[t].sess].id = job[t].arg
  BY DEF PromisesKept, Hears

LEMMA VerifiedMoves ==
    ASSUME LockInv, AddressInv, NEW t \in Task, Verified(t)
    PROVE  Moved
<1>t. PortTyped /\ IdsDisjoint /\ RightDevice /\ StreamsOwn /\ PromisesKept
  BY DEF LockInv, AddressInv
<1>1. /\ JobsMove /\ RightDevice' /\ pc'[t] = "idle" /\ ~Streams(t)'
      /\ \A u \in Task \ {t} : pc'[u] = pc[u] /\ job'[u] = job[u]
  BY <1>t, ReturnMoves DEF Verified
<1>2. QuietStream
  BY <1>t, <1>1 DEF Verified, StreamsOwn, QuietStream, Streams
<1>3. IdsMove
  <2>1. CASE job[t].op = "rename"
    <3>1. job[t].sess \in Session /\ dev[job[t].sess].id = job[t].arg /\ job[t].arg \in UnitId
      BY <2>1, <1>t, EchoIsOwn, JobFields DEF Verified, Expected, Renames
    <3>2. \A s \in Session : sess'[s].id \in {sess[s].id, dev[s].id} \cap UnitId
      BY <2>1, <3>1, <1>t DEF Verified, PortTyped
    <3>3. dev' = dev
      BY DEF Verified
    <3> QED
      BY <3>2, <3>3, <1>t DEF IdsMove, IdsDisjoint
  <2>2. CASE job[t].op # "rename"
    BY <2>2, <1>t, IdsStay DEF Verified, SameIds
  <2> QED
    BY <2>1, <2>2
<1> QED
  BY <1>t, <1>1, <1>2, <1>3, StaysQuiet DEF Moved

-----------------------------------------------------------------------------
(* Streams begin and end.                                                  *)

LEMMA MarkMoves ==
    ASSUME LockInv, AddressInv, NEW t \in Task, MarkStreaming(t)
    PROVE  Moved
<1>t. PortTyped /\ IdsDisjoint /\ RightDevice /\ StreamsOwn
  BY DEF LockInv, AddressInv
<1>1. /\ JobsMove /\ RightDevice' /\ pc'[t] = "start"
      /\ \A u \in Task \ {t} : pc'[u] = pc[u] /\ job'[u] = job[u]
  BY <1>t, GotoMoves DEF MarkStreaming, Stage
<1>2. IdsMove
  BY <1>t, IdsStay DEF MarkStreaming, SameIds
<1>3. StreamsOwn'
  BY <1>t, <1>1 DEF MarkStreaming, StreamsOwn
<1> QED
  BY <1>1, <1>2, <1>3 DEF Moved

\* "{id}@ @" is heard by the device of the session that sends it.
LEMMA StartMoves ==
    ASSUME LockInv, LatchIsOwned, AddressInv, NEW t \in Task, StartStream(t)
    PROVE  Moved
<1>t. PortTyped /\ IdsDisjoint /\ RightDevice /\ StreamsOwn
  BY DEF LockInv, AddressInv
<1>1. /\ JobsMove /\ RightDevice' /\ pc'[t] = "streaming"
      /\ \A u \in Task \ {t} : pc'[u] = pc[u] /\ job'[u] = job[u]
  BY <1>t, GotoMoves DEF StartStream, Stage
<1>2. job[t].sess \in Session
  BY <1>t, JobFields DEF StartStream
<1>3. PICK heard \in Outcomes(sess[job[t].sess].id) : Readdress(heard, At)
  BY DEF StartStream
<1>4. heard \subseteq {job[t].sess}
  BY <1>t, <1>2 DEF IdsDisjoint, Outcomes, Hears
<1>5. \A s \in Session : dev'[s].id = IF s \in heard THEN At ELSE dev[s].id
  BY <1>t, <1>3, ReaddressMoves
<1>6. Streams(t) /\ latch /\ line.open /\ \A u \in Task : Streams(u) => u = t
  BY DEF StartStream, LatchIsOwned, Streams
<1>7. \A s \in Session : dev'[s].id = At => s = job[t].sess
  BY <1>t, <1>4, <1>5, <1>6 DEF StreamsOwn
<1>8. IdsMove
  BY <1>t, <1>5, <1>7 DEF IdsMove, StartStream, PortTyped
<1>9. \A u \in Task : Streams(u)' => u = t
  BY <1>1, <1>6 DEF Streams
<1>10. job'[t] = job[t] /\ latch' /\ \A u \in Task : pc'[u] # "ack" \/ line'.open
  BY <1>1, <1>6, <1>t DEF StartStream
<1>11. StreamsOwn'
  BY <1>1, <1>7, <1>9, <1>10 DEF StreamsOwn
<1> QED
  BY <1>1, <1>8, <1>11 DEF Moved

\* The write of a start raises on a closed port only, and reaches nobody there.
LEMMA StartRaisesMoves ==
    ASSUME NoStopLost, LockInv, AddressInv, NEW t \in Task, StartRaises(t)
    PROVE  Moved
<1>t. PortTyped /\ IdsDisjoint /\ RightDevice /\ StreamsOwn
  BY DEF LockInv, AddressInv
<1>1. /\ JobsMove /\ RightDevice' /\ pc'[t] = "idle" /\ ~Streams(t)'
      /\ \A u \in Task \ {t} : pc'[u] = pc[u] /\ job'[u] = job[u]
  BY <1>t, ReturnMoves DEF StartRaises
<1>2. ~line.open
  BY DEF StartRaises, MayRaise, NoStopLost
<1>3. SameIds
  BY <1>t, <1>2 DEF StartRaises, Outcomes, Hears, Readdress, SameIds, PortTyped
<1>4. StreamsOwn'
  BY <1>t, <1>1, <1>2 DEF StartRaises, StreamsOwn
<1> QED
  BY <1>t, <1>1, <1>3, <1>4, IdsStay DEF Moved

LEMMA AskMoves ==
    ASSUME LockInv, AddressInv, NEW t \in Task, AskToStop(t)
    PROVE  Moved
<1>t. PortTyped /\ IdsDisjoint /\ RightDevice /\ StreamsOwn
  BY DEF LockInv, AddressInv
<1>0. job[t] \in Requests
  BY <1>t, JobFields DEF AskToStop
<1>1. pc'[t] = "wait" /\ \A u \in Task \ {t} : pc'[u] = pc[u] /\ job'[u] = job[u]
  BY <1>t DEF AskToStop, Goto, PortTyped
<1>2. job'[t] = [job[t] EXCEPT !.op = "stop"]
  BY <1>t DEF AskToStop, PortTyped
<1>3. job'[t].op = "stop" /\ job'[t].sess = job[t].sess
  BY <1>0, <1>2 DEF Requests
<1>4. JobsMove /\ RightDevice'
  BY <1>t, <1>1, <1>3 DEF JobsMove, RightDevice, Renames, Pending, Streams
<1>5. Streams(t)
  BY DEF AskToStop, Streams
<1>6. SameIds
  BY DEF AskToStop, SameIds
<1>7. QuietStream
  BY <1>t, <1>1, <1>5, <1>6, QuietMove DEF AskToStop
<1> QED
  BY <1>t, <1>4, <1>6, <1>7, StaysQuiet, IdsStay DEF Moved

\* "@@ {id}" is heard by every device at "@", there being one rate, and there is one
\* at most: nobody is left there when the drain begins.
LEMMA StopMoves ==
    ASSUME NoStopLost, LockInv, AddressInv, NEW t \in Task, StopStream(t)
    PROVE  Moved
<1>t. PortTyped /\ IdsDisjoint /\ RightDevice /\ StreamsOwn /\ Streams(t)
  BY DEF LockInv, AddressInv, StopStream, Streams
<1>1. /\ JobsMove /\ RightDevice' /\ pc'[t] = "drain"
      /\ \A u \in Task \ {t} : pc'[u] = pc[u] /\ job'[u] = job[u]
  BY <1>t, GotoMoves DEF StopStream, Stage
<1>2. job[t].sess \in Session /\ sess[job[t].sess].id \in UnitId
  BY <1>t, JobFields DEF StopStream, PortTyped
<1>3. Readdress(Hears(At), sess[job[t].sess].id)
  BY DEF StopStream, NoStopLost
<1>4. \A s \in Session : dev'[s].id = IF s \in Hears(At) THEN sess[job[t].sess].id ELSE dev[s].id
  BY <1>t, <1>3, ReaddressMoves
<1>5. \A s \in Session : s \in Hears(At) <=> line.open /\ dev[s].id = At
  BY <1>t DEF Hears, PortTyped, NoStopLost
<1>6. \A s \in Session : s \in Hears(At) => s = job[t].sess
  BY <1>t, <1>5 DEF StreamsOwn
<1>7. \A s \in Session : dev'[s].id = At => dev[s].id = At /\ ~line.open
  BY <1>2, <1>4, <1>5, PortAssumption
<1>8. \A s, r \in Session : dev'[s].id = At /\ dev'[r].id = At => s = r
  BY <1>t, <1>7, OneAt
<1>9. IdsMove
  BY <1>t, <1>4, <1>6, <1>8 DEF IdsMove, StopStream, PortTyped
<1>10. StreamsOwn'
  BY <1>t, <1>1, <1>7 DEF StopStream, StreamsOwn
<1> QED
  BY <1>1, <1>9, <1>10 DEF Moved

LEMMA DrainedMoves ==
    ASSUME LockInv, AddressInv, NEW t \in Task, Drained(t)
    PROVE  Moved
<1>t. PortTyped /\ IdsDisjoint /\ RightDevice /\ StreamsOwn
  BY DEF LockInv, AddressInv
<1>1. /\ JobsMove /\ RightDevice' /\ pc'[t] = "idle" /\ ~Streams(t)'
      /\ \A u \in Task \ {t} : pc'[u] = pc[u] /\ job'[u] = job[u]
  BY <1>t, ReturnMoves DEF Drained
<1>2. line.open => \A s \in Session : dev[s].id # At
  BY <1>t DEF Drained, StreamsOwn, Streams
<1>3. StreamsOwn'
  BY <1>t, <1>1, <1>2 DEF Drained, StreamsOwn
<1> QED
  BY <1>t, <1>1, <1>3, IdsStay DEF Moved, Drained, SameIds

\* The exit of a stream is not cancelled while it waits: the latch stays.
LEMMA CancelMoves ==
    ASSUME NoStopLost, LockInv, AddressInv, NEW t \in Task, CancelWait(t) \/ StopCancelled(t)
    PROVE  Moved
<1>t. PortTyped /\ IdsDisjoint /\ RightDevice /\ StreamsOwn
  BY DEF LockInv, AddressInv
<1>0. CancelWait(t) /\ job[t].op # "stop" /\ latch \in BOOLEAN
  BY <1>t DEF StopCancelled, CancelWait, NoStopLost, PortTyped
<1>1. /\ JobsMove /\ RightDevice' /\ pc'[t] = "idle" /\ ~Streams(t)'
      /\ \A u \in Task \ {t} : pc'[u] = pc[u] /\ job'[u] = job[u]
  BY <1>0, <1>t, ReturnMoves DEF CancelWait
<1>2. SameIds
  BY <1>0 DEF CancelWait, SameIds
<1>3. QuietStream
  BY <1>t, <1>0, <1>1, <1>2, QuietMove DEF CancelWait
<1> QED
  BY <1>t, <1>1, <1>2, <1>3, StaysQuiet, IdsStay DEF Moved

LEMMA StepMoves ==
    ASSUME NoStopLost, LockInv, LatchIsOwned, AddressInv, NEW t \in Task,
           \/ Progress(t) \/ LeaveStream(t) \/ LeaveCancelled(t)
           \/ StopCancelled(t) \/ Drained(t) \/ CancelWait(t)
    PROVE  Moved
  BY PlainMoves, SendRenameMoves, WriteRaisesMoves, ReopenMoves, VerifiedMoves, MarkMoves,
     StartMoves, StartRaisesMoves, AskMoves, StopMoves, DrainedMoves, CancelMoves DEF Progress

-----------------------------------------------------------------------------
(* The claims stay apart.                                                  *)

LEMMA ClaimsKept ==
    ASSUME LockInv, QueueSound, AddressInv, Next, IdsMove, JobsMove
    PROVE  IdsDisjoint' /\ PromisesKept' /\ EncodedOwn'
<1>t. /\ IdsDisjoint /\ PromisesKept /\ EncodedOwn /\ At \notin UnitId
      /\ \A s \in Session : sess[s].id \in UnitId
      /\ \A t \in Task : Renames(t) => job[t].arg \in UnitId
  BY PortAssumption DEF LockInv, PortTyped, Captured, AddressInv, Renames
<1>1. \A u, v \in Task : Holds(u) /\ Holds(v) => u = v
  BY DEF Holds
<1>2. \A s, r \in Session : s # r =>
         /\ sess'[s].id # sess'[r].id /\ dev'[s].id # sess'[r].id
         /\ dev'[s].id # dev'[r].id
  <2> SUFFICES ASSUME NEW s \in Session, NEW r \in Session, s # r
               PROVE  /\ sess'[s].id # sess'[r].id /\ dev'[s].id # sess'[r].id
                      /\ dev'[s].id # dev'[r].id
    OBVIOUS
  <2>1. /\ sess'[s].id \in {sess[s].id, dev[s].id} \cap UnitId
        /\ sess'[r].id \in {sess[r].id, dev[r].id} \cap UnitId
    BY DEF IdsMove
  <2>2. sess'[s].id # sess'[r].id
    BY <2>1, <1>t DEF IdsDisjoint
  <2>3. dev'[s].id # sess'[r].id
    <3>1. CASE dev'[s].id \in {dev[s].id, sess[s].id, At}
      BY <3>1, <2>1, <1>t DEF IdsDisjoint
    <3>2. ASSUME NEW u \in Task, Renames(u), job[u].sess = s, dev'[s].id = job[u].arg
          PROVE  dev'[s].id # sess'[r].id
      BY <3>2, <2>1, <1>t DEF PromisesKept
    <3> QED
      BY <3>1, <3>2 DEF IdsMove
  <2>4. dev'[s].id # dev'[r].id
    <3>1. CASE dev'[s].id = At \/ dev'[r].id = At
      BY <3>1 DEF IdsMove
    <3>2. CASE dev'[s].id \in {dev[s].id, sess[s].id} /\ dev'[r].id \in {dev[r].id, sess[r].id}
      BY <3>2, <1>t DEF IdsDisjoint
    <3>3. ASSUME NEW u \in Task, Renames(u), job[u].sess = s, dev'[s].id = job[u].arg,
                 dev'[r].id \in {dev[r].id, sess[r].id}
          PROVE  dev'[s].id # dev'[r].id
      BY <3>3, <1>t DEF PromisesKept
    <3>4. ASSUME NEW u \in Task, Renames(u), job[u].sess = r, dev'[r].id = job[u].arg,
                 dev'[s].id \in {dev[s].id, sess[s].id}
          PROVE  dev'[s].id # dev'[r].id
      BY <3>4, <1>t DEF PromisesKept
    <3>5. ASSUME NEW u \in Task, Holds(u), job[u].sess = s,
                 NEW v \in Task, Holds(v), job[v].sess = r
          PROVE  FALSE
      BY <3>5, <1>1
    <3> QED
      BY <3>1, <3>2, <3>3, <3>4, <3>5 DEF IdsMove
  <2> QED
    BY <2>2, <2>3, <2>4
<1>3. PromisesKept'
  <2>1. ASSUME NEW t \in Task, Renames(t)', NEW r \in Session, r # job'[t].sess
        PROVE  job'[t].arg \notin {sess'[r].id, dev'[r].id}
    <3>1. Renames(t) /\ job'[t].arg = job[t].arg /\ r # job[t].sess
      BY <2>1 DEF JobsMove
    <3>2. job[t].arg \notin {sess[r].id, dev[r].id, At}
      BY <3>1, <1>t DEF PromisesKept
    <3>3. ASSUME NEW u \in Task, Renames(u), job[u].sess = r, job[t].arg = job[u].arg
          PROVE  FALSE
      BY <3>1, <3>3, <1>t DEF PromisesKept
    <3> QED
      BY <3>1, <3>2, <3>3 DEF IdsMove
  <2>2. \A t, u \in Task : Renames(t)' /\ Renames(u)' /\ job'[t].arg = job'[u].arg => t = u
    BY <1>t DEF JobsMove, PromisesKept
  <2> QED
    BY <2>1, <2>2 DEF PromisesKept
<1>4. ASSUME NEW t \in Task, Pending(t)', NEW r \in Session, r # job'[t].sess
      PROVE  job'[t].id \notin {sess'[r].id, dev'[r].id}
  <2>1. Pending(t) /\ job'[t].id = job[t].id /\ r # job[t].sess
    BY <1>4 DEF JobsMove
  <2>2. job[t].id \in UnitId
    BY <2>1, JobFields DEF Pending, LockInv, Requests
  <2>3. job[t].id \notin {sess[r].id, dev[r].id, At}
    BY <2>1, <2>2, <1>t DEF EncodedOwn
  <2>4. ASSUME NEW u \in Task, Holds(u), Renames(u), job[u].sess = r PROVE job[u].arg # job[t].id
    <3>1. pc[t] = "wait" /\ u # t
      BY <2>1, <2>4, OwnerHolds, <1>1 DEF Pending
    <3>2. lock \in Seq(Task) /\ lock # << >> /\ Head(lock) = u
      BY <2>4 DEF Holds, LockInv, PortTyped
    <3>3. Len(lock) \in Nat /\ Len(lock) > 0 /\ lock[1] = u /\ DOMAIN lock = 1..Len(lock)
      BY <3>2, TailPlaces, LenProperties
    <3>4. PICK j \in DOMAIN lock : lock[j] = t
      BY <3>1 DEF QueueSound
    <3>5. 1 < j /\ 1 \in DOMAIN lock
      BY <3>1, <3>3, <3>4
    <3>6. Before(u, t)
      BY <3>3, <3>4, <3>5 DEF Before
    <3> QED
      BY <3>6, <2>1, <2>4, <1>t DEF EncodedOwn
  <2> QED
    BY <2>1, <2>3, <2>4 DEF IdsMove
<1>5. ASSUME NEW t \in Task, NEW u \in Task,
             Before(u, t)', Renames(u)', Pending(t)', job'[u].sess # job'[t].sess
      PROVE  job'[u].arg # job'[t].id
  <2>1. /\ Renames(u) /\ job'[u].arg = job[u].arg /\ job'[u].sess = job[u].sess
        /\ Pending(t) /\ job'[t].id = job[t].id /\ job'[t].sess = job[t].sess
    BY <1>5 DEF JobsMove
  <2>2. Before(u, t)
    BY <1>5, <2>1, OrderKept DEF Pending
  <2> QED
    BY <1>5, <2>1, <2>2, <1>t DEF EncodedOwn
<1> QED
  BY <1>2, <1>3, <1>4, <1>5 DEF IdsDisjoint, EncodedOwn

\* A request claims nothing but the address its session has and, for a rename, one
\* nobody has or was promised; its task is the last of the queue.
LEMMA CallKeeps ==
    ASSUME LockInv, QueueSound, AddressInv, Next,
           NEW t \in Task, NEW s \in Session, NEW op \in {"exec", "rename", "baud", "start"},
           NEW arg, op = "rename" => arg \in UnitId /\ Vacant(arg),
           Enqueue(t, Request(op, s, arg)), UNCHANGED <<latch, sess, dev, line>>
    PROVE  AddressInv'
<1>t. /\ IdsDisjoint /\ PromisesKept /\ EncodedOwn /\ RightDevice /\ StreamsOwn
      /\ pc \in [Task -> Stage] /\ pc[t] = "idle" /\ lock \in Seq(Task)
  BY DEF AddressInv, LockInv, PortTyped, Enqueue
<1> DEFINE j == Request(op, s, arg)
<1>1. j.op = op /\ j.sess = s /\ j.id = sess[s].id /\ j.arg = arg
  BY DEF Request
<1> HIDE DEF j
<1>2. job'[t] = j /\ \A u \in Task \ {t} : job'[u] = job[u]
  BY DEF LockInv, PortTyped, Enqueue, j
<1>3. pc'[t] = "wait" /\ \A u \in Task \ {t} : pc'[u] = pc[u]
  BY <1>t DEF Enqueue
<1>4. IdsDisjoint'
  BY <1>t DEF IdsDisjoint
<1>5. \A u \in Task \ {t} : /\ Renames(u)' = Renames(u) /\ Pending(u)' = Pending(u)
                            /\ Streams(u)' = Streams(u)
  BY <1>2, <1>3 DEF Renames, Pending, Streams
<1>6. Renames(t)' => op = "rename"
  BY <1>1, <1>2 DEF Renames
<1>7. ASSUME Renames(t)'
      PROVE  /\ \A r \in Session : sess[r].id # arg /\ dev[r].id # arg
             /\ \A u \in Task : Renames(u) => job[u].arg # arg
  BY <1>6, <1>7 DEF Vacant, Renames
<1>8. PromisesKept'
  <2>1. \A u \in Task, r \in Session :
            Renames(u)' /\ r # job'[u].sess => job'[u].arg \notin {sess'[r].id, dev'[r].id}
    BY <1>t, <1>1, <1>2, <1>5, <1>7 DEF PromisesKept
  <2>2. \A u, v \in Task : Renames(u)' /\ Renames(v)' /\ job'[u].arg = job'[v].arg => u = v
    BY <1>t, <1>1, <1>2, <1>5, <1>7 DEF PromisesKept
  <2> QED
    BY <2>1, <2>2 DEF PromisesKept
<1>9. \A u \in Task, r \in Session :
          Pending(u)' /\ r # job'[u].sess => job'[u].id \notin {sess'[r].id, dev'[r].id}
  BY <1>t, <1>1, <1>2, <1>5 DEF EncodedOwn, IdsDisjoint
<1>10. ASSUME NEW v \in Task, NEW u \in Task,
              Before(u, v)', Renames(u)', Pending(v)', job'[u].sess # job'[v].sess
       PROVE  job'[u].arg # job'[v].id
  <2>1. CASE v = t
    <3>1. u # t /\ Renames(u) /\ job'[u] = job[u] /\ s # job[u].sess
      BY <1>10, <2>1, <1>1, <1>2, <1>5
    <3> QED
      BY <3>1, <2>1, <1>1, <1>2, <1>t DEF PromisesKept
  <2>2. CASE v # t
    <3>1. Pending(v) /\ job'[v] = job[v]
      BY <1>10, <2>2, <1>2, <1>5
    <3>2. Before(u, v) /\ pc[u] # "idle" /\ pc[v] # "idle"
      BY <1>10, <3>1, OrderKept DEF Pending
    <3>3. u # t /\ Renames(u) /\ job'[u] = job[u]
      BY <1>10, <3>2, <1>t, <1>2, <1>5
    <3> QED
      BY <1>10, <3>1, <3>2, <3>3, <1>t DEF EncodedOwn
  <2> QED
    BY <2>1, <2>2
<1>11. EncodedOwn'
  BY <1>9, <1>10 DEF EncodedOwn
<1>12. RightDevice'
  BY <1>t, <1>2, <1>3 DEF RightDevice
<1>13. ~Streams(t)'
  BY <1>1, <1>2, <1>3 DEF Streams
<1>14. StreamsOwn'
  BY <1>t, <1>2, <1>3, <1>5, <1>13 DEF StreamsOwn
<1> QED
  BY <1>4, <1>8, <1>11, <1>12, <1>14 DEF AddressInv

PortInv == LockInv /\ LatchIsOwned /\ QueueSound /\ AddressInv

LEMMA InitAddress == Init => QueueSound /\ AddressInv
<1> SUFFICES ASSUME Init PROVE QueueSound /\ AddressInv
  OBVIOUS
<1>1. /\ \A t \in Task : pc[t] = "idle" /\ job[t].op = "none"
      /\ \A s \in Session : sess[s].id = HomeId[s] /\ dev[s].id = HomeId[s]
      /\ \A s \in Session : HomeId[s] # At
  BY PortAssumption DEF Init, NoJob
<1>2. QueueSound
  BY <1>1 DEF QueueSound, Init
<1>3. IdsDisjoint
  BY <1>1, PortAssumption DEF IdsDisjoint
<1>4. PromisesKept /\ EncodedOwn /\ RightDevice
  BY <1>1 DEF PromisesKept, EncodedOwn, RightDevice, Renames, Pending
<1>5. StreamsOwn
  BY <1>1 DEF StreamsOwn, Streams
<1> QED
  BY <1>2, <1>3, <1>4, <1>5 DEF AddressInv

LEMMA AddressStep == NoStopLost /\ PortInv /\ [Next]_vars => PortInv'
<1> SUFFICES ASSUME NoStopLost, PortInv, [Next]_vars PROVE PortInv'
  OBVIOUS
<1>t. LockInv /\ LatchIsOwned /\ QueueSound /\ AddressInv /\ LockInv' /\ LatchIsOwned'
  BY LockStep, LatchStep DEF PortInv
<1>1. CASE UNCHANGED vars
  <2>1. QueueSound'
    BY <1>1, <1>t DEF vars, QueueSound, OnWire
  <2>2. AddressInv'
    BY <1>1, <1>t DEF vars, AddressInv, IdsDisjoint, PromisesKept, EncodedOwn, RightDevice,
                      StreamsOwn, Streams, Pending, Renames, Before
  <2> QED
    BY <1>t, <2>1, <2>2 DEF PortInv
<1>2. CASE Next
  <2>1. QueueSound'
    BY <1>2, <1>t, OrderKept
  <2>2. ASSUME NEW t \in Task, Call(t) PROVE AddressInv'
    <3>1. PICK s \in Session :
              \/ Execute(t, s)
              \/ \E i \in UnitId : ChangeUnitId(t, s, i)
              \/ \E b \in Baud : ChangeBaudRate(t, s, b)
              \/ EnterStream(t, s)
      BY <2>2 DEF Call
    <3> QED
      BY <3>1, <1>2, <1>t, CallKeeps DEF Execute, ChangeUnitId, ChangeBaudRate, EnterStream
  <2>3. ASSUME Moved PROVE AddressInv'
    BY <2>3, <1>2, <1>t, ClaimsKept DEF Moved, AddressInv
  <2>4. AddressInv'
    BY <1>2, <1>t, <2>2, <2>3, StepMoves DEF Next
  <2> QED
    BY <1>t, <2>1, <2>4 DEF PortInv
<1> QED
  BY <1>1, <1>2

LEMMA AddressInvariant == ASSUME NoStopLost PROVE Spec => []PortInv
<1>1. Init => PortInv
  BY InitLock, InitAddress DEF PortInv, Init, LatchIsOwned, Streams, NoJob
<1>2. PortInv /\ [Next]_vars => PortInv'
  BY AddressStep
<1> QED
  BY <1>1, <1>2, PTL DEF Spec

\* No interleaving of renames, streams, cancellations and unanswered commands puts two
\* devices on one address, and a command is acted on by the device it was encoded for
\* even when other sessions were renamed while it queued.
THEOREM AddressedOne == ASSUME NoStopLost PROVE Spec => []Addressed
<1>1. PortInv => Addressed
  <2> SUFFICES ASSUME PortInv PROVE AddressUnique /\ RightDevice
    BY DEF Addressed
  <2>1. IdsDisjoint /\ RightDevice
    BY DEF PortInv, AddressInv
  <2> QED
    BY <2>1 DEF IdsDisjoint, AddressUnique
<1> QED
  BY <1>1, AddressInvariant, PTL

-----------------------------------------------------------------------------
(* The cached id and the verification.                                     *)

\* change_unit_id swaps the cached id for its device's, whatever else happens.
THEOREM RenameIsVerified == ASSUME NoStopLost PROVE Spec => RenameVerified
<1> DEFINE A == \A s \in Session : sess'[s].id # sess[s].id => dev[s].id = sess'[s].id
<1>1. ASSUME PortInv, [Next]_vars PROVE [A]_vars
  <2>1. CASE UNCHANGED vars
    BY <2>1
  <2>2. ASSUME NEW t \in Task, Call(t) PROVE A
    BY <2>2 DEF Call, Execute, ChangeUnitId, ChangeBaudRate, EnterStream
  <2>3. ASSUME Moved PROVE A
    BY <2>3 DEF Moved, IdsMove
  <2> HIDE DEF A
  <2>4. ASSUME Next PROVE A
    BY <1>1, <2>2, <2>3, <2>4, StepMoves DEF Next, PortInv
  <2> QED
    BY <1>1, <2>1, <2>4
<1> QED
  BY <1>1, AddressInvariant, PTL DEF Spec, RenameVerified

\* A rename of session s that has not been verified yet.
Verifying(t, s) == pc[t] = "verify" /\ job[t].op = "rename" /\ job[t].sess = s

\* Steps that move no device away from its session's cached id, except to "@".
LEMMA CacheKept ==
    ASSUME CachedIdTrue, NEW t \in Task,
           \A s \in Session : /\ sess'[s].id = sess[s].id
                              /\ sess'[s].doubt = sess[s].doubt
                              /\ dev'[s].id \in {dev[s].id, sess[s].id, At},
           pc[t] # "verify" \/ job[t].op # "rename",
           \A u \in Task \ {t} : pc'[u] = pc[u] /\ job'[u] = job[u]
    PROVE  CachedIdTrue'
<1> SUFFICES ASSUME NEW s \in Session, dev'[s].id \notin {At, sess'[s].id}
             PROVE  sess'[s].doubt \/ \E u \in Task : Verifying(u, s)'
  BY DEF CachedIdTrue, Verifying
<1>1. sess[s].doubt \/ \E u \in Task : Verifying(u, s)
  BY DEF CachedIdTrue, Verifying
<1>2. \A u \in Task : Verifying(u, s) => Verifying(u, s)'
  BY DEF Verifying
<1> QED
  BY <1>1, <1>2

LEMMA CacheStep == NoStopLost /\ PortInv /\ CachedIdTrue /\ [Next]_vars => CachedIdTrue'
<1> SUFFICES ASSUME NoStopLost, PortInv, CachedIdTrue, [Next]_vars PROVE CachedIdTrue'
  OBVIOUS
<1>t. /\ PortTyped /\ LockInv /\ LatchIsOwned /\ AddressInv
      /\ IdsDisjoint /\ EncodedOwn /\ PromisesKept /\ StreamsOwn
  BY DEF PortInv, LockInv, AddressInv
<1>1. CASE UNCHANGED vars
  BY <1>1 DEF vars, CachedIdTrue
<1>2. ASSUME NEW t \in Task, UNCHANGED <<sess, dev>>, pc[t] # "verify",
             \E st : pc' = [pc EXCEPT ![t] = st],
             UNCHANGED job \/ \E j : job' = [job EXCEPT ![t] = j]
      PROVE  CachedIdTrue'
  <2>1. \A u \in Task \ {t} : pc'[u] = pc[u] /\ job'[u] = job[u]
    BY <1>2, <1>t DEF PortTyped
  <2> QED
    BY <1>2, <2>1, CacheKept
<1>3. ASSUME NEW t \in Task, Call(t) PROVE CachedIdTrue'
  BY <1>3, <1>2 DEF Call, Execute, ChangeUnitId, ChangeBaudRate, EnterStream, Enqueue
<1>4. ASSUME NEW t \in Task,
             \/ Acquire(t) \/ SendCommand(t) \/ ReadReply(t) \/ Reopen(t) \/ RefuseStream(t)
             \/ MarkStreaming(t) \/ AskToStop(t) \/ AcquireToStop(t) \/ LeaveStream(t)
             \/ LeaveCancelled(t) \/ Drained(t) \/ CancelWait(t)
      PROVE  CachedIdTrue'
  BY <1>4, <1>2 DEF Acquire, SendCommand, ReadReply, Reopen, RefuseStream, MarkStreaming,
     AskToStop, AcquireToStop, LeaveStream, LeaveCancelled, Drained, CancelWait, Goto, Return
<1>5. ASSUME NEW t \in Task, ReopenFails(t) \/ AckFails(t) \/ (VerifyFails(t) /\ job[t].op = "baud")
      PROVE  CachedIdTrue'
  <2>1. \A u \in Task \ {t} : pc'[u] = pc[u] /\ job'[u] = job[u]
    BY <1>5, <1>t DEF ReopenFails, AckFails, VerifyFails, Break, Return, PortTyped
  <2>2. \A s \in Session : sess'[s].id = sess[s].id /\ sess'[s].doubt = sess[s].doubt
    <3>1. Break(t)
      BY <1>5 DEF ReopenFails, AckFails, VerifyFails
    <3> QED
      BY <3>1, <1>t DEF Break, PortTyped
  <2>3. dev' = dev /\ (pc[t] # "verify" \/ job[t].op # "rename")
    BY <1>5 DEF ReopenFails, AckFails, VerifyFails
  <2>4. \A s \in Session : /\ sess'[s].id = sess[s].id
                           /\ sess'[s].doubt = sess[s].doubt
                           /\ dev'[s].id \in {dev[s].id, sess[s].id, At}
    BY <2>2, <2>3
  <2> QED
    BY <2>1, <2>3, <2>4, CacheKept
<1>6. ASSUME NEW t \in Task, VerifyFails(t), job[t].op = "rename" PROVE CachedIdTrue'
  <2>1. \A u \in Task \ {t} : pc'[u] = pc[u] /\ job'[u] = job[u]
    BY <1>6, <1>t, ReturnMoves DEF VerifyFails, Return, PortTyped
  <2>2. job[t].sess \in Session
    BY <1>6, <1>t, JobFields DEF VerifyFails
  <2>3. sess'[job[t].sess].doubt /\ \A s \in Session \ {job[t].sess} : sess'[s] = sess[s]
    BY <1>6, <2>2, <1>t DEF VerifyFails, PortTyped
  <2> QED
    BY <1>6, <2>1, <2>3 DEF VerifyFails, CachedIdTrue
<1>7. ASSUME NEW t \in Task, Verified(t) PROVE CachedIdTrue'
  <2>1. \A u \in Task \ {t} : pc'[u] = pc[u] /\ job'[u] = job[u]
    BY <1>7, <1>t DEF Verified, Return, PortTyped
  <2>2. CASE job[t].op = "rename"
    <3>1. job[t].sess \in Session /\ dev[job[t].sess].id = job[t].arg
      BY <1>7, <2>2, <1>t, EchoIsOwn DEF Verified, Expected, Renames
    <3>2. sess'[job[t].sess].id = job[t].arg /\ \A s \in Session \ {job[t].sess} : sess'[s] = sess[s]
      BY <1>7, <2>2, <3>1, <1>t DEF Verified, PortTyped
    <3> QED
      BY <1>7, <2>1, <3>1, <3>2 DEF Verified, CachedIdTrue
  <2>3. CASE job[t].op # "rename"
    BY <1>7, <2>1, <2>3, CacheKept DEF Verified
  <2> QED
    BY <2>2, <2>3
<1>8. ASSUME NEW t \in Task, SendRename(t) PROVE CachedIdTrue'
  <2>1. /\ pc'[t] = "verify" /\ job' = job /\ sess' = sess /\ job[t].op = "rename"
        /\ \A u \in Task \ {t} : pc'[u] = pc[u]
    BY <1>8, <1>t DEF SendRename, Goto, PortTyped
  <2>2. PICK heard \in Outcomes(job[t].id) : Readdress(heard, job[t].arg)
    BY <1>8 DEF SendRename
  <2>3. heard \subseteq {job[t].sess}
    BY <1>8, <1>t, HeardByOwn DEF SendRename, Pending
  <2>4. \A s \in Session : s # job[t].sess => dev'[s].id = dev[s].id
    BY <2>2, <2>3, <1>t, ReaddressMoves
  <2> QED
    BY <1>8, <2>1, <2>4 DEF SendRename, CachedIdTrue
<1>9. ASSUME NEW t \in Task, WriteRaises(t) PROVE CachedIdTrue'
  <2>1. \A u \in Task \ {t} : pc'[u] = pc[u] /\ job'[u] = job[u]
    BY <1>9, <1>t DEF WriteRaises, Return, PortTyped
  <2>2. PICK heard \in Outcomes(job[t].id) :
            CASE job[t].op = "rename" -> Readdress(heard, job[t].arg)
              [] job[t].op = "baud"   -> Retune(heard, job[t].arg)
              [] OTHER                -> UNCHANGED dev
    BY <1>9 DEF WriteRaises
  <2>3. job[t].sess \in Session
    BY <1>9, <1>t, JobFields DEF WriteRaises
  <2>4. CASE job[t].op = "rename"
    <3>1. heard \subseteq {job[t].sess}
      BY <1>9, <2>4, <1>t, HeardByOwn DEF WriteRaises, Pending
    <3>2. \A s \in Session : s # job[t].sess => dev'[s].id = dev[s].id
      BY <2>2, <2>4, <3>1, <1>t, ReaddressMoves
    <3>3. sess'[job[t].sess].doubt /\ \A s \in Session \ {job[t].sess} : sess'[s] = sess[s]
      BY <1>9, <2>3, <2>4, <1>t DEF WriteRaises, PortTyped
    <3> QED
      BY <1>9, <2>1, <3>2, <3>3 DEF WriteRaises, CachedIdTrue
  <2>5. CASE job[t].op # "rename"
    <3>1. \A s \in Session : dev'[s].id = dev[s].id
      BY <2>2, <2>5, <1>t, RetuneKeepsIds
    <3>2. \A s \in Session : sess'[s].id = sess[s].id /\ sess'[s].doubt = sess[s].doubt
      BY <1>9, <2>5, <1>t DEF WriteRaises, PortTyped
    <3> QED
      BY <2>1, <2>5, <3>1, <3>2, CacheKept
  <2> QED
    BY <2>4, <2>5
<1>10. ASSUME NEW t \in Task, SendBaud(t) PROVE CachedIdTrue'
  <2>1. \A s \in Session : dev'[s].id = dev[s].id
    BY <1>10, <1>t, RetuneKeepsIds DEF SendBaud
  <2>2. \A u \in Task \ {t} : pc'[u] = pc[u] /\ job'[u] = job[u]
    BY <1>10, <1>t DEF SendBaud, Goto, PortTyped
  <2> QED
    BY <1>10, <2>1, <2>2, CacheKept DEF SendBaud
<1>11. ASSUME NEW t \in Task, StartStream(t) \/ StartRaises(t) PROVE CachedIdTrue'
  <2>1. PICK heard : Readdress(heard, At)
    BY <1>11 DEF StartStream, StartRaises
  <2>2. \A s \in Session : dev'[s].id \in {dev[s].id, At}
    BY <2>1, <1>t, ReaddressMoves
  <2>3. \A u \in Task \ {t} : pc'[u] = pc[u] /\ job'[u] = job[u]
    BY <1>11, <1>t DEF StartStream, StartRaises, Goto, Return, PortTyped
  <2> QED
    BY <1>11, <2>2, <2>3, CacheKept DEF StartStream, StartRaises
<1>12. ASSUME NEW t \in Task, StopStream(t) PROVE CachedIdTrue'
  <2>1. \A s \in Session : s \in Hears(At) => s = job[t].sess
    BY <1>12, <1>t DEF Hears, StreamsOwn, StopStream, Streams
  <2>2. \A s \in Session : dev'[s].id \in {dev[s].id, sess[s].id}
    BY <1>12, <2>1, <1>t, ReaddressMoves DEF StopStream, NoStopLost
  <2>3. \A u \in Task \ {t} : pc'[u] = pc[u] /\ job'[u] = job[u]
    BY <1>12, <1>t DEF StopStream, Goto, PortTyped
  <2> QED
    BY <1>12, <2>2, <2>3, CacheKept DEF StopStream
<1>13. \A t \in Task : ~StopCancelled(t)
  BY DEF StopCancelled, NoStopLost
<1>14. ASSUME NEW t \in Task, VerifyFails(t) PROVE CachedIdTrue'
  BY <1>14, <1>5, <1>6 DEF VerifyFails
<1>15. ASSUME NEW t \in Task, Progress(t) PROVE CachedIdTrue'
  BY <1>15, <1>4, <1>5, <1>7, <1>8, <1>9, <1>10, <1>11, <1>12, <1>14 DEF Progress
<1> QED
  BY <1>1, <1>3, <1>4, <1>13, <1>15 DEF Next

\* A session's cached unit id is its device's address unless the device streams, or a
\* rename is being verified or ended with an exception its caller saw.
THEOREM CacheTrue == ASSUME NoStopLost PROVE Spec => []CachedIdTrue
<1>1. Init => CachedIdTrue
  BY DEF Init, CachedIdTrue
<1>2. PortInv /\ CachedIdTrue /\ [Next]_vars => CachedIdTrue'
  BY CacheStep
<1> QED
  BY <1>1, <1>2, AddressInvariant, PTL DEF Spec

=============================================================================
