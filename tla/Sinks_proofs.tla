----------------------------- MODULE Sinks_proofs -----------------------------
(***************************************************************************)
(* A sink that was opened can be written to, what it stores fits its       *)
(* table, and it keeps the log of AppendLog: proofs for every sink, every  *)
(* sequence of calls and every failure.                                    *)
(***************************************************************************)
EXTENDS Sinks, SequenceTheorems, TLAPS

Stored == [call : Nat, row : UNION {[C -> Types \cup {"none"}] : C \in SUBSET Columns}]

Typed ==
    /\ cfg.kind \in AllKinds /\ (cfg.kind \notin Databases => cfg.create)
    /\ DOMAIN schema \subseteq Columns /\ DOMAIN table.cols \subseteq Columns
    /\ table = [cols |-> table.cols, rows |-> table.rows]
    /\ table.rows \in Seq(Stored) /\ acked \in Seq(Stored)
    /\ calls \in Nat

\* A sink is held while it is open; one that is held and not open is a pool.
OpenedHeld ==
    /\ opened => handle
    /\ handle /\ ~opened => cfg.kind = "postgres" /\ ~cfg.create

\* A locked schema has its statement or writer, unless its creation failed.
ReadyKept ==
    /\ cfg.create /\ cfg.kind \in Databases \cup {"parquet"} /\ schema # Unlocked /\ ~botched
            => ready
    /\ cfg.kind = "sqlite" /\ ~cfg.create /\ opened => ready
    /\ cfg.kind \notin Databases /\ ~handle => ~ready
    /\ cfg.kind = "parquet" /\ ready => schema # Unlocked

\* A file that has its header or writer is written with the columns it was begun with;
\* before, there is nothing in it, nor in a table that does not exist.
FileFits ==
    /\ cfg.kind \in {"csv", "parquet"} /\ ready => DOMAIN schema = DOMAIN table.cols
    /\ cfg.kind = "csv" /\ handle /\ ~ready => table.rows = <<>> /\ acked = <<>>
    /\ cfg.kind \in Databases /\ table.cols = Unlocked => table.rows = <<>> /\ ~ready

SinkInv == Typed /\ OpenedHeld /\ ReadyKept /\ FileFits /\ RowsFitTable

-----------------------------------------------------------------------------
(* Batches and rows.                                                       *)

\* A batch brings at least one row, a row at least one column: a schema that a batch
\* locks is not the unlocked one.
LEMMA BatchFacts ==
    ASSUME NEW batch \in Shapes
    PROVE  /\ batch \in Seq(SampleRow) /\ DOMAIN batch = 1..Len(batch)
           /\ Len(batch) \in Nat /\ Len(batch) > 0
           /\ \A i \in DOMAIN batch :
                 /\ DOMAIN batch[i] \subseteq Columns /\ DOMAIN batch[i] # {}
                 /\ batch[i] \in UNION {[C -> Types \cup {"none"}] : C \in SUBSET Columns}
                 /\ \A c \in DOMAIN batch[i] : batch[i][c] \in Types \cup {"none"}
<1>1. batch \in Seq(SampleRow) /\ batch # <<>>
  BY SinksAssumption
<1>2. DOMAIN batch = 1..Len(batch) /\ Len(batch) \in Nat /\ Len(batch) > 0
  BY <1>1, LenProperties, EmptySeq
<1>3. ASSUME NEW i \in DOMAIN batch
      PROVE  /\ DOMAIN batch[i] \subseteq Columns /\ DOMAIN batch[i] # {}
             /\ batch[i] \in UNION {[C -> Types \cup {"none"}] : C \in SUBSET Columns}
             /\ \A c \in DOMAIN batch[i] : batch[i][c] \in Types \cup {"none"}
  <2>1. batch[i] \in SampleRow
    BY <1>1, <1>2, ElementOfSeq
  <2>2. PICK C \in (SUBSET Columns) \ {{}} : batch[i] \in [C -> Types \cup {"none"}]
    BY <2>1 DEF SampleRow
  <2> QED
    BY <2>2
<1> QED
  BY <1>1, <1>2, <1>3

LEMMA LockedColumns ==
    ASSUME NEW batch \in Shapes
    PROVE  /\ DOMAIN LockedBy(batch) \subseteq Columns
           /\ LockedBy(batch) # Unlocked
<1>0. DOMAIN Unlocked = {}
  BY DEF Unlocked
<1>1. 1 \in DOMAIN batch
  BY BatchFacts
<1>2. DOMAIN Header(batch) = DOMAIN batch[1]
  BY DEF Header
<1>3. DOMAIN Infer(batch) = UNION {DOMAIN r : r \in {batch[i] : i \in DOMAIN batch}}
  BY DEF Infer
<1>4. DOMAIN Infer(batch) \subseteq Columns /\ DOMAIN Infer(batch) # {}
  BY <1>1, <1>3, BatchFacts
<1>5. DOMAIN Header(batch) \subseteq Columns /\ DOMAIN Header(batch) # {}
  BY <1>1, <1>2, BatchFacts
<1> QED
  BY <1>0, <1>4, <1>5 DEF LockedBy

\* The rows of a batch, as they are stored.
LEMMA RowsStored ==
    ASSUME NEW batch \in Shapes, NEW C \in SUBSET Columns, calls \in Nat
    PROVE  /\ Rows(batch, C) \in Seq(Stored) /\ Len(Rows(batch, C)) = Len(batch)
           /\ DOMAIN Rows(batch, C) = 1..Len(batch)
           /\ \A i \in 1..Len(batch) :
                 /\ Rows(batch, C)[i].call = calls + 1
                 /\ cfg.kind \notin {"memory", "jsonl"} => DOMAIN Rows(batch, C)[i].row = C
<1> DEFINE e(i) == [call |-> calls + 1,
                    row |-> IF cfg.kind \in {"memory", "jsonl"} THEN batch[i]
                            ELSE Project(batch[i], C)]
<1>1. DOMAIN batch = 1..Len(batch) /\ Len(batch) \in Nat
  BY BatchFacts
<1>2. Rows(batch, C) = [i \in 1..Len(batch) |-> e(i)]
  BY <1>1 DEF Rows
<1>3. ASSUME NEW i \in 1..Len(batch)
      PROVE  e(i) \in Stored /\ DOMAIN Project(batch[i], C) = C
  <2>1. Project(batch[i], C) \in [C -> Types \cup {"none"}]
    BY <1>1, BatchFacts DEF Project
  <2>2. batch[i] \in UNION {[D -> Types \cup {"none"}] : D \in SUBSET Columns}
    BY <1>1, BatchFacts
  <2> QED
    BY <2>1, <2>2 DEF Stored
<1>4. Rows(batch, C) \in [1..Len(batch) -> Stored]
  BY <1>2, <1>3
<1>5. Rows(batch, C) \in Seq(Stored)
  BY <1>1, <1>4, SeqDef
<1>6. Len(Rows(batch, C)) = Len(batch) /\ DOMAIN Rows(batch, C) = 1..Len(batch)
  BY <1>1, <1>4, <1>5, LenProperties
<1>7. \A i \in 1..Len(batch) : Rows(batch, C)[i] = e(i)
  BY <1>2
<1> QED
  BY <1>3, <1>5, <1>6, <1>7

-----------------------------------------------------------------------------
(* The calls of rows.                                                      *)

LEMMA CallsType ==
    ASSUME NEW s \in Seq(Stored)
    PROVE  /\ CallsOf(s) \in Seq(Nat) /\ Len(CallsOf(s)) = Len(s)
           /\ DOMAIN CallsOf(s) = 1..Len(s) /\ Len(s) \in Nat
           /\ \A i \in 1..Len(s) : CallsOf(s)[i] = s[i].call
<1>1. Len(s) \in Nat /\ DOMAIN s = 1..Len(s) /\ \A i \in 1..Len(s) : s[i] \in Stored
  BY LenProperties, ElementOfSeq
<1>2. CallsOf(s) \in [1..Len(s) -> Nat]
  BY <1>1 DEF CallsOf, Stored
<1>3. CallsOf(s) \in Seq(Nat)
  BY <1>1, <1>2, SeqDef
<1> QED
  BY <1>1, <1>2, <1>3, LenProperties DEF CallsOf

LEMMA CallsEmpty == CallsOf(<<>>) = <<>>
<1>1. <<>> \in Seq(Stored) /\ Len(<<>>) = 0
  BY EmptySeq
<1>2. CallsOf(<<>>) \in Seq(Nat) /\ Len(CallsOf(<<>>)) = 0
  BY <1>1, CallsType
<1> QED
  BY <1>2, EmptySeq

LEMMA CallsConcat ==
    ASSUME NEW s \in Seq(Stored), NEW t \in Seq(Stored)
    PROVE  CallsOf(s \o t) = CallsOf(s) \o CallsOf(t)
<1>1. /\ s \o t \in Seq(Stored) /\ Len(s \o t) = Len(s) + Len(t)
      /\ Len(s) \in Nat /\ Len(t) \in Nat
      /\ \A i \in 1..(Len(s) + Len(t)) :
            (s \o t)[i] = IF i <= Len(s) THEN s[i] ELSE t[i - Len(s)]
  BY ConcatProperties, LenProperties
<1>2. /\ CallsOf(s) \in Seq(Nat) /\ Len(CallsOf(s)) = Len(s)
      /\ \A i \in 1..Len(s) : CallsOf(s)[i] = s[i].call
      /\ CallsOf(t) \in Seq(Nat) /\ Len(CallsOf(t)) = Len(t)
      /\ \A i \in 1..Len(t) : CallsOf(t)[i] = t[i].call
      /\ CallsOf(s \o t) \in Seq(Nat) /\ Len(CallsOf(s \o t)) = Len(s) + Len(t)
      /\ \A i \in 1..(Len(s) + Len(t)) : CallsOf(s \o t)[i] = (s \o t)[i].call
  BY <1>1, CallsType
<1>3. /\ CallsOf(s) \o CallsOf(t) \in Seq(Nat)
      /\ Len(CallsOf(s) \o CallsOf(t)) = Len(s) + Len(t)
      /\ \A i \in 1..(Len(s) + Len(t)) : (CallsOf(s) \o CallsOf(t))[i] =
            IF i <= Len(s) THEN CallsOf(s)[i] ELSE CallsOf(t)[i - Len(s)]
  <2> DEFINE a == CallsOf(s)
             b == CallsOf(t)
  <2>1. a \in Seq(Nat) /\ b \in Seq(Nat) /\ Len(a) = Len(s) /\ Len(b) = Len(t)
    BY <1>2
  <2> HIDE DEF a, b
  <2>2. /\ a \o b \in Seq(Nat) /\ Len(a \o b) = Len(a) + Len(b)
        /\ \A i \in 1..(Len(a) + Len(b)) :
              (a \o b)[i] = IF i <= Len(a) THEN a[i] ELSE b[i - Len(a)]
    BY <2>1, ConcatProperties
  <2>3. /\ a \o b \in Seq(Nat) /\ Len(a \o b) = Len(s) + Len(t)
        /\ \A i \in 1..(Len(s) + Len(t)) :
              (a \o b)[i] = IF i <= Len(s) THEN a[i] ELSE b[i - Len(s)]
    BY <2>1, <2>2
  <2> QED
    BY <2>3 DEF a, b
<1>4. ASSUME NEW i \in 1..(Len(s) + Len(t))
      PROVE  CallsOf(s \o t)[i] = (CallsOf(s) \o CallsOf(t))[i]
  <2>1. CASE i <= Len(s)
    <3>1. i \in 1..Len(s)
      BY <1>1, <2>1
    <3> QED
      BY <1>1, <1>2, <1>3, <2>1, <3>1
  <2>2. CASE ~(i <= Len(s))
    <3>1. i - Len(s) \in 1..Len(t)
      BY <1>1, <2>2
    <3> QED
      BY <1>1, <1>2, <1>3, <2>2, <3>1
  <2> QED
    BY <2>1, <2>2
<1> QED
  BY <1>2, <1>3, <1>4, SeqEqual

-----------------------------------------------------------------------------
(* What a write does.                                                      *)

\* The schema a batch is written with, and the table it is written to.
Cols(batch) == IF Locks THEN LockedBy(batch) ELSE schema
Base(batch) == IF Locks THEN Created(LockedBy(batch)) ELSE table

LEMMA BaseFacts ==
    ASSUME SinkInv, handle, NEW batch \in Shapes
    PROVE  /\ DOMAIN Cols(batch) \subseteq Columns
           /\ Locks => Cols(batch) # Unlocked
           /\ DOMAIN Base(batch).cols \subseteq Columns
           /\ Base(batch) = [cols |-> Base(batch).cols, rows |-> Base(batch).rows]
           /\ Base(batch).rows \in Seq(Stored)
           /\ Base(batch).rows = IF Locks /\ cfg.kind = "parquet" THEN <<>> ELSE table.rows
<1>1. Typed
  BY DEF SinkInv
<1>2. /\ DOMAIN Cols(batch) \subseteq Columns
      /\ Locks => Cols(batch) # Unlocked
  BY <1>1, LockedColumns DEF Cols, Typed
<1>3. CASE ~Locks
  BY <1>1, <1>2, <1>3 DEF Base, Typed
<1>4. CASE Locks /\ cfg.kind \in Databases /\ table.cols # Unlocked
  <2>1. Base(batch) = table
    BY <1>4 DEF Base, Created
  <2> QED
    BY <1>1, <1>2, <1>4, <2>1 DEF Typed, Databases
<1>5. CASE Locks /\ ~(cfg.kind \in Databases /\ table.cols # Unlocked)
  <2>1. Base(batch) = [cols |-> LockedBy(batch), rows |-> <<>>]
    BY <1>5 DEF Base, Created
  <2>2. <<>> \in Seq(Stored)
    BY EmptySeq
  <2>3. cfg.kind # "parquet" => table.rows = <<>>
    <3>1. SUFFICES ASSUME cfg.kind # "parquet" PROVE table.rows = <<>>
      OBVIOUS
    <3>2. CASE cfg.kind = "csv"
      <4>1. ~ready
        BY <1>5, <3>2 DEF Locks
      <4> QED
        BY <4>1, <3>2, <1>5 DEF SinkInv, FileFits
    <3>3. CASE cfg.kind \in Databases
      BY <1>5, <3>3 DEF SinkInv, FileFits
    <3>4. cfg.kind \in {"csv"} \cup Databases
      BY <1>1, <1>5, <3>1 DEF Locks, Typed, AllKinds, Files, Databases
    <3> QED
      BY <3>2, <3>3, <3>4
  <2> QED
    BY <1>2, <1>5, <2>1, <2>2, <2>3, LockedColumns
<1> QED
  BY <1>3, <1>4, <1>5

\* Rows are appended to what was there: to nothing, if a file is begun with them.
LEMMA InsertEffect ==
    ASSUME SinkInv, handle, NEW batch \in Shapes, NEW n \in 0..Len(batch), Insert(batch, n)
    PROVE  LET new == SubSeq(Rows(batch, DOMAIN Cols(batch)), 1, n) IN
           /\ schema' = Cols(batch) /\ ready' = (ready \/ Locks) /\ calls' = calls + 1
           /\ table' = [cols |-> Base(batch).cols, rows |-> Base(batch).rows \o new]
           /\ table'.rows \in Seq(Stored)
           /\ new \in Seq(Stored) /\ Len(new) = n
           /\ \A i \in 1..n : new[i] = Rows(batch, DOMAIN Cols(batch))[i]
<1> DEFINE all == Rows(batch, DOMAIN Cols(batch))
           new == SubSeq(all, 1, n)
<1>1. /\ schema' = Cols(batch) /\ ready' = (ready \/ Locks) /\ calls' = calls + 1
      /\ table' = [Base(batch) EXCEPT !.rows = @ \o new]
  BY DEF Insert, Cols, Base
<1>2. /\ Base(batch) = [cols |-> Base(batch).cols, rows |-> Base(batch).rows]
      /\ Base(batch).rows \in Seq(Stored) /\ DOMAIN Cols(batch) \in SUBSET Columns
  BY BaseFacts
<1>3. all \in Seq(Stored) /\ Len(all) = Len(batch) /\ Len(batch) \in Nat
  BY <1>2, RowsStored, BatchFacts DEF SinkInv, Typed
<1>4. \A i \in 1..n : all[i] \in Stored
  BY <1>3, ElementOfSeq
<1> HIDE DEF all
<1>5. new \in Seq(Stored) /\ Len(new) = n /\ \A i \in 1..n : new[i] = all[i]
  BY <1>3, <1>4, SubSeqProperties
<1> HIDE DEF new
<1>6. table' = [cols |-> Base(batch).cols, rows |-> Base(batch).rows \o new]
  BY <1>1, <1>2
<1>7. table'.rows \in Seq(Stored)
  BY <1>2, <1>5, <1>6, ConcatProperties
<1> QED
  BY <1>1, <1>5, <1>6, <1>7 DEF all, new

\* An operator of its own, for the rows of the next state.
RowFits(r, cols) ==
    /\ cfg.kind \in Databases => DOMAIN r \subseteq DOMAIN cols
    /\ cfg.kind \in {"csv", "parquet"} => DOMAIN r = DOMAIN cols

LEMMA InsertKeeps ==
    ASSUME SinkInv, Usable, NEW batch \in Shapes, NEW n \in 0..Len(batch), Insert(batch, n),
           Accepted(batch) \/ n = 0, acked' \in Seq(Stored),
           UNCHANGED <<cfg, handle, opened, botched>>
    PROVE  SinkInv'
<1> DEFINE new == SubSeq(Rows(batch, DOMAIN Cols(batch)), 1, n)
<1>0. handle /\ Typed
  BY DEF Usable, SinkInv
<1>1. /\ schema' = Cols(batch) /\ ready' = (ready \/ Locks) /\ calls' = calls + 1
      /\ table' = [cols |-> Base(batch).cols, rows |-> Base(batch).rows \o new]
      /\ table'.rows \in Seq(Stored)
      /\ new \in Seq(Stored) /\ Len(new) = n
      /\ \A i \in 1..n : new[i] = Rows(batch, DOMAIN Cols(batch))[i]
  BY <1>0, InsertEffect
<1>2. /\ DOMAIN Cols(batch) \subseteq Columns
      /\ Locks => Cols(batch) # Unlocked
      /\ DOMAIN Base(batch).cols \subseteq Columns
      /\ Base(batch).rows \in Seq(Stored)
      /\ Base(batch).rows = IF Locks /\ cfg.kind = "parquet" THEN <<>> ELSE table.rows
  BY <1>0, BaseFacts
<1> HIDE DEF new
<1>3. Typed'
  BY <1>0, <1>1, <1>2 DEF Typed
<1>4. OpenedHeld'
  BY DEF SinkInv, OpenedHeld
<1>5. ReadyKept'
  <2>1. ~Locks => schema' = schema
    BY <1>1 DEF Cols
  <2>2. ready' <=> (ready \/ Locks)
    BY <1>1
  <2>3. handle' /\ (opened' <=> opened) /\ (botched' <=> botched) /\ cfg' = cfg
    BY <1>0
  <2>4. Locks => schema' # Unlocked
    BY <1>1, <1>2
  <2> QED
    BY <2>1, <2>2, <2>3, <2>4 DEF SinkInv, ReadyKept, Unlocked
<1>6. cfg.kind \in {"csv", "parquet"} => DOMAIN Base(batch).cols = DOMAIN Cols(batch)
  <2>1. SUFFICES ASSUME cfg.kind \in {"csv", "parquet"}
                 PROVE  DOMAIN Base(batch).cols = DOMAIN Cols(batch)
    OBVIOUS
  <2>2. CASE Locks
    BY <2>1, <2>2 DEF Base, Cols, Created, Databases
  <2>3. CASE ~Locks
    <3>1. ready
      BY <2>1, <2>3 DEF Usable
    <3> QED
      BY <2>1, <2>3, <3>1 DEF SinkInv, FileFits, Base, Cols
  <2> QED
    BY <2>2, <2>3
<1>7. cfg.kind \in Databases =>
            \/ n = 0
            \/ DOMAIN Cols(batch) \subseteq DOMAIN Base(batch).cols
  <2>1. SUFFICES ASSUME cfg.kind \in Databases, n # 0, Accepted(batch)
                 PROVE  DOMAIN Cols(batch) \subseteq DOMAIN Base(batch).cols
    OBVIOUS
  <2>2. 1 \in DOMAIN Rows(batch, DOMAIN Cols(batch))
    BY <1>0, <1>2, RowsStored, BatchFacts DEF Typed
  <2>3. CASE Locks
    BY <2>1, <2>2, <2>3 DEF Accepted, Cols, Base, Databases
  <2>4. CASE ~Locks
    BY <2>1, <2>2, <2>4 DEF Accepted, Cols, Base, Databases
  <2> QED
    BY <2>3, <2>4
<1>8. Base(batch).cols = table.cols \/ Base(batch).rows = <<>>
  BY <1>2 DEF Base, Created
<1>9. FileFits'
  <2>1. cfg.kind \in {"csv", "parquet"} => DOMAIN schema' = DOMAIN table'.cols
    BY <1>1, <1>6
  <2>2. cfg.kind = "csv" => ready'
    BY <1>1 DEF Usable
  <2>3. cfg.kind \in Databases => table'.cols # Unlocked
    <3>1. SUFFICES ASSUME cfg.kind \in Databases PROVE Base(batch).cols # Unlocked
      BY <1>1
    <3>2. CASE Locks
      <4>1. LockedBy(batch) # Unlocked
        BY LockedColumns
      <4> QED
        BY <4>1, <3>2 DEF Base, Created
    <3>3. CASE ~Locks
      <4>1. ready
        BY <3>1, <3>3 DEF Usable, Databases
      <4> QED
        BY <4>1, <3>1, <3>3 DEF SinkInv, FileFits, Base
    <3> QED
      BY <3>2, <3>3
  <2> QED
    BY <2>1, <2>2, <2>3 DEF FileFits
<1>10. RowsFitTable'
  <2>1. SUFFICES ASSUME NEW i \in DOMAIN table'.rows
                 PROVE  RowFits(table'.rows[i].row, table'.cols)
    BY DEF RowsFitTable, RowFits
  <2> DEFINE old == Base(batch).rows
  <2>2. /\ i \in 1..(Len(old) + n) /\ Len(old) \in Nat
        /\ table'.rows[i] = IF i <= Len(old) THEN old[i] ELSE new[i - Len(old)]
    <3>1. /\ Len(old \o new) = Len(old) + n
          /\ \A k \in 1..(Len(old) + n) :
                (old \o new)[k] = IF k <= Len(old) THEN old[k] ELSE new[k - Len(old)]
          /\ old \o new \in Seq(Stored) /\ Len(old) \in Nat
      BY <1>1, <1>2, ConcatProperties, LenProperties
    <3>2. table'.rows = old \o new /\ DOMAIN (old \o new) = 1..(Len(old) + n)
      BY <1>1, <3>1, LenProperties
    <3> QED
      BY <2>1, <3>1, <3>2
  <2>3. CASE i <= Len(old)
    <3>1. old = table.rows /\ i \in DOMAIN table.rows
      <4>1. i \in 1..Len(old)
        BY <2>2, <2>3
      <4>2. old # <<>>
        BY <4>1, EmptySeq
      <4>3. old = table.rows
        BY <4>2, <1>2
      <4> QED
        BY <4>1, <4>3, <1>2, LenProperties
    <3>2. RowFits(table.rows[i].row, table.cols)
      BY <3>1 DEF SinkInv, RowsFitTable, RowFits
    <3>3. Base(batch).cols = table.cols
      <4>1. old # <<>>
        BY <2>2, <2>3, EmptySeq
      <4> QED
        BY <4>1, <1>8
    <3> QED
      BY <1>1, <2>2, <2>3, <3>1, <3>2, <3>3
  <2>4. CASE ~(i <= Len(old))
    <3>1. i - Len(old) \in 1..n /\ n # 0
      BY <2>2, <2>4
    <3>2. /\ table'.rows[i] = new[i - Len(old)]
          /\ new[i - Len(old)] = Rows(batch, DOMAIN Cols(batch))[i - Len(old)]
      BY <1>1, <2>2, <2>4, <3>1
    <3>3. i - Len(old) \in 1..Len(batch)
      BY <3>1, BatchFacts
    <3>4. cfg.kind \notin {"memory", "jsonl"} => DOMAIN table'.rows[i].row = DOMAIN Cols(batch)
      BY <1>0, <1>2, <3>2, <3>3, RowsStored DEF Typed
    <3>5. table'.cols = Base(batch).cols
      BY <1>1
    <3> QED
      BY <1>6, <1>7, <3>1, <3>4, <3>5 DEF RowFits, Databases
  <2> QED
    BY <2>3, <2>4
<1> QED
  BY <1>3, <1>4, <1>5, <1>9, <1>10 DEF SinkInv

\* What is acknowledged of a batch.
LEMMA AckedTyped ==
    ASSUME SinkInv, handle, NEW batch \in Shapes
    PROVE  /\ Kept \in Seq(Stored)
           /\ Rows(batch, DOMAIN Cols(batch)) \in Seq(Stored)
           /\ Kept \o Rows(batch, DOMAIN Cols(batch)) \in Seq(Stored)
<1>1. Kept \in Seq(Stored)
  BY EmptySeq DEF Kept, SinkInv, Typed
<1>2. Rows(batch, DOMAIN Cols(batch)) \in Seq(Stored)
  BY BaseFacts, RowsStored DEF SinkInv, Typed
<1> QED
  BY <1>1, <1>2, ConcatProperties

LEMMA WriteKeeps == ASSUME SinkInv, Write PROVE SinkInv'
<1>1. PICK batch \in Shapes :
        /\ Accepted(batch) /\ Insert(batch, Len(batch))
        /\ acked' = Kept \o Rows(batch, DOMAIN schema')
  BY DEF Write
<1>2. handle /\ Usable /\ UNCHANGED <<cfg, handle, opened, botched>>
  BY DEF Write, Usable
<1>3. Len(batch) \in 0..Len(batch)
  BY BatchFacts
<1>4. schema' = Cols(batch)
  BY <1>1 DEF Insert, Cols
<1>5. acked' \in Seq(Stored)
  BY <1>1, <1>2, <1>4, AckedTyped
<1> QED
  BY <1>1, <1>2, <1>3, <1>5, InsertKeeps

\* What a write that raises may have stored.
LEMMA RaisedSizes ==
    ASSUME SinkInv, WriteRaises
    PROVE  \E batch \in Shapes, n \in Nat :
              /\ n \in 0..Len(batch) /\ Insert(batch, n)
              /\ Accepted(batch) \/ n = 0
              /\ n \in {0, Len(batch)} \/ cfg.kind \in Files
<1>1. PICK batch \in Shapes :
        \E n \in 0..Len(batch) :
            /\ n # 0 => /\ Accepted(batch)
                        /\ Atomic => cfg.kind = "postgres" /\ n = Len(batch)
            /\ Insert(batch, n)
  BY DEF WriteRaises
<1>2. PICK n \in 0..Len(batch) :
            /\ n # 0 => /\ Accepted(batch)
                        /\ Atomic => cfg.kind = "postgres" /\ n = Len(batch)
            /\ Insert(batch, n)
  BY <1>1
<1>3. n \in Nat
  BY BatchFacts
<1>4. ~Atomic => cfg.kind \in Files
  BY DEF Atomic, WriteRaises, SinkInv, Typed, AllKinds
<1> QED
  BY <1>2, <1>3, <1>4

LEMMA WriteRaisesKeeps == ASSUME SinkInv, WriteRaises PROVE SinkInv'
<1>1. PICK batch \in Shapes, n \in Nat :
        n \in 0..Len(batch) /\ Insert(batch, n) /\ (Accepted(batch) \/ n = 0)
  BY RaisedSizes
<1>2. handle /\ Usable /\ UNCHANGED <<cfg, handle, opened, botched>> /\ acked' = Kept
  BY DEF WriteRaises, Usable
<1>3. acked' \in Seq(Stored)
  BY <1>1, <1>2, AckedTyped
<1> QED
  BY <1>1, <1>2, <1>3, InsertKeeps

-----------------------------------------------------------------------------
(* The other steps.                                                        *)

LEMMA OpensKeep ==
    ASSUME SinkInv, OpenFile \/ OpenLazily \/ OpenToTable \/ OpenAgain
    PROVE  SinkInv'
<1>0. DOMAIN Unlocked = {} /\ <<>> \in Seq(Stored)
  BY EmptySeq DEF Unlocked
<1>1. CASE OpenFile
  <2>1. table' = [cols |-> Unlocked, rows |-> <<>>] /\ acked' = <<>>
    BY <1>1 DEF OpenFile
  <2>2. RowsFitTable'
    BY <2>1 DEF RowsFitTable
  <2>3. Typed'
    BY <1>0, <1>1, <2>1 DEF OpenFile, SinkInv, Typed
  <2>4. OpenedHeld' /\ ReadyKept'
    BY <1>1 DEF OpenFile, SinkInv, OpenedHeld, ReadyKept, Files, Databases
  <2>5. FileFits'
    BY <1>0, <1>1, <2>1 DEF OpenFile, SinkInv, ReadyKept, FileFits, Files, Databases
  <2> QED
    BY <2>2, <2>3, <2>4, <2>5 DEF SinkInv
<1>2. CASE OpenLazily
  <2>1. UNCHANGED <<cfg, table, schema, acked, calls, ready>>
    BY <1>2 DEF OpenLazily
  <2>2. Typed' /\ RowsFitTable'
    BY <2>1 DEF SinkInv, Typed, RowsFitTable
  <2>3. OpenedHeld' /\ ReadyKept' /\ FileFits'
    BY <1>2 DEF OpenLazily, SinkInv, OpenedHeld, ReadyKept, FileFits, Databases
  <2> QED
    BY <2>2, <2>3 DEF SinkInv
<1>3. CASE OpenToTable
  <2>1. UNCHANGED <<cfg, table, acked, calls>> /\ schema' = table.cols
    BY <1>3 DEF OpenToTable
  <2>2. Typed' /\ RowsFitTable'
    BY <2>1 DEF SinkInv, Typed, RowsFitTable
  <2>3. OpenedHeld' /\ ReadyKept' /\ FileFits'
    BY <1>3 DEF OpenToTable, Introspectable, SinkInv, OpenedHeld, ReadyKept, FileFits, Databases
  <2> QED
    BY <2>2, <2>3 DEF SinkInv
<1>4. CASE OpenAgain
  <2>1. UNCHANGED <<cfg, table, acked, calls, schema, handle, ready, botched>> /\ handle /\ opened'
    BY <1>4 DEF OpenAgain
  <2>2. Typed' /\ RowsFitTable'
    BY <2>1 DEF SinkInv, Typed, RowsFitTable
  <2>3. OpenedHeld' /\ FileFits'
    BY <2>1 DEF SinkInv, OpenedHeld, FileFits
  <2>4. opened \/ cfg.kind = "postgres"
    BY <2>1 DEF SinkInv, OpenedHeld
  <2>5. ReadyKept'
    BY <2>1, <2>4 DEF SinkInv, ReadyKept
  <2> QED
    BY <2>2, <2>3, <2>5 DEF SinkInv
<1> QED
  BY <1>1, <1>2, <1>3, <1>4

LEMMA OpenRaisesKeeps == ASSUME SinkInv, OpenRaises PROVE SinkInv'
<1>1. UNCHANGED <<cfg, table, acked, calls, schema, ready, botched>> /\ opened' = FALSE /\ ~handle
  BY DEF OpenRaises, ConnectFails, IntrospectFails
<1>2. handle' => cfg.kind = "postgres" /\ ~cfg.create
  BY DEF OpenRaises, ConnectFails, IntrospectFails
<1>3. Typed' /\ RowsFitTable'
  BY <1>1 DEF SinkInv, Typed, RowsFitTable
<1>4. OpenedHeld'
  BY <1>1, <1>2 DEF SinkInv, OpenedHeld
<1>5. ReadyKept' /\ FileFits'
  BY <1>1, <1>2 DEF SinkInv, ReadyKept, FileFits, Databases
<1> QED
  BY <1>3, <1>4, <1>5 DEF SinkInv

LEMMA CreateFailsKeeps == ASSUME SinkInv, CreateFails PROVE SinkInv'
<1>1. PICK batch \in Shapes : schema' = LockedBy(batch)
  BY DEF CreateFails
<1>2. /\ UNCHANGED <<cfg, handle, ready, table, acked, opened>>
      /\ calls' = calls + 1 /\ botched' = TRUE
      /\ handle /\ Locks /\ cfg.kind # "csv"
  BY DEF CreateFails
<1>3. DOMAIN schema' \subseteq Columns /\ schema' # Unlocked
  BY <1>1, LockedColumns
<1>4. Typed' /\ RowsFitTable'
  BY <1>2, <1>3 DEF SinkInv, Typed, RowsFitTable
<1>5. schema = Unlocked /\ cfg.create
  BY <1>2 DEF Locks, SinkInv, Typed
<1>6. OpenedHeld' /\ ReadyKept' /\ FileFits'
  BY <1>2, <1>3, <1>5 DEF SinkInv, OpenedHeld, ReadyKept, FileFits, Unlocked
<1> QED
  BY <1>4, <1>6 DEF SinkInv

LEMMA ClosesKeep == ASSUME SinkInv, Close \/ CloseRaises PROVE SinkInv'
<1>1. UNCHANGED <<cfg, schema, table, calls, acked>>
  BY DEF Close, CloseRaises
<1>2. Typed' /\ RowsFitTable'
  BY <1>1 DEF SinkInv, Typed, RowsFitTable
<1>3. CASE Close
  BY <1>2, <1>3 DEF Close, SinkInv, OpenedHeld, ReadyKept, FileFits, Databases
<1>4. CASE CloseRaises
  BY <1>2, <1>4 DEF CloseRaises, SinkInv, OpenedHeld, ReadyKept, FileFits, Databases
<1> QED
  BY <1>3, <1>4

LEMMA CrashKeeps == ASSUME SinkInv, Crash PROVE SinkInv'
<1> DEFINE lost == cfg.kind = "memory" \/ (cfg.kind = "parquet" /\ ready)
<1>1. /\ table' = IF lost THEN [table EXCEPT !.rows = <<>>] ELSE table
      /\ acked' = IF lost THEN <<>> ELSE acked
      /\ handle' = FALSE /\ ready' = FALSE /\ schema' = Unlocked
      /\ opened' = FALSE /\ botched' = FALSE
      /\ UNCHANGED <<cfg, calls>>
  BY DEF Crash
<1>2. DOMAIN Unlocked = {} /\ <<>> \in Seq(Stored)
  BY EmptySeq DEF Unlocked
<1>3. table'.cols = table.cols /\ table' = [cols |-> table'.cols, rows |-> table'.rows]
      /\ (table' = table \/ table'.rows = <<>>)
  BY <1>1 DEF SinkInv, Typed
<1>4. Typed' /\ RowsFitTable'
  BY <1>1, <1>2, <1>3 DEF SinkInv, Typed, RowsFitTable
<1>5. OpenedHeld' /\ ReadyKept' /\ FileFits'
  BY <1>1, <1>3 DEF SinkInv, OpenedHeld, ReadyKept, FileFits
<1> QED
  BY <1>4, <1>5 DEF SinkInv

-----------------------------------------------------------------------------
(* Theorems.                                                               *)

LEMMA InitInv == Init => SinkInv
<1> SUFFICES ASSUME Init PROVE SinkInv
  OBVIOUS
<1>1. PICK t \in Existing : table = [cols |-> t, rows |-> <<>>]
  BY DEF Init
<1>2. DOMAIN Unlocked = {} /\ <<>> \in Seq(Stored)
  BY EmptySeq DEF Unlocked
<1>3. cfg.kind \in Kinds /\ Kinds \subseteq AllKinds
  BY SinksAssumption DEF Init
<1>4. Typed
  <2>1. DOMAIN t \subseteq Columns
    BY DEF Columns
  <2>2. schema = Unlocked /\ acked = <<>> /\ calls = 0 /\ (cfg.kind \notin Databases => cfg.create)
    BY DEF Init
  <2> QED
    BY <1>1, <1>2, <1>3, <2>1, <2>2 DEF Typed
<1>5. OpenedHeld /\ ReadyKept /\ FileFits /\ RowsFitTable
  BY <1>1 DEF Init, OpenedHeld, ReadyKept, FileFits, RowsFitTable
<1> QED
  BY <1>4, <1>5 DEF SinkInv

LEMMA InvStep == SinkInv /\ [Next]_vars => SinkInv'
<1> SUFFICES ASSUME SinkInv, [Next]_vars PROVE SinkInv'
  OBVIOUS
<1>1. CASE UNCHANGED vars
  BY <1>1 DEF vars, SinkInv, Typed, OpenedHeld, ReadyKept, FileFits, RowsFitTable
<1>2. CASE Next
  BY <1>2, OpensKeep, OpenRaisesKeeps, WriteKeeps, CreateFailsKeeps, WriteRaisesKeeps,
     ClosesKeep, CrashKeeps
  DEF Next, Open
<1> QED
  BY <1>1, <1>2

LEMMA Invariant == Spec => []SinkInv
  BY InitInv, InvStep, PTL DEF Spec

\* Once open has returned, write_many has what it needs, however the sink was opened and
\* closed before, and an open that raised holds nothing: for every sink but a
\* PostgresSink onto an existing table, and unless a create failed or a parquet writer
\* was closed (sinks/base.py: "Safe to call again on an already-open sink").
THEOREM OpensAreHonest == Spec => []OpenHonest
<1>1. SinkInv => OpenHonest
  BY DEF SinkInv, Typed, OpenedHeld, ReadyKept, OpenHonest, Usable, Locks, AllKinds, Files,
         Databases
<1> QED
  BY <1>1, Invariant, PTL

\* No stored row has a column its table lacks, and those of a csv or Parquet file have
\* all of them, whatever columns later batches bring (SchemaLock.project).
THEOREM RowsFit == Spec => []RowsFitTable
<1>1. SinkInv => RowsFitTable
  BY DEF SinkInv
<1> QED
  BY <1>1, Invariant, PTL

-----------------------------------------------------------------------------
(* A sink implements AppendLog.                                            *)

LEMMA PhaseIs ==
    ASSUME SinkInv
    PROVE  /\ ~handle => Phase = "closed"
           /\ handle => Phase = IF cfg.kind = "parquet" /\ schema = Unlocked THEN "fresh" ELSE "open"
  BY DEF Phase

\* What was appended is what comes after the old log.
LEMMA AppendedIs ==
    ASSUME NEW old \in Seq(Nat), NEW new \in Seq(Nat)
    PROVE  /\ Log!IsPrefix(old, old \o new)
           /\ SubSeq(old \o new, Len(old) + 1, Len(old \o new)) = new
<1>1. /\ old \o new \in Seq(Nat) /\ Len(old \o new) = Len(old) + Len(new)
      /\ Len(old) \in Nat /\ Len(new) \in Nat
  BY ConcatProperties, LenProperties
<1>2. SubSeq(old \o new, 1, Len(old)) = old
  BY SubSeqOfConcat1, SubSeqFull, <1>1
<1>3. SubSeq(old, 1, Len(old)) = old
  BY SubSeqFull
<1>4. SubSeq(old \o new, Len(old) + 1, Len(old \o new)) = SubSeq(new, 1, Len(new))
  BY SubSeqOfConcat2, <1>1
<1>5. SubSeq(new, 1, Len(new)) = new
  BY SubSeqFull
<1> QED
  BY <1>1, <1>2, <1>3, <1>4, <1>5 DEF Log!IsPrefix

\* A write appends n rows, to the log or to the empty log of a file just begun.
LEMMA InsertAppends ==
    ASSUME SinkInv, Usable, NEW batch \in Shapes, NEW n \in 0..Len(batch), Insert(batch, n)
    PROVE  LET over == Locks /\ cfg.kind = "parquet"
               old == IF over THEN <<>> ELSE CallsOf(table.rows)
               new == SubSeq(Rows(batch, DOMAIN Cols(batch)), 1, n)
           IN  /\ over \in (IF Phase = "fresh" THEN Log!StartsOver ELSE {FALSE})
               /\ old \in Seq(Nat) /\ CallsOf(new) \in Seq(Nat) /\ Len(CallsOf(new)) = n
               /\ CallsOf(table.rows)' = old \o CallsOf(new)
               /\ n = Len(batch) => new = Rows(batch, DOMAIN Cols(batch))
<1> DEFINE over == Locks /\ cfg.kind = "parquet"
           old == IF over THEN <<>> ELSE CallsOf(table.rows)
           all == Rows(batch, DOMAIN Cols(batch))
           new == SubSeq(all, 1, n)
<1>0. handle /\ Typed
  BY DEF Usable, SinkInv
<1>1. /\ table' = [cols |-> Base(batch).cols, rows |-> Base(batch).rows \o new]
      /\ new \in Seq(Stored) /\ Len(new) = n
  BY <1>0, InsertEffect
<1>2. /\ Base(batch).rows \in Seq(Stored)
      /\ Base(batch).rows = IF over THEN <<>> ELSE table.rows
      /\ DOMAIN Cols(batch) \in SUBSET Columns
  BY <1>0, BaseFacts
<1>3. over => schema = Unlocked
  BY DEF Locks
<1>4. over \in (IF Phase = "fresh" THEN Log!StartsOver ELSE {FALSE})
  <2>1. CASE over
    <3>1. Phase = "fresh" /\ Traits.rewrites
      BY <1>0, <1>3, <2>1, PhaseIs DEF Traits
    <3>2. Log!StartsOver = {TRUE, FALSE}
      BY <3>1 DEF Log!StartsOver
    <3> QED
      BY <2>1, <3>1, <3>2
  <2>2. CASE ~over
    <3>1. FALSE \in Log!StartsOver
      BY DEF Log!StartsOver
    <3> QED
      BY <2>2, <3>1
  <2> QED
    BY <2>1, <2>2
<1> HIDE DEF new
<1>5. CallsOf(Base(batch).rows) = old
  BY <1>2, CallsEmpty
<1>6. /\ CallsOf(Base(batch).rows) \in Seq(Nat) /\ CallsOf(new) \in Seq(Nat)
      /\ Len(CallsOf(new)) = n
      /\ CallsOf(Base(batch).rows \o new) = CallsOf(Base(batch).rows) \o CallsOf(new)
  BY <1>1, <1>2, CallsType, CallsConcat
<1>7. CallsOf(table.rows)' = CallsOf(Base(batch).rows \o new)
  BY <1>1
<1>8. n = Len(batch) => new = all
  <2>1. all \in Seq(Stored) /\ Len(all) = Len(batch)
    BY <1>0, <1>2, RowsStored DEF Typed
  <2> QED
    BY <2>1, SubSeqFull DEF new
<1> HIDE DEF over, old, all
<1>9. /\ over \in (IF Phase = "fresh" THEN Log!StartsOver ELSE {FALSE})
      /\ old \in Seq(Nat) /\ CallsOf(new) \in Seq(Nat) /\ Len(CallsOf(new)) = n
      /\ CallsOf(table.rows)' = old \o CallsOf(new)
      /\ n = Len(batch) => new = all
  BY <1>4, <1>5, <1>6, <1>7, <1>8
<1> QED
  BY <1>9 DEF over, old, all, new

LEMMA WriteAccepts == ASSUME SinkInv, SinkInv', Write PROVE Log!Accept
<1>1. PICK batch \in Shapes :
        /\ Accepted(batch) /\ Insert(batch, Len(batch))
        /\ acked' = Kept \o Rows(batch, DOMAIN schema')
  BY DEF Write
<1> DEFINE over == Locks /\ cfg.kind = "parquet"
           old == IF over THEN <<>> ELSE CallsOf(table.rows)
           told == IF over THEN <<>> ELSE CallsOf(acked)
           all == Rows(batch, DOMAIN Cols(batch))
           new == CallsOf(all)
<1>2. handle /\ Usable /\ handle' = handle /\ cfg' = cfg
  BY DEF Write, Usable
<1>3. Len(batch) \in 0..Len(batch)
  BY BatchFacts
<1>4. /\ over \in (IF Phase = "fresh" THEN Log!StartsOver ELSE {FALSE})
      /\ old \in Seq(Nat) /\ new \in Seq(Nat) /\ Len(new) = Len(batch)
      /\ CallsOf(table.rows)' = old \o new
  BY <1>1, <1>2, <1>3, InsertAppends
<1>5. /\ Log!IsPrefix(old, old \o new)
      /\ SubSeq(old \o new, Len(old) + 1, Len(old \o new)) = new
  BY <1>4, AppendedIs
<1>6. CallsOf(acked)' = told \o new
  <2>1. schema' = Cols(batch)
    BY <1>1 DEF Insert, Cols
  <2>2. Kept \in Seq(Stored) /\ all \in Seq(Stored)
    BY <1>2, AckedTyped
  <2>3. acked' = Kept \o all
    BY <1>1, <2>1
  <2>4. CallsOf(Kept) = told
    BY CallsEmpty DEF Kept
  <2>5. CallsOf(Kept \o all) = CallsOf(Kept) \o CallsOf(all)
    BY <2>2, CallsConcat
  <2> HIDE DEF all
  <2>6. CallsOf(acked') = CallsOf(Kept) \o CallsOf(all)
    BY <2>3, <2>5
  <2> QED
    BY <2>4, <2>6
<1>7. Phase # "closed" /\ Phase' = "open"
  <2>1. cfg.kind = "parquet" => schema' # Unlocked
    <3>1. SUFFICES ASSUME cfg.kind = "parquet" PROVE schema' # Unlocked
      OBVIOUS
    <3>2. ready \/ Locks
      BY <1>2, <3>1 DEF Usable
    <3>3. ready'
      BY <1>1, <3>2 DEF Insert
    <3> QED
      BY <1>2, <3>1, <3>3 DEF SinkInv, ReadyKept, Unlocked
  <2>2. Phase # "closed"
    BY <1>2, PhaseIs
  <2>3. Phase' = "open"
    BY <1>2, <2>1 DEF Phase
  <2> QED
    BY <2>2, <2>3
<1>8. Traits' = Traits
  BY <1>2 DEF Traits
<1>9. Len(batch) \in {Len(s) : s \in Shapes}
  OBVIOUS
<1> HIDE DEF over, new
<1>10. Log!Appends(TRUE, {Len(s) : s \in Shapes})
  BY <1>4, <1>5, <1>6, <1>9 DEF Log!Appends
<1> QED
  BY <1>7, <1>8, <1>10 DEF Log!Accept

LEMMA WriteRaisesRefuses == ASSUME SinkInv, WriteRaises PROVE Log!Refuse
<1>1. PICK batch \in Shapes, n \in Nat :
        /\ n \in 0..Len(batch) /\ Insert(batch, n)
        /\ n \in {0, Len(batch)} \/ cfg.kind \in Files
  BY RaisedSizes
<1> DEFINE over == Locks /\ cfg.kind = "parquet"
           old == IF over THEN <<>> ELSE CallsOf(table.rows)
           told == IF over THEN <<>> ELSE CallsOf(acked)
           new == CallsOf(SubSeq(Rows(batch, DOMAIN Cols(batch)), 1, n))
           sizes == {0} \cup (IF Traits.torn THEN UNION {1..m : m \in {Len(s) : s \in Shapes}}
                              ELSE {Len(s) : s \in Shapes})
<1>2. handle /\ Usable /\ handle' = handle /\ cfg' = cfg /\ acked' = Kept
  BY DEF WriteRaises, Usable
<1>3. /\ over \in (IF Phase = "fresh" THEN Log!StartsOver ELSE {FALSE})
      /\ old \in Seq(Nat) /\ new \in Seq(Nat) /\ Len(new) = n
      /\ CallsOf(table.rows)' = old \o new
  BY <1>1, <1>2, InsertAppends
<1>4. /\ Log!IsPrefix(old, old \o new)
      /\ SubSeq(old \o new, Len(old) + 1, Len(old \o new)) = new
  BY <1>3, AppendedIs
<1>5. CallsOf(acked)' = told
  BY <1>2, CallsEmpty DEF Kept
<1>6. n \in sizes
  <2>1. Len(batch) \in {Len(s) : s \in Shapes}
    OBVIOUS
  <2>2. CASE n \in {0, Len(batch)} /\ ~Traits.torn
    BY <2>1, <2>2
  <2>3. CASE n = 0
    BY <2>3
  <2>4. CASE Traits.torn /\ n # 0
    <3>1. n \in 1..Len(batch)
      BY <1>1, <2>4
    <3> QED
      BY <2>1, <2>4, <3>1
  <2>5. cfg.kind \in Files => Traits.torn
    BY DEF Traits
  <2> QED
    BY <1>1, <2>2, <2>3, <2>4, <2>5
<1>7. Phase # "closed" /\ Phase' # "closed"
  BY <1>2 DEF Phase
<1>8. Traits' = Traits
  BY <1>2 DEF Traits
<1> HIDE DEF over, new, sizes
<1>10. Log!Appends(FALSE, sizes)
  BY <1>3, <1>4, <1>5, <1>6 DEF Log!Appends
<1> QED
  BY <1>7, <1>8, <1>10 DEF Log!Refuse, sizes

\* What neither stores nor acknowledges.
LEMMA NothingStored ==
    ASSUME UNCHANGED <<cfg, table, acked>>
    PROVE  /\ Traits' = Traits
           /\ CallsOf(table.rows)' = CallsOf(table.rows) /\ CallsOf(acked)' = CallsOf(acked)
  BY DEF Traits

LogVars == <<CallsOf(table.rows), CallsOf(acked), Phase, Traits>>

LEMMA OpenImplements ==
    ASSUME SinkInv, Open \/ OpenRaises
    PROVE  Log!Open \/ UNCHANGED LogVars
<1>1. CASE OpenFile
  <2>1. /\ Traits' = Traits /\ Traits.rewrites
        /\ CallsOf(table.rows)' = <<>> /\ CallsOf(acked)' = <<>>
    BY <1>1, CallsEmpty DEF OpenFile, Traits
  <2>2. Phase = "closed" /\ Phase' # "closed"
    BY <1>1 DEF OpenFile, Phase
  <2>3. TRUE \in Log!StartsOver
    BY <2>1 DEF Log!StartsOver
  <2> QED
    BY <2>1, <2>2, <2>3 DEF Log!Open
<1>2. ASSUME ~handle, handle', UNCHANGED <<cfg, table, acked>>
      PROVE  Log!Open
  <2>1. Phase = "closed" /\ Phase' # "closed"
    BY <1>2 DEF Phase
  <2>2. FALSE \in Log!StartsOver
    BY DEF Log!StartsOver
  <2> QED
    BY <1>2, <2>1, <2>2, NothingStored DEF Log!Open
<1>3. ASSUME UNCHANGED <<cfg, table, acked>>, handle' <=> handle, ~handle \/ schema' = schema
      PROVE  UNCHANGED LogVars
  <2>1. Phase' = Phase
    BY <1>3 DEF Phase
  <2> QED
    BY <1>3, <2>1, NothingStored DEF LogVars
<1>4. CASE OpenLazily \/ OpenToTable
  BY <1>2, <1>4 DEF OpenLazily, OpenToTable
<1>5. CASE OpenAgain \/ ConnectFails
  BY <1>3, <1>5 DEF OpenAgain, ConnectFails
<1>6. CASE IntrospectFails
  <2>1. UNCHANGED <<cfg, table, acked, schema>> /\ ~handle
    BY <1>6 DEF IntrospectFails
  <2>2. CASE cfg.kind = "postgres"
    <3>1. handle'
      BY <1>6, <2>2 DEF IntrospectFails
    <3> QED
      BY <1>2, <2>1, <3>1
  <2>3. CASE cfg.kind # "postgres"
    <3>1. ~handle'
      BY <1>6, <2>3 DEF IntrospectFails
    <3> QED
      BY <1>3, <2>1, <3>1
  <2> QED
    BY <2>2, <2>3
<1> QED
  BY <1>1, <1>4, <1>5, <1>6 DEF Open, OpenRaises

LEMMA CreateFailsImplements ==
    ASSUME SinkInv, CreateFails PROVE Log!Refuse \/ UNCHANGED LogVars
<1> DEFINE sizes == {0} \cup (IF Traits.torn THEN UNION {1..m : m \in {Len(s) : s \in Shapes}}
                              ELSE {Len(s) : s \in Shapes})
           old == CallsOf(table.rows)
<1>1. UNCHANGED <<cfg, table, acked>> /\ handle /\ handle'
  BY DEF CreateFails
<1>2. Phase # "closed" /\ Phase' # "closed"
  BY <1>1 DEF Phase
<1>3. CallsOf(table.rows)' = old /\ CallsOf(acked)' = CallsOf(acked) /\ Traits' = Traits
  BY <1>1, NothingStored
<1>4. old \in Seq(Nat) /\ <<>> \in Seq(Nat) /\ Len(<<>>) = 0
  BY CallsType, EmptySeq DEF SinkInv, Typed
<1> HIDE DEF old
<1>5. old \o <<>> = old
  BY <1>4, ConcatEmptySeq
<1>6. Log!IsPrefix(old, old) /\ SubSeq(old, Len(old) + 1, Len(old)) = <<>>
  BY <1>4, <1>5, AppendedIs
<1>7. 0 \in sizes
  OBVIOUS
<1>8. FALSE \in (IF Phase = "fresh" THEN Log!StartsOver ELSE {FALSE})
  BY DEF Log!StartsOver
<1> HIDE DEF sizes
<1>9. Log!Appends(FALSE, sizes)
  BY <1>3, <1>4, <1>6, <1>7, <1>8 DEF Log!Appends, old
<1> QED
  BY <1>2, <1>3, <1>9 DEF Log!Refuse, sizes

LEMMA CloseImplements ==
    ASSUME SinkInv, Close \/ CloseRaises PROVE Log!Close \/ UNCHANGED LogVars
<1>1. UNCHANGED <<cfg, table, acked, schema>>
  BY DEF Close, CloseRaises
<1>2. CASE Close
  <2>1. Phase' = "closed"
    BY <1>2 DEF Close, Phase
  <2> QED
    BY <1>1, <2>1, NothingStored DEF Log!Close
<1>3. CASE CloseRaises
  <2>1. Phase' = Phase
    BY <1>1, <1>3 DEF CloseRaises, Phase
  <2> QED
    BY <1>1, <2>1, NothingStored DEF LogVars
<1> QED
  BY <1>2, <1>3

LEMMA CrashImplements == ASSUME SinkInv, Crash PROVE Log!Crash
<1> DEFINE lost == cfg.kind = "memory" \/ (cfg.kind = "parquet" /\ ready)
<1>1. /\ table' = IF lost THEN [table EXCEPT !.rows = <<>>] ELSE table
      /\ acked' = IF lost THEN <<>> ELSE acked
      /\ handle' = FALSE /\ cfg' = cfg
  BY DEF Crash
<1>2. Phase' = "closed" /\ Traits' = Traits
  BY <1>1 DEF Phase, Traits
<1>3. CASE lost
  <2>1. Traits.volatile
    BY <1>3 DEF Traits
  <2>2. CallsOf(table.rows)' = <<>> /\ CallsOf(acked)' = <<>>
    <3>1. table'.rows = <<>>
      BY <1>1, <1>3 DEF SinkInv, Typed
    <3> QED
      BY <1>1, <1>3, <3>1, CallsEmpty
  <2> QED
    BY <1>2, <2>1, <2>2 DEF Log!Crash
<1>4. CASE ~lost
  BY <1>1, <1>2, <1>4, NothingStored DEF Log!Crash
<1> QED
  BY <1>3, <1>4

\* Every sink implements AppendLog: what write_many acknowledged is stored, whole and in
\* the order of the calls, through failed writes, closes, opens and crashes, except where
\* the traits of the sink say that it starts over or dies with its process.
THEOREM SinksKeepLog == Spec => KeepsLog
<1>1. Init => Log!Init
  <2> SUFFICES ASSUME Init PROVE Log!Init
    OBVIOUS
  <2>1. CallsOf(table.rows) = <<>> /\ CallsOf(acked) = <<>>
    BY CallsEmpty DEF Init
  <2>2. Phase = "closed"
    BY DEF Init, Phase
  <2>3. Traits \in [torn : BOOLEAN, rewrites : BOOLEAN, volatile : BOOLEAN]
    BY DEF Traits
  <2> QED
    BY <2>1, <2>2, <2>3 DEF Log!Init
<1>2. SinkInv /\ SinkInv' /\ [Next]_vars => [Log!Next]_LogVars
  <2> SUFFICES ASSUME SinkInv, SinkInv', [Next]_vars PROVE [Log!Next]_LogVars
    OBVIOUS
  <2>1. CASE UNCHANGED vars
    BY <2>1 DEF vars, LogVars, Phase, Traits
  <2>2. CASE Next
    BY <2>2, OpenImplements, WriteAccepts, WriteRaisesRefuses, CreateFailsImplements,
       CloseImplements, CrashImplements
    DEF Next, Log!Next
  <2> QED
    BY <2>1, <2>2
<1> QED
  BY <1>1, <1>2, Invariant, PTL DEF Spec, KeepsLog, Log!Spec, LogVars

=============================================================================
