-------------------------------- MODULE Sinks --------------------------------
(***************************************************************************)
(* The sample sinks of sinks/: memory, csv, jsonl, sqlite, postgres and    *)
(* parquet, each driven by one caller through open, write_many and close,  *)
(* any number of times and in any order.  Every call may fail at each of   *)
(* its awaits; the schema is locked by the first batch or by the table.    *)
(*                                                                         *)
(* A sample is the number of the call that brought it and the type of its  *)
(* value in each column it has; a stored row keeps the columns it was      *)
(* stored with.  The backends (files, databases, pyarrow) are external.    *)
(***************************************************************************)
EXTENDS Naturals, Sequences, FiniteSets, TLC

CONSTANTS
    Kinds,      \* the sinks that are looked at
    Shapes,     \* the batches: sequences of functions from columns to value types
    Existing,   \* what a database may hold before: Unlocked, or the columns of its table
    MaxCalls,   \* write_many is called this often
    Failures    \* what may go wrong: "connect", "introspect", "create", "write", "close", "crash"

Files == {"csv", "jsonl"}
Databases == {"sqlite", "postgres"}
Types == {"int", "float", "str"}

AllKinds == Files \cup Databases \cup {"memory", "parquet"}

Columns ==
    (UNION {UNION {DOMAIN b[i] : i \in DOMAIN b} : b \in Shapes})
    \cup (UNION {DOMAIN t : t \in Existing})

\* A row of sample_to_row has the columns of the sample, whatever its reading has.
SampleRow == UNION {[C -> Types \cup {"none"}] : C \in (SUBSET Columns) \ {{}}}

ASSUME SinksAssumption ==
    /\ Kinds \subseteq AllKinds
    /\ \A batch \in Shapes : batch \in Seq(SampleRow) /\ batch # <<>>
    /\ MaxCalls \in Nat
    /\ Failures \subseteq {"connect", "introspect", "create", "write", "close", "crash"}

VARIABLES
    cfg,        \* the constructor's arguments: kind, create_table
    handle,     \* is the file, connection, pool or library held?
    ready,      \* _insert_sql or _writer is built
    schema,     \* SchemaLock._columns, or CsvSink._columns: column -> type
    table,      \* the backend: its columns, its rows
    calls,      \* history: the write_many calls so far
    acked,      \* history: the samples whose write_many returned, since the file was made
    opened,     \* history: the last open returned, and no close came after it
    botched     \* history: a create failed, or a parquet writer was closed

vars == <<cfg, handle, ready, schema, table, calls, acked, opened, botched>>

-----------------------------------------------------------------------------
\* The schema.

\* _columns is None; a table that does not exist.
Unlocked == [c \in {} |-> "str"]

\* The type of a column that held these, None left out.
Widen(types) ==
    CASE types = {} -> "str"
      [] Cardinality(types) = 1 -> CHOOSE t \in types : TRUE
      [] types = {"int", "float"} -> "float"
      [] OTHER -> "str"

\* SchemaLock.lock: every column of the batch, by the values that are there.
Infer(batch) ==
    LET rows == {batch[i] : i \in DOMAIN batch} IN
    [c \in UNION {DOMAIN r : r \in rows} |->
        Widen({r[c] : r \in {s \in rows : c \in DOMAIN s}} \ {"none"})]

\* CsvSink takes its header from the first row, and does not look at types.
Header(batch) == [c \in DOMAIN batch[1] |-> "str"]

\* Mutant: a column the row lacks is left out.
Project_Sparse(row, columns) ==
    [c \in columns \cap DOMAIN row |-> row[c]]

\* SchemaLock.project: exactly the locked columns, None where the row has no value.
Project(row, columns) ==
    [c \in columns |-> IF c \in DOMAIN row THEN row[c] ELSE "none"]

-----------------------------------------------------------------------------
\* The backends.

\* Postgres and Arrow columns are typed; SQLite and text files take anything.
Holds(type, value) ==
    \/ value \in {"none", type}
    \/ type = "float" /\ value = "int"

Init ==
    /\ cfg \in {[kind |-> k, create |-> b] : k \in Kinds, b \in BOOLEAN}
    /\ cfg.kind \notin Databases => cfg.create
    /\ table \in {[cols |-> t, rows |-> <<>>] : t \in Existing}
    /\ cfg.kind \notin Databases => table.cols = Unlocked
    /\ handle = FALSE /\ ready = FALSE /\ schema = Unlocked
    /\ calls = 0 /\ acked = <<>> /\ opened = FALSE /\ botched = FALSE

-----------------------------------------------------------------------------
\* open.

\* The file sinks open with "w".
OpenFile ==
    /\ cfg.kind \in Files /\ ~handle
    /\ table' = [cols |-> Unlocked, rows |-> <<>>] /\ acked' = <<>>
    /\ handle' = TRUE /\ opened' = TRUE
    /\ UNCHANGED <<cfg, ready, schema, calls, botched>>

\* No resource yet: memory; parquet until its first batch; a database that will create its table.
OpenLazily ==
    /\ ~handle
    /\ cfg.kind \in {"memory", "parquet"} \/ (cfg.kind \in Databases /\ cfg.create)
    /\ handle' = TRUE /\ opened' = TRUE
    /\ UNCHANGED <<cfg, ready, schema, table, calls, acked, botched>>

Introspectable == table.cols # Unlocked /\ schema = Unlocked

\* create_table=False: the schema is locked to the table's columns.
OpenToTable ==
    /\ cfg.kind \in Databases /\ ~cfg.create /\ ~handle
    /\ Introspectable
    /\ schema' = table.cols /\ ready' = TRUE
    /\ handle' = TRUE /\ opened' = TRUE
    /\ UNCHANGED <<cfg, table, calls, acked, botched>>

\* The connection cannot be made.
ConnectFails ==
    /\ "connect" \in Failures /\ cfg.kind # "memory" /\ ~handle
    /\ opened' = FALSE
    /\ UNCHANGED <<cfg, handle, ready, schema, table, calls, acked, botched>>

\* No such table, a query that fails, or a schema locked before a close (lock_to called
\* twice): SqliteSink releases its connection, PostgresSink keeps its pool.
IntrospectFails ==
    /\ cfg.kind \in Databases /\ ~cfg.create /\ ~handle
    /\ ~Introspectable \/ "introspect" \in Failures
    /\ handle' = (cfg.kind = "postgres") /\ opened' = FALSE
    /\ UNCHANGED <<cfg, ready, schema, table, calls, acked, botched>>

\* open on an open sink returns at once.
OpenAgain ==
    /\ handle /\ opened' = TRUE
    /\ UNCHANGED <<cfg, handle, ready, schema, table, calls, acked, botched>>

-----------------------------------------------------------------------------
\* write_many.

\* The first batch locks the schema.
Locks ==
    CASE cfg.kind = "csv" -> ~ready
      [] cfg.kind \in {"memory", "jsonl"} -> FALSE
      [] OTHER -> schema = Unlocked /\ cfg.create

LockedBy(batch) == IF cfg.kind = "csv" THEN Header(batch) ELSE Infer(batch)

\* CREATE TABLE IF NOT EXISTS; a ParquetWriter and a csv header start their file.
Created(cols) ==
    IF cfg.kind \in Databases /\ table.cols # Unlocked THEN table
    ELSE [cols |-> cols, rows |-> <<>>]

\* The schema is locked; then its table, or its writer, cannot be created.
CreateFails ==
    /\ "create" \in Failures /\ calls < MaxCalls
    /\ handle /\ Locks /\ cfg.kind # "csv"
    /\ \E batch \in Shapes : schema' = LockedBy(batch)
    /\ calls' = calls + 1 /\ botched' = TRUE
    /\ UNCHANGED <<cfg, handle, ready, table, acked, opened>>

Rows(batch, cols) ==
    [i \in DOMAIN batch |->
        [call |-> calls + 1,
         row |-> IF cfg.kind \in {"memory", "jsonl"} THEN batch[i] ELSE Project(batch[i], cols)]]

\* A new ParquetWriter replaces the file at its path.
Kept == IF Locks /\ cfg.kind = "parquet" THEN <<>> ELSE acked

Usable == handle /\ (cfg.kind \in {"memory", "jsonl"} \/ Locks \/ ready)

\* Mutant: a failed insert is not rolled back.
Atomic_Never == FALSE

\* One transaction, one row group.
Atomic == cfg.kind \in Databases \cup {"parquet", "memory"}

Insert(batch, stored) ==
    LET cols == IF Locks THEN LockedBy(batch) ELSE schema
        new == Rows(batch, DOMAIN cols)
    IN  /\ schema' = cols
        /\ ready' = (ready \/ Locks)
        /\ table' = [IF Locks THEN Created(cols) ELSE table EXCEPT
                        !.rows = @ \o SubSeq(new, 1, stored)]
        /\ calls' = calls + 1

Accepted(batch) ==
    LET cols == IF Locks THEN LockedBy(batch) ELSE schema
        into == IF Locks THEN Created(cols).cols ELSE table.cols
        new == Rows(batch, DOMAIN cols)
    IN  \A i \in DOMAIN new :
            CASE cfg.kind \in {"postgres", "parquet"} ->
                    /\ DOMAIN cols \subseteq DOMAIN into
                    /\ \A c \in DOMAIN new[i].row : Holds(into[c], new[i].row[c])
              [] cfg.kind = "sqlite" -> DOMAIN cols \subseteq DOMAIN into
              [] OTHER -> TRUE

Write ==
    /\ Usable /\ calls < MaxCalls
    /\ \E batch \in Shapes :
        /\ Accepted(batch) /\ Insert(batch, Len(batch))
        /\ acked' = Kept \o Rows(batch, DOMAIN schema')
    /\ UNCHANGED <<cfg, handle, opened, botched>>

\* write_many raises: the backend refuses a row, or fails, with all or nothing of a
\* transaction stored, and any prefix of a text file's rows.
WriteRaises ==
    /\ Usable /\ calls < MaxCalls /\ cfg.kind # "memory"
    /\ \E batch \in Shapes :
        /\ ~Accepted(batch) \/ "write" \in Failures
        /\ \E n \in 0..Len(batch) :
            /\ n # 0 => /\ Accepted(batch)
                        /\ Atomic => cfg.kind = "postgres" /\ n = Len(batch)
            /\ Insert(batch, n)
    /\ acked' = Kept
    /\ UNCHANGED <<cfg, handle, opened, botched>>

-----------------------------------------------------------------------------
\* close.

\* Mutant: a close drops the statement, the schema stays locked.
Close_Forgets ==
    /\ handle
    /\ handle' = FALSE /\ opened' = FALSE
    /\ ready' = FALSE
    /\ botched' = (botched \/ (cfg.kind = "parquet" /\ ready))
    /\ UNCHANGED <<cfg, schema, table, calls, acked>>

\* The statement survives a close of a database, a writer does not.
Close ==
    /\ handle
    /\ handle' = FALSE /\ opened' = FALSE
    /\ ready' = (ready /\ cfg.kind \in Databases)
    /\ botched' = (botched \/ (cfg.kind = "parquet" /\ ready))
    /\ UNCHANGED <<cfg, schema, table, calls, acked>>

\* ParquetWriter.close raises: the writer is dropped, pyarrow is not.
CloseRaises ==
    /\ "close" \in Failures /\ cfg.kind = "parquet" /\ handle /\ ready
    /\ ready' = FALSE /\ botched' = TRUE
    /\ UNCHANGED <<cfg, handle, schema, table, calls, acked, opened>>

\* The process dies, and a new one has a new sink for the same file or table.  What was
\* in memory is gone; so is a Parquet file that has no footer yet.
Crash ==
    /\ "crash" \in Failures
    /\ LET lost == cfg.kind = "memory" \/ (cfg.kind = "parquet" /\ ready) IN
        /\ table' = IF lost THEN [table EXCEPT !.rows = <<>>] ELSE table
        /\ acked' = IF lost THEN <<>> ELSE acked
    /\ handle' = FALSE /\ ready' = FALSE /\ schema' = Unlocked
    /\ opened' = FALSE /\ botched' = FALSE
    /\ UNCHANGED <<cfg, calls>>

-----------------------------------------------------------------------------

Open == OpenFile \/ OpenLazily \/ OpenToTable \/ OpenAgain
OpenRaises == ConnectFails \/ IntrospectFails

Next ==
    \/ Open \/ OpenRaises
    \/ Write \/ CreateFails \/ WriteRaises
    \/ Close \/ CloseRaises
    \/ Crash

Spec == Init /\ [][Next]_vars

-----------------------------------------------------------------------------
\* Properties.

\* What a sink is as a log: the calls its rows came with, and where it is.
CallsOf(rows) == [i \in DOMAIN rows |-> rows[i].call]

Phase ==
    CASE ~handle -> "closed"
      [] handle /\ cfg.kind = "parquet" /\ schema = Unlocked -> "fresh"
      [] OTHER -> "open"

Traits ==
    [torn |-> cfg.kind \in Files,
     rewrites |-> cfg.kind \in Files \cup {"parquet"},
     volatile |-> cfg.kind \in {"memory", "parquet"}]

Log == INSTANCE AppendLog WITH
    Sizes <- {Len(s) : s \in Shapes},
    log <- CallsOf(table.rows),
    kept <- CallsOf(acked),
    phase <- Phase,
    traits <- Traits

\* A sink keeps the log of AppendLog: acknowledged batches stay, whole and in order,
\* through failed writes, a close, an open and a crash; a failed transaction leaves its
\* batch or nothing, a text file may keep the beginning; files start over when they are
\* opened or begun, memory and an unclosed Parquet file die with the process.
KeepsLog == Log!Spec

\* "Safe to call again on an already-open sink": once open has returned, write_many has
\* what it needs, however the sink was opened and closed before, unless a create failed
\* or a parquet writer was closed; and an open that raised holds nothing.  The exception
\* to both is PostgresSink onto an existing table, whose pool outlives a failed open.
OpenHonest ==
    LET keepsPool == cfg.kind = "postgres" /\ ~cfg.create IN
    /\ opened /\ ~botched /\ ~keepsPool => Usable
    /\ handle /\ ~opened => keepsPool

\* Whatever columns later batches bring, stored rows fit the table or the header: no row
\* has a column it lacks, a row of a csv or Parquet file has all of them.
RowsFitTable ==
    \A i \in DOMAIN table.rows :
        LET row == table.rows[i].row IN
        /\ cfg.kind \in Databases => DOMAIN row \subseteq DOMAIN table.cols
        /\ cfg.kind \in {"csv", "parquet"} => DOMAIN row = DOMAIN table.cols

=============================================================================
