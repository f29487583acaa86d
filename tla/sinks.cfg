\* Every sink, fresh or onto an existing table; every call may fail, the process may die.
SPECIFICATION Spec
CONSTANTS
    Kinds = {"memory", "csv", "jsonl", "sqlite", "postgres", "parquet"}
    Shapes <- Batches
    Existing <- Tables
    MaxCalls = 3
    Failures = {"connect", "introspect", "create", "write", "close", "crash"}
INVARIANTS
    OpenHonest
    RowsFitTable
PROPERTIES
    KeepsLog
