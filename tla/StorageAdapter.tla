--------------------------- MODULE StorageAdapter ---------------------------
(***************************************************************************)
(* MemoryStorageAdapter: versioned entries and a write that compares the   *)
(* version its caller last saw.  Entries are named by the absolute path    *)
(* they are mounted at instead of the path relative to the mount.          *)
(***************************************************************************)
EXTENDS FileTree

Entry == [present: BOOLEAN, content: Seq(Data), version: Nat]
Store == [Path -> Entry]

NoEntry == [present |-> FALSE, content |-> << >>, version |-> 0]
StoredEntry(content, version) ==
    [present |-> TRUE, content |-> content, version |-> version]

\* The keys of adapter.list().
Entries(store) == {p \in Path : store[p].present}

\* Slip: the version given is expected to be newer.
AcceptsNewer(store, p, v) == store[p].present => store[p].version < v

\* adapter.write(p, content, version=v) does not raise ValueError.
Accepts(store, p, v) == store[p].present => store[p].version = v

\* Slip: the entry keeps the version given.
AdapterWriteSame(store, p, content, v) ==
    [store EXCEPT ![p] = StoredEntry(content, v)]

AdapterWrite(store, p, content, v) ==
    [store EXCEPT ![p] = StoredEntry(content, v + 1)]

\* adapter.delete of every path of P; a missing entry is no error.
AdapterDelete(store, P) ==
    [p \in Path |-> IF p \in P THEN NoEntry ELSE store[p]]
=============================================================================
