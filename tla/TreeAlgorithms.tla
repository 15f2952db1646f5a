--------------------------- MODULE TreeAlgorithms ---------------------------
(***************************************************************************)
(* The claims that FileTree sums up exactly what the calls of TreeCalls do *)
(* in any order, from every state of VirtualFileSystem.                    *)
(***************************************************************************)
EXTENDS VFS, TreeCalls

\* A directory or file that cannot be made leaves no directory behind, and
\* FileTree knows when it can be made and what it makes.
MakingIsAllOrNothing ==
    \A p \in Path :
        LET dirs == ResolveDirCalls(fs, p)
            file == EnsureFileCalls(fs, p)
        IN  /\ dirs.ok = CanMakeDirs(fs, p)
            /\ dirs.tree = IF dirs.ok THEN MakeDirs(fs, p) ELSE fs
            /\ file.ok = CanEnsureFile(fs, p)
            /\ file.tree = IF file.ok THEN EnsureFile(fs, p) ELSE fs

\* The trees a recursive remove can end with, over all orders, are those of
\* RemovalOutcomes, and it succeeds exactly when its target is gone.
RemovalIsSummedUp ==
    \A p \in Path \ {Root} :
        Exists(fs, p) /\ ~Protected(fs, p) /\ ~Protected(fs, Parent(p)) =>
            LET ends == {RemoveCalls(fs, p, order) : order \in Orders}
            IN  /\ {e.tree : e \in ends} = {Detach(fs, tops) : tops \in RemovalOutcomes(fs, p)}
                /\ \A e \in ends : e.ok = ~Exists(e.tree, p)

\* The trees a load of a mount can end with, over all orders, are those of
\* LoadOutcomes, and it succeeds exactly when every entry has been created.
LoadIsSummedUp ==
    \A m \in MountPoints :
        IsDir(fs, m) =>
            LET entries == Entries(store[m])
                ends == {LoadCalls(fs, m, store[m], order) : order \in Orders}
            IN  ends = {[tree |-> Load(fs, m, E, store[m]), ok |-> E = entries] :
                           E \in LoadOutcomes(m, entries)}

\* The trees a restore of the present tree can end with, over all orders, are
\* those of RestoreOutcomes, and it succeeds exactly when every node is back.
RestoreIsSummedUp ==
    {RestoreCalls(fs, order) : order \in Orders}
        = {[tree |-> RestoreTree(fs, T), ok |-> T = Subtree(fs, Root)] :
              T \in RestoreOutcomes(fs)}
=============================================================================
