--------------------------- MODULE VFSProperties ---------------------------
(***************************************************************************)
(* What the virtual file system promises.  Every property is a step        *)
(* property: [] of a relation between a state and the next.  A step is     *)
(* recognised by the action it satisfies.                                  *)
(***************************************************************************)
EXTENDS VFS, FiniteSets

Succeeds == res' = "ok"

MoveStep == \E src, dst \in Path : Move(src, dst)
CopyStep == \E src, dst \in Path : Copy(src, dst, TRUE)
RemoveStep == \E p \in Path : Remove(p, TRUE)
ReloadStep ==
    \/ \E m \in MountPoints, granted \in BOOLEAN : MountStorage(m, granted)
    \/ \E m \in MountPoints : SyncStorage(m)
    \/ Restore
WriteStep ==
    \E p \in Path, d \in Text, append \in BOOLEAN : WriteFile(p, d, append, Unversioned)

OthersStep ==
    \E m \in MountPoints, p \in Path :
        ExternalDelete(m, p) \/ \E d \in Text : ExternalWrite(m, p, d)

-----------------------------------------------------------------------------
(* The tree. *)

\* Every node hangs from directories up to the root, and the working directory
\* is one of them or was removed from one of them (nodes.py add_child and
\* remove_child, path()).
TreeIsWellFormed ==
    /\ WellFormed(fs)
    /\ snap.taken => WellFormed(snap.fs)
    /\ IsDir(fs, cwd.at)

\* What a policy allows to become of a node and its text.
Keeps(node, new) ==
    /\ new.kind = node.kind
    /\ IF node.policy.writable
       THEN /\ Len(node.content) <= Len(new.content)
            /\ SubSeq(new.content, 1, Len(node.content)) = node.content
       ELSE new.content = node.content

\* A read-only node keeps its kind and text and an append-only file only grows,
\* at its place or, when an ancestor is moved, at a place that was free; no
\* recursive remove and no overwriting copy takes it, even one that fails half
\* way.  The exceptions are a move that fails (FailedMoveChangesNothing) and the
\* calls that put another tree in place, whole or below a mount.
PolicyProtects ==
    [][ \A p \in Path : Protected(fs, p) =>
            \/ Keeps(fs[p], fs'[p])
            \/ \E q \in Path : ~Exists(fs, q) /\ fs'[q] = fs[p]
            \/ ~Succeeds /\ MoveStep
            \/ ReloadStep ]_vars

\* A successful move loses, duplicates and alters no node: the tree holds the
\* same nodes as before, as many times.
MovePreservesNodes ==
    [][ Succeeds /\ fs' # fs /\ MoveStep =>
        \A p \in Path :
            Cardinality({q \in Path : fs[q] = fs[p]})
                = Cardinality({q \in Path : fs'[q] = fs[p]}) ]_vars

-----------------------------------------------------------------------------
(* The full text index, the hooks and the storage mounts follow the tree.  *)

IndexInStep == indexOn => index = Texts(fs)

MirrorInStep ==
    \A p \in Path : Hooked(p) =>
        /\ mirror[p].present <=> IsFile(fs, p)
        /\ mirror[p].present => mirror[p].content = fs[p].content

\* The mount at m holds what its adapter holds, apart from the mounts inside it.
StoreInStep(m) ==
    \A p \in Path : Under(p, m) /\ MountOf(p) = m =>
        IF IsFile(fs, p)
        THEN store[m][p] = StoredEntry(fs[p].content, fs[p].version)
        ELSE ~store[m][p].present

\* search never answers from old text or for a path that is gone as long as the
\* calls succeed, and a remove that stops half way keeps it so: only another
\* call that raises can leave an index that was in step out of step.
IndexFollowsTree ==
    [][ IndexInStep /\ ~IndexInStep' => ~Succeeds /\ ~RemoveStep ]_vars

\* A host that applies the path events has the files' texts: a write that
\* succeeds and any remove, also one that stops half way, are announced in full.
MirrorFollowsWrites ==
    [][ MirrorInStep /\ ~MirrorInStep' => ~(WriteStep /\ Succeeds) /\ ~RemoveStep ]_vars

\* A write that succeeds and any remove bring the same change to the adapter:
\* texts, versions and deletions.
StoreFollowsWrites ==
    [][ \A m \in mounted : StoreInStep(m) /\ ~StoreInStep(m)' =>
            ~(WriteStep /\ Succeeds) /\ ~RemoveStep ]_vars

\* After a sync that succeeds the mount holds what the adapter holds, whatever
\* the tree, the adapter's other clients and failed calls had made of both.
SyncConverges ==
    [][ \A m \in mounted : Succeeds /\ ~StoreInStep(m)' => ~SyncStorage(m) ]_vars

\* The adapter has a version of the file at p that the tree does not have.
Diverged(p) ==
    /\ IsFile(fs, p)
    /\ MountsOver(p) # {}
    /\ store[MountOf(p)][p].present
    /\ store[MountOf(p)][p].version # fs[p].version

\* Conflicts and divergence go together.  A write meets a storage conflict only
\* where some mount and its adapter differ: a tree in step with all its adapters
\* never meets one.  And the reason for a conflict is not forgotten: as long as the
\* file is there, no write to it, also one that a conflict or a policy ends half
\* way, and no other call brings its version to the adapter's, which would let the
\* next write replace a text that the tree never had.  Only loading the tree anew,
\* a copy over the file and other clients of the adapter do (_persist_storage takes
\* the version back).
ConflictsMatchDivergence ==
    [][ /\ res' = "conflict" /\ WriteStep => \E m \in mounted : ~StoreInStep(m)
        /\ \A p \in Path : Diverged(p) /\ IsFile(fs, p)' /\ ~Diverged(p)' =>
               ReloadStep \/ CopyStep \/ OthersStep ]_vars

-----------------------------------------------------------------------------
(* Snapshots. *)

\* A restore that succeeds brings back the tree of the snapshot node by node,
\* its working directory and mounts, and an index that matches, whatever was
\* moved, removed, indexed or mounted since.
RestoreReturns ==
    [][ Succeeds /\ Restore =>
            /\ fs' = snap.fs
            /\ Pwd(cwd)' = snap.pwd
            /\ mounted' = snap.mounted
            /\ IndexInStep' ]_vars

-----------------------------------------------------------------------------
(* What the documentation says and the code does not do. *)

\* docs/roadmap.md: cp and mv let agents restructure files safely.  A move that
\* fails leaves the tree as it was.
FailedMoveChangesNothing == [][ ~Succeeds /\ MoveStep => fs' = fs ]_vars
=============================================================================
