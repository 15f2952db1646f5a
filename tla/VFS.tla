-------------------------------- MODULE VFS --------------------------------
(***************************************************************************)
(* VirtualFileSystem: the tree, the working directory, the full text       *)
(* index, the storage mounts, one snapshot, and what a host rebuilds from  *)
(* the path events.  Each action is one public method, from its argument   *)
(* checks to its last side effect; a method that raises leaves what it had *)
(* changed before.  Paths are given normalised (module Normalization).     *)
(* Directories with loaders and files with content providers are left out. *)
(* A definition that a comment calls a slip is no part of the model: it is *)
(* a mistake that the checks are shown to notice.                          *)
(***************************************************************************)
EXTENDS StorageAdapter

CONSTANTS
    Grants,         \* the policies the host gives: pairs of a path and a policy
    Homes,          \* the directories the host changes to
    MountPoints,    \* the paths the host mounts storage at
    Seed,           \* what each adapter holds at the start
    External,       \* TRUE when other clients write to the adapters too
    HookPrefixes,   \* the prefixes path hooks are registered for
    Indexing,       \* TRUE when the host may turn the full text index on
    Snapshots,      \* TRUE when the host takes snapshots and restores them
    Unversioned,    \* the expected_version of a call that gives none
    Expected,       \* the values of expected_version
    MaxGone,        \* bound: names below the live part of a removed cwd
    MaxLen,         \* bound: pieces of text in a file
    MaxVersion      \* bound: version of a file or an entry

ASSUME ConstantAssumption ==
    /\ Grants \subseteq Path \X Policy
    /\ Homes \subseteq Path
    /\ MountPoints \subseteq Path
    /\ HookPrefixes \subseteq Path
    /\ Seed \in [MountPoints -> Store]
    /\ \A m \in MountPoints : \A p \in Entries(Seed[m]) : Under(p, m) /\ p # Root
    /\ MaxGone \in Nat
    /\ MaxLen \in Nat
    /\ MaxVersion \in Nat

VARIABLES
    fs,         \* the tree under VirtualFileSystem.root
    cwd,        \* the working directory, see below
    index,      \* FullTextIndex: text by path
    indexOn,    \* _full_text_index is not None
    mounted,    \* the keys of _storage_mounts
    store,      \* the entries of the adapter at each mount point
    mirror,     \* a path hook's copy of the files: text by path
    snap,       \* the last VFSSnapshot
    res         \* how the last call ended

vars == <<fs, cwd, index, indexOn, mounted, store, mirror, snap, res>>

\* The node self.cwd is found by parent pointers.  When it has been removed,
\* at is the closest directory that is still in the tree and gone the names
\* from there.
Location == [at: Path, gone: Seq(Name)]

Pwd(location) == location.at \o location.gone

NoSnapshot == [taken |-> FALSE, fs |-> EmptyTree, pwd |-> Root, mounted |-> {}]

\* An entry without text stands for no entry: it has no line to match.
NoText == [p \in Path |-> << >>]

Unmirrored == [present |-> FALSE, content |-> << >>]

TypeOK ==
    /\ fs \in Tree
    /\ cwd \in Location
    /\ index \in [Path -> Seq(Data)]
    /\ indexOn \in BOOLEAN
    /\ mounted \subseteq MountPoints
    /\ store \in [MountPoints -> Store]
    /\ mirror \in [Path -> [present: BOOLEAN, content: Seq(Data)]]
    /\ snap \in [taken: BOOLEAN, fs: Tree, pwd: Seq(Name),
                 mounted: SUBSET MountPoints]
    /\ res \in {"ok", "error", "conflict"}

Init ==
    /\ fs = EmptyTree
    /\ cwd = [at |-> Root, gone |-> << >>]
    /\ index = NoText
    /\ indexOn = FALSE
    /\ mounted = {}
    /\ store = Seed
    /\ mirror = [p \in Path |-> Unmirrored]
    /\ snap = NoSnapshot
    /\ res = "ok"

-----------------------------------------------------------------------------
(* Helpers of the handlers. *)

Return(result) == res' = result

\* The call raises before it changes anything.
Raise == Return("error") /\ UNCHANGED <<fs, cwd, index, indexOn, mounted, store, mirror, snap>>

\* Only the tree changes.
TreeOnly(f) ==
    /\ fs' = f
    /\ UNCHANGED <<cwd, index, indexOn, mounted, store, mirror, snap>>

\* cwd.path() when the subtrees at tops have left the tree.
CwdWithout(tops) ==
    IF \E t \in tops : Under(cwd.at, t)
    THEN LET t == CHOOSE t \in tops : Under(cwd.at, t)
         IN  [at |-> Parent(t),
              gone |-> SubSeq(cwd.at, Len(t), Len(cwd.at)) \o cwd.gone]
    ELSE cwd

DetachCwd(tops) == cwd' = CwdWithout(tops) /\ Len(cwd'.gone) <= MaxGone

\* _rebuild_index, which raises when iter_files may not read the root.
RebuildRaises(f) == indexOn /\ ~f[Root].policy.readable
Texts(f) == [p \in Path |-> IF IsFile(f, p) THEN f[p].content ELSE << >>]
RebuildIndex(f) ==
    index' = IF indexOn /\ ~RebuildRaises(f) THEN Texts(f) ELSE index

\* Slip: a removal leaves the index alone.
IndexKept(P) == index

\* _index_file and _remove_index_entry.
Indexed(p, text) == IF indexOn THEN [index EXCEPT ![p] = text] ELSE index
IndexWithout(P) ==
    IF indexOn THEN [p \in Path |-> IF p \in P THEN << >> ELSE index[p]] ELSE index

\* _find_storage_mount: the longest prefix wins.
MountsOver(p) == {m \in mounted : Under(p, m)}
MountOf(p) == CHOOSE m \in MountsOver(p) : \A n \in MountsOver(p) : Len(n) <= Len(m)

\* The path events of the files in P, as the hooks for their prefixes apply
\* them: the text of a file created or updated, or its deletion.
Hooked(p) == \E h \in HookPrefixes : Under(p, h)
\* Slip: deletions are not announced.
MirrorOfWrites(P, entry) ==
    [p \in Path |-> IF p \in P /\ Hooked(p) /\ entry.present THEN entry ELSE mirror[p]]
MirrorWith(P, entry) ==
    [p \in Path |-> IF p \in P /\ Hooked(p) THEN entry ELSE mirror[p]]

-----------------------------------------------------------------------------
(* mkdir, write_file, append_file, touch. *)

\* The parent, which may have to be made, is checked before the node itself.
MkdirAllowed(p, parents, exist_ok) ==
    \/ p = Root
    \/ /\ IF parents THEN CanMakeDirs(fs, Parent(p)) ELSE IsDir(fs, Parent(p))
       /\ WriteAllowed(MakeDirs(fs, Parent(p))[Parent(p)], FALSE)
       /\ ~IsFile(fs, p)
       /\ IsDir(fs, p) => exist_ok

Mkdir(p, parents, exist_ok) ==
    \/ ~MkdirAllowed(p, parents, exist_ok) /\ Raise
    \/ MkdirAllowed(p, parents, exist_ok) /\ Return("ok") /\ TreeOnly(MakeDirs(fs, p))

\* Slip: the version is counted down.
WrittenBack(node, d, append) ==
    [node EXCEPT !.content = IF append THEN node.content \o d ELSE d,
                 !.version = node.version - 1]

\* node.write and the new version of the file at p.
Written(node, d, append) ==
    [node EXCEPT !.content = IF append THEN node.content \o d ELSE d,
                 !.version = node.version + 1]

\* Slip: a version conflict leaves the version raised.
RaisedByConflict(f, p, node) == [f EXCEPT ![p] = node]

\* A version conflict takes back the version, but not the text.
AfterConflict(f, p, node) == [f EXCEPT ![p].content = node.content]

\* _persist_storage, _index_file and _emit_write_event, in this order; a
\* version conflict ends the call.
PersistAndPublish(f, p, node) ==
    LET m == MountOf(p)
        accepted == MountsOver(p) # {} => Accepts(store[m], p, f[p].version)
    IN  \/ /\ ~accepted
           /\ Return("conflict")
           /\ TreeOnly(AfterConflict(f, p, node))
        \/ /\ accepted
           /\ Return("ok")
           /\ fs' = [f EXCEPT ![p] = node]
           /\ store' = IF MountsOver(p) = {} THEN store
                       ELSE [store EXCEPT ![m] =
                               AdapterWrite(store[m], p, node.content, f[p].version)]
           /\ index' = Indexed(p, node.content)
           /\ mirror' = MirrorWith({p}, [present |-> TRUE, content |-> node.content])
           /\ UNCHANGED <<cwd, indexOn, mounted, snap>>

\* Slip: an older version is taken too.
VersionAtLeast(node, expected) == expected = Unversioned \/ expected <= node.version

\* Slip: the version is compared after it was raised.
VersionRaised(node, expected) == expected \in {Unversioned, node.version + 1}

\* _check_version does not raise.
VersionMatches(node, expected) == expected \in {Unversioned, node.version}

WriteFile(p, d, append, expected) ==
    \/ ~CanEnsureFile(fs, p) /\ Raise
    \/ /\ CanEnsureFile(fs, p)
       /\ LET f == EnsureFile(fs, p)
              node == Written(f[p], d, append)
              allowed == WriteAllowed(f[p], append) /\ VersionMatches(f[p], expected)
          IN  \/ ~allowed /\ Return("error") /\ TreeOnly(f)
              \/ /\ allowed
                 /\ Len(node.content) <= MaxLen /\ node.version <= MaxVersion
                 /\ PersistAndPublish(f, p, node)

Touch(p) ==
    \/ ~CanEnsureFile(fs, p) /\ Raise
    \/ /\ CanEnsureFile(fs, p)
       /\ LET f == EnsureFile(fs, p)
          IN  \/ ~WriteAllowed(f[p], TRUE) /\ Return("error") /\ TreeOnly(f)
              \/ WriteAllowed(f[p], TRUE) /\ Return("ok") /\ TreeOnly(f)

-----------------------------------------------------------------------------
(* remove, move, copy. *)

\* Every file taken out leaves its adapter and the index and is announced.
TakeOut(tops) ==
    LET gone == {q \in Files(fs) : \E t \in tops : Under(q, t)}
    IN  /\ fs' = Detach(fs, tops)
        /\ DetachCwd(tops)
        /\ index' = IndexWithout(gone)
        /\ store' = [m \in MountPoints |->
              AdapterDelete(store[m], {q \in gone : MountsOver(q) # {} /\ MountOf(q) = m})]
        /\ mirror' = MirrorWith(gone, Unmirrored)
        /\ UNCHANGED <<indexOn, mounted, snap>>

Remove(p, recursive) ==
    LET refused == \/ p = Root
                   \/ ~Exists(fs, p)
                   \/ Protected(fs, p)
                   \/ Protected(fs, Parent(p))
                   \/ Children(fs, p) # {} /\ ~recursive
    IN  \/ refused /\ Raise
        \/ /\ ~refused
           /\ \E tops \in RemovalOutcomes(fs, p) :
                /\ TakeOut(tops)
                /\ Return(IF p \in tops THEN "ok" ELSE "error")

\* A dir is never moved into itself; a file is never moved over a node.
MoveRefused(src, dst) ==
    \/ src = Root
    \/ ~Exists(fs, src)
    \/ Protected(fs, src) \/ Protected(fs, Parent(src))
    \/ IsFile(fs, dst)
    \/ ~IsDir(fs, DestinationDir(fs, dst))
    \/ Protected(fs, DestinationDir(fs, dst))
    \/ IsDir(fs, src) /\ Under(DestinationDir(fs, dst), src)

\* remove_child has been called when add_child meets a node of that name.
Move(src, dst) ==
    \/ MoveRefused(src, dst) /\ Raise
    \/ /\ ~MoveRefused(src, dst)
       /\ LET to == Destination(fs, src, dst)
              without == Detach(fs, {src})
              f == Graft(without, fs, src, to)
          IN  \/ to = src /\ Return("ok") /\ TreeOnly(fs)
              \/ /\ to # src /\ Exists(fs, to)
                 /\ Return("error")
                 /\ fs' = without
                 /\ DetachCwd({src})
                 /\ UNCHANGED <<index, indexOn, mounted, store, mirror, snap>>
              \/ /\ to # src /\ ~Exists(fs, to)
                 /\ Fits(fs, src, to)
                 /\ fs' = f
                 /\ cwd' = IF Under(cwd.at, src)
                           THEN [cwd EXCEPT !.at = Rebase(cwd.at, src, to)]
                           ELSE cwd
                 /\ IF IsFile(fs, src)
                    THEN index' = IF indexOn
                                  THEN [index EXCEPT ![src] = << >>, ![to] = f[to].content]
                                  ELSE index
                    ELSE RebuildIndex(f)
                 /\ Return(IF IsDir(fs, src) /\ RebuildRaises(f) THEN "error" ELSE "ok")
                 /\ UNCHANGED <<indexOn, mounted, store, mirror, snap>>

CopyRefused(src, dst, recursive) ==
    \/ ~Exists(fs, src)
    \/ IsDir(fs, src) /\ ~recursive
    \/ ~fs[src].policy.readable
    \/ ~IsDir(fs, DestinationDir(fs, dst))
    \/ Protected(fs, DestinationDir(fs, dst))
    \/ IsFile(fs, dst) /\ Protected(fs, dst)

\* A file at the destination is removed, from the tree alone, before the
\* check that a directory is not copied inside itself.
Copy(src, dst, recursive) ==
    \/ CopyRefused(src, dst, recursive) /\ Raise
    \/ /\ ~CopyRefused(src, dst, recursive)
       /\ LET to == Destination(fs, src, dst)
              cleared == IF IsFile(fs, dst) THEN Detach(fs, {dst}) ELSE fs
              inside == IsDir(fs, src) /\ Under(to, src)
              f == Graft(cleared, Clone(fs), src, to)
          IN  \/ inside /\ Return("error") /\ TreeOnly(cleared)
              \/ ~inside /\ Exists(cleared, to) /\ Raise
              \/ /\ ~inside /\ ~Exists(cleared, to)
                 /\ Fits(fs, src, to)
                 /\ fs' = f
                 /\ IF IsFile(fs, src) THEN index' = Indexed(to, f[to].content)
                                       ELSE RebuildIndex(f)
                 /\ Return(IF IsDir(fs, src) /\ RebuildRaises(f) THEN "error" ELSE "ok")
                 /\ UNCHANGED <<cwd, indexOn, mounted, store, mirror, snap>>

-----------------------------------------------------------------------------
(* cd, set_policy, enable_full_text_index. *)

Cd(p) ==
    LET allowed == IsDir(fs, p) /\ fs[p].policy.readable
    IN  \/ ~allowed /\ Raise
        \/ /\ allowed
           /\ cwd' = [at |-> p, gone |-> << >>]
           /\ Return("ok")
           /\ UNCHANGED <<fs, index, indexOn, mounted, store, mirror, snap>>

SetPolicy(p, policy) ==
    \/ ~Exists(fs, p) /\ Raise
    \/ /\ Exists(fs, p)
       /\ Return("ok") /\ TreeOnly(WithPolicy(fs, p, policy))

\* A fresh index is in place when the rebuild raises.
EnableIndex ==
    /\ Indexing
    /\ indexOn' = TRUE
    /\ index' = IF fs[Root].policy.readable THEN Texts(fs) ELSE NoText
    /\ Return(IF fs[Root].policy.readable THEN "ok" ELSE "error")
    /\ UNCHANGED <<fs, cwd, mounted, store, mirror, snap>>

-----------------------------------------------------------------------------
(* mount_storage, sync_storage and the adapter's other clients. *)

\* _load_storage_mount(m), then _rebuild_index unless the load raised.
LoadMount(f, m) ==
    \E E \in LoadOutcomes(m, Entries(store[m])) :
        LET loaded == Load(f, m, E, store[m])
            complete == E = Entries(store[m])
        IN  /\ fs' = loaded
            /\ DetachCwd(Children(fs, m))
            /\ IF complete THEN RebuildIndex(loaded) ELSE index' = index
            /\ Return(IF complete /\ ~RebuildRaises(loaded) THEN "ok" ELSE "error")
            /\ UNCHANGED <<indexOn, store, mirror, snap>>

\* mkdir(m, parents=True, exist_ok=True) first; then the policy, when granted.
MountStorage(m, granted) ==
    \/ ~MkdirAllowed(m, TRUE, TRUE) /\ Raise
    \/ /\ MkdirAllowed(m, TRUE, TRUE)
       /\ mounted' = mounted \cup {m}
       /\ \/ ~granted /\ LoadMount(MakeDirs(fs, m), m)
          \/ /\ granted
             /\ \E grant \in Grants :
                  /\ grant[1] = m
                  /\ LoadMount(WithPolicy(MakeDirs(fs, m), m, grant[2]), m)

SyncStorage(m) ==
    \/ ~(m \in mounted /\ IsDir(fs, m)) /\ Raise
    \/ m \in mounted /\ IsDir(fs, m) /\ LoadMount(fs, m) /\ UNCHANGED mounted

\* Another client of the adapter writes with the version it has just read.
ExternalWrite(m, p, d) ==
    LET version == store[m][p].version
    IN  /\ External
        /\ StrictlyUnder(p, m)
        /\ version < MaxVersion
        /\ store' = [store EXCEPT ![m] = AdapterWrite(store[m], p, d, version)]
        /\ UNCHANGED <<fs, cwd, index, indexOn, mounted, mirror, snap, res>>

ExternalDelete(m, p) ==
    /\ External
    /\ store[m][p].present
    /\ store' = [store EXCEPT ![m] = AdapterDelete(store[m], {p})]
    /\ UNCHANGED <<fs, cwd, index, indexOn, mounted, mirror, snap, res>>

-----------------------------------------------------------------------------
(* snapshot and restore. *)

Snapshot ==
    /\ Snapshots
    /\ snap' = [taken |-> TRUE, fs |-> fs, pwd |-> Pwd(cwd), mounted |-> mounted]
    /\ Return("ok")
    /\ UNCHANGED <<fs, cwd, index, indexOn, mounted, store, mirror>>

\* The old root is dropped first; the working directory and the index come
\* last, when every node has been restored.
Restore ==
    /\ snap.taken
    /\ mounted' = snap.mounted
    /\ \E T \in RestoreOutcomes(snap.fs) :
         LET f == RestoreTree(snap.fs, T)
             complete == T = Subtree(snap.fs, Root)
             home == complete /\ IsDir(f, snap.pwd)
         IN  /\ fs' = f
             /\ cwd' = [at |-> IF home THEN snap.pwd ELSE Root, gone |-> << >>]
             /\ IF home THEN RebuildIndex(f) ELSE index' = index
             /\ Return(IF home /\ ~RebuildRaises(f) THEN "ok" ELSE "error")
    /\ UNCHANGED <<indexOn, store, mirror, snap>>

-----------------------------------------------------------------------------
Text == {<<d>> : d \in Data}

Next ==
    \/ \E p \in Path, parents, exist_ok \in BOOLEAN : Mkdir(p, parents, exist_ok)
    \/ \E p \in Path, d \in Text, append \in BOOLEAN, expected \in Expected :
          WriteFile(p, d, append, expected)
    \/ \E p \in Path : Touch(p)
    \/ \E p \in Path, recursive \in BOOLEAN : Remove(p, recursive)
    \/ \E src, dst \in Path : Move(src, dst)
    \/ \E src, dst \in Path, recursive \in BOOLEAN : Copy(src, dst, recursive)
    \/ \E p \in Homes : Cd(p)
    \/ \E grant \in Grants : SetPolicy(grant[1], grant[2])
    \/ EnableIndex
    \/ \E m \in MountPoints, granted \in BOOLEAN : MountStorage(m, granted)
    \/ \E m \in MountPoints : SyncStorage(m)
    \/ \E m \in MountPoints, p \in Path, d \in Text : ExternalWrite(m, p, d)
    \/ \E m \in MountPoints, p \in Path : ExternalDelete(m, p)
    \/ Snapshot
    \/ Restore

Spec == Init /\ [][Next]_vars
=============================================================================
