----------------------------- MODULE HostBridge -----------------------------
(***************************************************************************)
(* The host command of SandboxShell: the whole tree is exported to a       *)
(* directory of the host, a process works there, and _sync_from_host       *)
(* brings what it left back, by one call of the file system after another. *)
(* A call that raises ends the sync and the command.  The calls come from  *)
(* one thread: nothing else touches the file system during a sync.         *)
(***************************************************************************)
EXTENDS VFS

CONSTANTS
    Rank,           \* the place of each path when Python sorts them
    HostTrees,      \* what a process may leave in the exported directory
    ReadText        \* what read_text makes of a piece of text (newlines)

VARIABLES
    host,           \* the exported directory, when it is there
    syncing,        \* a sync from the host is under way
    todo            \* what is yet to be brought back of sorted(fs_root.rglob("*"))

hostVars == <<host, syncing, todo>>
allVars == <<vars, hostVars>>

HostTree == [Path -> [kind: {"none", "dir", "file"}, content: Seq(Data)]]

\* A process leaves a tree: what it puts somewhere it puts into a directory.
ASSUME HostAssumption ==
    /\ Rank \in [Path -> Nat]
    /\ HostTrees \subseteq HostTree
    /\ \A h \in HostTrees : WellFormed(h)
    /\ ReadText \in [Data -> Data]

\* _export_directory: every node, whatever its policy.
Export(f) == [p \in Path |-> [kind |-> f[p].kind, content |-> f[p].content]]

\* The temporary directory when no command runs.
NoHost == Export(EmptyTree)

HostInit ==
    /\ Init
    /\ host = NoHost
    /\ syncing = FALSE
    /\ todo = {}

HostTypeOK ==
    /\ TypeOK
    /\ host \in HostTree
    /\ syncing \in BOOLEAN
    /\ todo \subseteq Path

\* What the sync reads from the file that the process left at p.
HostText(p) == [i \in DOMAIN host[p].content |-> ReadText[host[p].content[i]]]

\* Slip: a file that exists is taken for unchanged.
AnyText(p) == IsFile(fs, p)

\* read_file returns the same text: a file that may not be read never does.
SameText(p) == IsFile(fs, p) /\ fs[p].policy.readable /\ fs[p].content = HostText(p)

-----------------------------------------------------------------------------
\* Bound: every file that a sync may write to can take one more version.
RoomToWrite == \A p \in Files(fs) : fs[p].version < MaxVersion

\* _run_host_process up to the sync; without a directory for the process to
\* start in, subprocess.run raises.
HostCommand(p, left) ==
    /\ ~syncing
    /\ \/ ~IsDir(fs, p) /\ Raise /\ UNCHANGED hostVars
       \/ /\ IsDir(fs, p) /\ RoomToWrite
          /\ host' = left
          /\ syncing' = TRUE
          /\ todo' = {q \in Path \ {Root} : left[q].kind # "none"}
          /\ UNCHANGED vars

\* The command ends, and the temporary directory goes.
EndSync ==
    /\ host' = NoHost
    /\ syncing' = FALSE
    /\ todo' = {}

\* Slip: a call that raises is made again.
Insist(rest) ==
    /\ todo' = IF res' = "ok" THEN rest ELSE todo
    /\ UNCHANGED <<host, syncing>>

\* A call of the sync has been made: with what is left to do, or not at all.
Proceed(rest) ==
    IF res' = "ok" THEN todo' = rest /\ UNCHANGED <<host, syncing>> ELSE EndSync

BringDir(p) == Mkdir(p, TRUE, TRUE)

\* A file's mkdir finds the directory that the order has brought before it.
BringFile(p) ==
    \/ ~MkdirAllowed(Parent(p), TRUE, TRUE) /\ Raise
    \/ /\ MkdirAllowed(Parent(p), TRUE, TRUE)
       /\ \/ SameText(p) /\ Return("ok") /\ TreeOnly(fs)
          \/ ~SameText(p) /\ WriteFile(p, HostText(p), FALSE, Unversioned)

Bring ==
    /\ syncing
    /\ \E p \in todo :
        /\ \A q \in todo : Rank[p] <= Rank[q]
        /\ IF host[p].kind = "dir" THEN BringDir(p) ELSE BringFile(p)
        /\ Proceed(todo \ {p})

\* _remove_missing: the files first, then the directories, the deepest first.
MissingFiles == {p \in Files(fs) : host[p].kind # "file"}
\* Slip: only files are looked for.
NoMissingDirs == {}

MissingDirs == {p \in Path \ {Root} : IsDir(fs, p) /\ host[p].kind # "dir"}

FromBelow(dirs) == {p \in dirs : \A q \in dirs : Len(q) <= Len(p)}

DropFile == \E p \in MissingFiles : Remove(p, FALSE)

DropDir ==
    /\ MissingFiles = {}
    /\ \E p \in FromBelow(MissingDirs) : Remove(p, TRUE)

\* Slip: what is missing is dropped before everything is brought back.
DropEarly ==
    /\ syncing
    /\ DropFile \/ DropDir
    /\ Proceed(todo)

Drop ==
    /\ syncing /\ todo = {}
    /\ DropFile \/ DropDir
    /\ Proceed({})

Finish ==
    /\ syncing /\ todo = {}
    /\ MissingFiles = {} /\ MissingDirs = {}
    /\ EndSync
    /\ Return("ok") /\ TreeOnly(fs)

Sync == Bring \/ Drop \/ Finish

HostNext ==
    \/ ~syncing /\ Next /\ UNCHANGED hostVars
    \/ \E p \in Path, left \in HostTrees \cup {Export(fs)} : HostCommand(p, left)
    \/ Sync

\* A command that has started runs to its end.
HostSpec == HostInit /\ [][HostNext]_allVars /\ WF_allVars(Sync)

-----------------------------------------------------------------------------
\* The file system and the host's directory agree at p, as far as a sync can
\* tell: a text counts as the one that read_text makes of it.
AgreeAt(f, p) ==
    /\ f[p].kind = host[p].kind
    /\ f[p].kind = "file" => f[p].content = HostText(p)

\* While a sync lasts, what it has brought back stays as the process left it.
BroughtBackAgrees ==
    syncing =>
        \A p \in Path \ todo : host[p].kind # "none" => AgreeAt(fs, p)

\* A host command that succeeds leaves the file system with what the process
\* left on the host: nothing is missed, and nothing stays that is gone there.
SyncBringsTheHost ==
    [][ syncing /\ ~syncing' /\ res' = "ok" => \A p \in Path : AgreeAt(fs', p) ]_allVars

\* Each call of a sync, also of one that fails later on, changes a node only to
\* what it is on the host, and takes none away before all is brought back: the
\* sync of a rename that fails half way never loses the file.
SyncOnlyApproaches ==
    [][ syncing =>
        \A p \in Path : fs'[p] # fs[p] =>
            /\ AgreeAt(fs', p)
            /\ ~Exists(fs', p) =>
                 \A q \in Path : host[q].kind # "none" => AgreeAt(fs, q) ]_allVars

\* Every host command comes to an end, with all brought back or with an error.
SyncEnds == syncing ~> ~syncing
=============================================================================
