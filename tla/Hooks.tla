------------------------------- MODULE Hooks -------------------------------
(***************************************************************************)
(* write_file and remove with hooks that run in the middle of them and     *)
(* may raise or call the file system again: the calls under way are a      *)
(* stack, and the one on top takes the next step.  All policies are open,  *)
(* the index is on, storage is mounted at the root, and directories are    *)
(* only made below the root, which is never taken out of the tree.         *)
(***************************************************************************)
EXTENDS StorageAdapter

Seqs == INSTANCE SequencesExt
Sets == INSTANCE FiniteSetsExt

CONSTANTS
    Places,         \* the paths that are written to
    WriteHooks,     \* the prefixes of the write hooks, in order
    PathHooks,      \* the prefixes of the path hooks, in order
    MaxCalls,       \* bound: calls under way, one in a hook of the other
    MaxVersion      \* bound: version of a file

ASSUME HooksAssumption ==
    /\ Places \subseteq {p \in Path : Len(p) \in 1..2}
    /\ \A p, q \in Places : ~StrictlyUnder(p, q)
    /\ WriteHooks \in Seq(Path)
    /\ PathHooks \in Seq(Path)
    /\ MaxCalls \in Nat
    /\ MaxVersion \in Nat

VARIABLES
    fs,         \* the tree
    index,      \* FullTextIndex: text by path
    store,      \* the adapter's entries
    calls,      \* the calls under way, the outermost first
    copy,       \* what each path hook makes of its events: text by path
    saved,      \* what each write hook has flushed: the highest version by path
    recreated,  \* files written while a directory above them was being removed
    astray,     \* by path hook: files it was not told of, or told late
    unsaved     \* files that a write hook was not told of, or told late

vars == <<fs, index, store, calls, copy, saved, recreated, astray, unsaved>>

\* A call holds the node it works on, not its path: inTree says that the node
\* is still the one at its path, and left is its subtree when it was taken out.
\* rest is the names that a recursive remove has yet to visit; hook is the last
\* hook that was called, and stale says that another call has changed the file
\* since the event for the hooks was made.
Call == [op: {"write", "remove", "remove dir"}, path: Path,
         event: {"create", "update", "delete", "none"},
         stage: {"write hooks", "path hooks", "children"}, hook: Nat,
         running: BOOLEAN, content: Seq(Data), version: Nat, stale: BOOLEAN,
         inTree: BOOLEAN, left: Tree, rest: SUBSET Path]

Nothing == [present |-> FALSE, content |-> << >>]
Nowhere == [p \in Path |-> Absent]

HooksTypeOK ==
    /\ fs \in Tree /\ WellFormed(fs)
    /\ index \in [Path -> Seq(Data)]
    /\ store \in Store
    /\ calls \in Seq(Call) /\ Len(calls) <= MaxCalls
    /\ copy \in [DOMAIN PathHooks -> [Path -> [present: BOOLEAN, content: Seq(Data)]]]
    /\ saved \in [DOMAIN WriteHooks -> Store]
    /\ recreated \subseteq Places
    /\ astray \in [DOMAIN PathHooks -> SUBSET Places]
    /\ unsaved \subseteq Places

HooksInit ==
    /\ fs = EmptyTree
    /\ index = [p \in Path |-> << >>]
    /\ store = [p \in Path |-> NoEntry]
    /\ calls = << >>
    /\ copy = [j \in DOMAIN PathHooks |-> [p \in Path |-> Nothing]]
    /\ saved = [j \in DOMAIN WriteHooks |-> [p \in Path |-> NoEntry]]
    /\ recreated = {}
    /\ astray = [j \in DOMAIN PathHooks |-> {}]
    /\ unsaved = {}

-----------------------------------------------------------------------------
(* The stack. *)

Top == Seqs!Last(calls)

\* Code that calls the file system: the host, a hook, a recursive remove.
HookRuns == calls # << >> /\ Top.running

\* Where an exception that leaves the calls s ends: in the last hook that runs.
Unwound(s) == SubSeq(s, 1, Sets!Max({0} \cup {i \in DOMAIN s : s[i].running}))

NewCall(op, p, event, stage) ==
    [op |-> op, path |-> p, event |-> event, stage |-> stage, hook |-> 0,
     running |-> FALSE, content |-> << >>, version |-> 0, stale |-> FALSE,
     inTree |-> TRUE, left |-> Nowhere, rest |-> {}]

\* The tree in which a call finds its node.
HomeOf(c) == IF c.inTree THEN fs ELSE c.left

\* A call's node goes when the node at p is taken out of the tree.  Path hooks
\* are told what was read from it before.
Orphaned(c, p) ==
    IF c.inTree /\ c.stage # "path hooks" /\ Under(c.path, p)
    THEN [c EXCEPT !.inTree = FALSE,
                   !.left = [q \in Path |-> IF Under(q, c.path) THEN fs[q] ELSE Absent]]
    ELSE c

\* The hooks that are still to be told, and their prefixes.
PrefixesFor(c) == IF c.stage = "write hooks" THEN WriteHooks ELSE PathHooks
Due(c) == {j \in DOMAIN PrefixesFor(c) : j > c.hook /\ Under(c.path, PrefixesFor(c)[j])}

\* Slip: the event for the path hooks is made together with that for the
\* write hooks.
EarlyEvent(c) == c

\* The text of a path event is read when the write hooks are done.
FreshEvent(c) ==
    [c EXCEPT !.content = HomeOf(c)[c.path].content, !.stale = ~c.inTree]

\* The calls s under way when the file at p changes.  A write that has yet to
\* turn to its path hooks will read the text again.
Crossed(s, p) ==
    [i \in DOMAIN s |-> IF s[i].path = p /\ s[i].stage = "path hooks"
                        THEN [s[i] EXCEPT !.stale = TRUE] ELSE s[i]]

SavingWrite(p) ==
    \E i \in DOMAIN calls : calls[i].path = p /\ calls[i].stage = "write hooks"

InRemoval(p) ==
    \E i \in DOMAIN calls : calls[i].op = "remove dir" /\ StrictlyUnder(p, calls[i].path)

-----------------------------------------------------------------------------
(* The calls, up to their first hook. *)

\* Who calls has room on the stack.
MayCall == (calls = << >> \/ HookRuns) /\ Len(calls) < MaxCalls

\* Slip: the kind is decided after the version was raised.
KindRaised(version) == "update"

KindOfWrite(version) == IF version = 0 THEN "create" ELSE "update"

\* Slip: the event carries the version that storage was given.
EventOfPrevious(p, d, version) ==
    [NewCall("write", p, KindOfWrite(version), "write hooks") EXCEPT
        !.content = <<d>>, !.version = version]

\* The WriteEvent of a write to a file that had this version before.
EventOfWrite(p, d, version) ==
    [NewCall("write", p, KindOfWrite(version), "write hooks") EXCEPT
        !.content = <<d>>, !.version = version + 1]

\* write_file: a version conflict raises with the text in the tree.
WriteFile(p, d) ==
    LET f == EnsureFile(fs, p)
        version == f[p].version
    IN  /\ MayCall
        /\ version < MaxVersion
        /\ recreated' = IF InRemoval(p) THEN recreated \cup {p} ELSE recreated
        /\ \/ /\ ~Accepts(store, p, version)
              /\ fs' = [f EXCEPT ![p].content = <<d>>]
              /\ calls' = Unwound(Crossed(calls, p))
              /\ UNCHANGED <<index, store>>
           \/ /\ Accepts(store, p, version)
              /\ fs' = [f EXCEPT ![p].content = <<d>>, ![p].version = version + 1]
              /\ store' = AdapterWrite(store, p, <<d>>, version)
              /\ index' = [index EXCEPT ![p] = <<d>>]
              /\ calls' = Append(Crossed(calls, p), EventOfWrite(p, d, version))
        /\ UNCHANGED <<copy, saved, astray, unsaved>>

\* remove of a file.
TakeFile(p) ==
    /\ fs' = Detach(fs, {p})
    /\ store' = AdapterDelete(store, {p})
    /\ index' = [index EXCEPT ![p] = << >>]
    /\ recreated' = recreated \ {p}
    /\ unsaved' = IF SavingWrite(p) THEN unsaved \cup {p} ELSE unsaved

\* Slip: a recursive remove takes the directory out at once.
NoneToVisit(f, p) == {}

\* list(node.children.keys()).
ToVisit(f, p) == Children(f, p)

\* The call of remove at p, with the calls s under way.
RemoveFrom(s, p) ==
    \/ /\ ~Exists(fs, p)
       /\ calls' = Unwound(s)
       /\ UNCHANGED <<fs, index, store, recreated, unsaved>>
    \/ /\ IsFile(fs, p)
       /\ TakeFile(p)
       /\ calls' = Append([i \in DOMAIN s |-> Orphaned(Crossed(s, p)[i], p)],
                          NewCall("remove", p, "delete", "path hooks"))
    \/ /\ IsDir(fs, p)
       /\ calls' = Append(s, [NewCall("remove dir", p, "none", "children") EXCEPT
                                 !.rest = ToVisit(fs, p)])
       /\ UNCHANGED <<fs, index, store, recreated, unsaved>>

\* remove(p, recursive=True).
Remove(p) ==
    /\ MayCall
    /\ p # Root
    /\ IsDir(fs, p) => Len(calls) + 1 < MaxCalls
    /\ RemoveFrom(calls, p)
    /\ UNCHANGED <<copy, saved, astray>>

-----------------------------------------------------------------------------
(* The loops of the call on top. *)

Waits == calls # << >> /\ ~Top.running

SetTop(c) == [calls EXCEPT ![Len(calls)] = c]

\* The next child of a recursive remove, by its path.
VisitChild(q) ==
    LET s == SetTop([Top EXCEPT !.rest = @ \ {q}])
    IN  /\ Waits /\ q \in Top.rest
        /\ IF Exists(HomeOf(Top), q) THEN RemoveFrom(s, q)
           ELSE /\ calls' = s
                /\ UNCHANGED <<fs, index, store, recreated, unsaved>>
        /\ UNCHANGED <<copy, saved, astray>>

\* parent.remove_child(name), whatever directory has the name by now.
DropDirectory ==
    /\ Waits /\ Top.op = "remove dir" /\ Top.rest = {}
    /\ \/ ~Exists(fs, Top.path) /\ calls' = Unwound(calls) /\ UNCHANGED fs
       \/ /\ Exists(fs, Top.path)
          /\ fs' = Detach(fs, {Top.path})
          /\ calls' = [i \in DOMAIN Seqs!Front(calls) |-> Orphaned(calls[i], Top.path)]
    /\ UNCHANGED <<index, store, copy, saved, recreated, astray, unsaved>>

\* What a host keeps: a write hook the highest version, until the first path
\* hook hears of a deletion; a path hook the text it is given.
Flush(entry, c) ==
    IF entry.present /\ entry.version >= c.version THEN entry
    ELSE StoredEntry(c.content, c.version)
Heard(c) == [present |-> c.event # "delete", content |-> c.content]

TellHook ==
    LET j == Sets!Min(Due(Top))
    IN  /\ Waits /\ Top.op # "remove dir" /\ Due(Top) # {}
        /\ calls' = SetTop([Top EXCEPT !.hook = j, !.running = TRUE])
        /\ IF Top.stage = "write hooks"
           THEN /\ saved' = [saved EXCEPT ![j][Top.path] = Flush(@, Top)]
                /\ UNCHANGED <<copy, astray, unsaved>>
           ELSE /\ copy' = [copy EXCEPT ![j][Top.path] = Heard(Top)]
                /\ astray' = [astray EXCEPT ![j] =
                      IF Top.stale THEN @ \cup {Top.path} ELSE @ \ {Top.path}]
                /\ IF j = 1 /\ Top.event = "delete"
                   THEN /\ saved' = [i \in DOMAIN saved |->
                                       AdapterDelete(saved[i], {Top.path})]
                        /\ unsaved' = IF SavingWrite(Top.path) THEN unsaved
                                      ELSE unsaved \ {Top.path}
                   ELSE UNCHANGED <<saved, unsaved>>
        /\ UNCHANGED <<fs, index, store, recreated>>

HookReturns ==
    /\ HookRuns
    /\ calls' = SetTop([Top EXCEPT !.running = FALSE])
    /\ UNCHANGED <<fs, index, store, copy, saved, recreated, astray, unsaved>>

\* The exception ends the call: the hooks still due are never told.
HookRaises ==
    /\ HookRuns
    /\ calls' = Unwound(Seqs!Front(calls))
    /\ astray' = [j \in DOMAIN PathHooks |->
          IF Top.stage = "write hooks" \/ j \in Due(Top)
          THEN astray[j] \cup {Top.path} ELSE astray[j]]
    /\ unsaved' = IF Top.stage = "write hooks" /\ Due(Top) # {}
                  THEN unsaved \cup {Top.path} ELSE unsaved
    /\ UNCHANGED <<fs, index, store, copy, saved, recreated>>

\* _emit_write_event goes on to the path hooks.
TurnToPathHooks ==
    /\ Waits /\ Top.stage = "write hooks" /\ Due(Top) = {}
    /\ calls' = SetTop([FreshEvent(Top) EXCEPT !.stage = "path hooks", !.hook = 0])
    /\ UNCHANGED <<fs, index, store, copy, saved, recreated, astray, unsaved>>

CallReturns ==
    /\ Waits /\ Top.stage = "path hooks" /\ Due(Top) = {}
    /\ calls' = Seqs!Front(calls)
    /\ UNCHANGED <<fs, index, store, copy, saved, recreated, astray, unsaved>>

HooksNext ==
    \/ \E p \in Places, d \in Data : WriteFile(p, d)
    \/ \E p \in Path : Remove(p)
    \/ \E p \in Path : VisitChild(p)
    \/ DropDirectory
    \/ TellHook
    \/ HookReturns
    \/ HookRaises
    \/ TurnToPathHooks
    \/ CallReturns

HooksSpec == HooksInit /\ [][HooksNext]_vars

-----------------------------------------------------------------------------
(* What hooks can rely on. *)

\* Whenever a hook runs, and it may read, write, sync and search, the adapter
\* and the index hold what the tree holds: write_file and remove tell hooks
\* last.  Only a file that a hook writes below a directory that is being
\* removed goes with the directory unseen (vfs.py:570).
FollowersInStep ==
    \A p \in Places \ recreated :
        /\ IF IsFile(fs, p)
           THEN store[p] = StoredEntry(fs[p].content, fs[p].version)
           ELSE store[p] = NoEntry
        /\ index[p] = fs[p].content

\* The events that calls still have to deliver for the file at p.
Pending(p) == \E i \in DOMAIN calls : calls[i].path = p

\* A path hook that copies the texts it is given ends with the text of the
\* tree, in whatever order hooks and nested calls ran, except for a file whose
\* event a raising hook kept from it, or brought to it after an earlier path
\* hook had changed the file, or after a write hook had removed it
\* (_emit_write_event reads the text between the two kinds of hooks).
CopyFollows ==
    \A j \in DOMAIN PathHooks : \A p \in Places \ (recreated \cup astray[j]) :
        Under(p, PathHooks[j]) /\ ~Pending(p) =>
            copy[j][p] = [present |-> IsFile(fs, p), content |-> fs[p].content]

\* A write hook that keeps the highest version, and forgets a file when the
\* first path hook hears of its removal, ends with the latest text, although
\* writes nested in a hook reach the hooks after it before the write they are
\* nested in; not so when a hook raised, or removed a file whose write the
\* write hooks were being told of: removal starts the versions again.
FlushedIsLatest ==
    \A j \in DOMAIN WriteHooks, p \in Places \ (recreated \cup unsaved) :
        Under(p, WriteHooks[j]) /\ ~Pending(p) =>
            saved[j][p] = IF IsFile(fs, p)
                          THEN StoredEntry(fs[p].content, fs[p].version) ELSE NoEntry

\* The first path hook is told "create" for a file that it does not have and
\* "update" for one that it has, although the kind is decided before the write
\* hooks run; not so when one of them has written the file, for either write.
KindsAlternate ==
    [][ TellHook /\ Top.op = "write" /\ Top.stage = "path hooks" /\ 1 \in Due(Top)
            /\ ~Top.stale /\ Top.path \notin recreated \cup astray[1]
            /\ Top.version = fs[Top.path].version /\ ~SavingWrite(Top.path)
        => Top.event = IF copy[1][Top.path].present THEN "update" ELSE "create" ]_vars
=============================================================================
