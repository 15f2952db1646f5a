------------------------------ MODULE FileTree ------------------------------
(***************************************************************************)
(* The tree of nodes and what the VirtualFileSystem's handlers do to it,   *)
(* as functions from trees to trees.  A tree maps every path to a node; an *)
(* absent node has kind "none".  Recursive handlers (remove, the load of a *)
(* storage mount, restore) are given by their result: what is left when    *)
(* they finish, or when one of their calls raises part of the way.         *)
(* TreeAlgorithms checks these results against the calls, one by one.      *)
(***************************************************************************)
EXTENDS Paths

CONSTANT Data       \* the pieces of text that are written

Policy == [readable: BOOLEAN, writable: BOOLEAN, append_only: BOOLEAN]
Node == [kind: {"none", "dir", "file"}, policy: Policy,
         content: Seq(Data), version: Nat]
Tree == [Path -> Node]

Open == [readable |-> TRUE, writable |-> TRUE, append_only |-> FALSE]

FileNode(content, version) ==
    [kind |-> "file", policy |-> Open, content |-> content, version |-> version]
NewFile == FileNode(<< >>, 0)
NewDir  == [NewFile EXCEPT !.kind = "dir"]
Absent  == [NewFile EXCEPT !.kind = "none"]

EmptyTree == [p \in Path |-> IF p = Root THEN NewDir ELSE Absent]

-----------------------------------------------------------------------------
(* Reading a tree. *)

Exists(f, p) == p \in Path /\ f[p].kind # "none"
IsDir(f, p)  == p \in Path /\ f[p].kind = "dir"
IsFile(f, p) == p \in Path /\ f[p].kind = "file"

Files(f) == {p \in Path : f[p].kind = "file"}
Subtree(f, p) == {q \in Path : Under(q, p) /\ Exists(f, q)}
Children(f, p) == {q \in Path : q # Root /\ Parent(q) = p /\ Exists(f, q)}

\* Every ancestor of a node that is present is a directory that is present.
WellFormed(f) ==
    /\ IsDir(f, Root)
    /\ \A p, q \in Path : Exists(f, p) /\ StrictlyUnder(p, q) => IsDir(f, q)

\* _ensure_write_allowed does not raise.
WriteAllowed(node, append) ==
    /\ node.policy.writable
    /\ node.policy.append_only => append

\* _ensure_write_allowed(node), without append, raises.
Protected(f, p) == Exists(f, p) /\ ~WriteAllowed(f[p], FALSE)

WithPolicy(f, p, policy) == [f EXCEPT ![p].policy = policy]

-----------------------------------------------------------------------------
(* Creating nodes. *)

\* Slip: the last name of the path is not looked at.
CanMakeDirsAbove(f, p) == \A q \in Path : StrictlyUnder(p, q) => ~IsFile(f, q)

\* _resolve_dir(p, create=True) meets no file on its way.
CanMakeDirs(f, p) == \A q \in Path : Under(p, q) => ~IsFile(f, q)

\* Slip: the directories on the way are not made.
MakeLastDir(f, p) == IF Exists(f, p) THEN f ELSE [f EXCEPT ![p] = NewDir]

MakeDirs(f, p) ==
    [q \in Path |-> IF Under(p, q) /\ ~Exists(f, q) THEN NewDir ELSE f[q]]

\* _ensure_file(p, create=True) returns a file: the one at p, or a new one.
CanEnsureFile(f, p) ==
    /\ p # Root
    /\ CanMakeDirs(f, Parent(p))
    /\ ~IsDir(f, p)

EnsureFile(f, p) ==
    LET made == MakeDirs(f, Parent(p))
    IN  [q \in Path |-> IF q = p /\ ~IsFile(f, p) THEN NewFile ELSE made[q]]

-----------------------------------------------------------------------------
(* Taking subtrees out and putting them in. *)

\* Slip: what is below stays where it was.
DetachTop(f, tops) == [q \in Path |-> IF q \in tops THEN Absent ELSE f[q]]

\* remove_child of every path of tops.
Detach(f, tops) ==
    [q \in Path |-> IF \E t \in tops : Under(q, t) THEN Absent ELSE f[q]]

\* Slip: the node is put in without what is below it.
GraftTop(f, g, src, dst) == [q \in Path |-> IF q = dst THEN g[src] ELSE f[q]]

\* add_child at dst of the node that g holds at src, with all that is below.
Graft(f, g, src, dst) ==
    [q \in Path |->
        IF Under(q, dst)
        THEN LET s == Rebase(q, dst, src) IN IF s \in Path THEN g[s] ELSE Absent
        ELSE f[q]]

\* Every node of the subtree finds its place in the universe of paths.
Fits(g, src, dst) == \A s \in Subtree(g, src) : Rebase(s, src, dst) \in Path

\* _clone_node keeps contents and policies; a new node has version 0.
Clone(f) == [q \in Path |-> [f[q] EXCEPT !.version = 0]]

\* Where move and copy put the node at src: inside a directory under its own
\* name (the root's is empty), or else at dst.
Destination(f, src, dst) ==
    IF IsDir(f, dst) /\ src # Root THEN Append(dst, BaseName(src)) ELSE dst
DestinationDir(f, dst) == IF IsDir(f, dst) THEN dst ELSE Parent(dst)

-----------------------------------------------------------------------------
(* remove(p, recursive=True): depth first, in the order of the children's  *)
(* dict, which a model leaves open.  It ends with the first protected node *)
(* it enters; the siblings it had finished before are gone.                *)

Stops(f, p) ==
    {b \in Subtree(f, p) :
        /\ Protected(f, b)
        /\ \A q \in Path : Under(q, p) /\ StrictlyUnder(b, q) => ~Protected(f, q)}

\* Slip: a sibling that holds a protected node counts as finished.
FinishedAround(f, p, b) ==
    {q \in Subtree(f, p) : q # p /\ StrictlyUnder(b, Parent(q)) /\ ~Under(b, q)}

\* What the removal may have finished before it entered b.
FinishedBefore(f, p, b) ==
    {q \in Subtree(f, p) :
        /\ q # p
        /\ StrictlyUnder(b, Parent(q))
        /\ ~Under(b, q)
        /\ \A r \in Subtree(f, q) : ~Protected(f, r)}

\* Slip: only the target of the call is checked.
RemovalUnchecked(f, p) == {{p}}

\* The subtrees that a removal of p takes out: {p}, unless it is stopped.
RemovalOutcomes(f, p) ==
    IF Stops(f, p) = {} THEN {{p}}
    ELSE UNION {SUBSET FinishedBefore(f, p, b) : b \in Stops(f, p)}

-----------------------------------------------------------------------------
(* _load_storage_mount: the children of m are dropped and the entries of   *)
(* the adapter created one by one, until one meets a file where it needs a *)
(* directory, or a directory where it needs a file.                        *)

Loadable(m, E) == m \notin E /\ \A p, q \in E : ~StrictlyUnder(p, q)

\* The sets of entries created when the load ends.
LoadOutcomes(m, entries) ==
    {E \in SUBSET entries :
        /\ Loadable(m, E)
        /\ E # entries => \E p \in entries \ E : ~Loadable(m, E \cup {p})}

\* Slip: the versions of the adapter are not taken over.
LoadUnversioned(f, m, E, store) ==
    [q \in Path |->
        IF ~StrictlyUnder(q, m) THEN f[q]
        ELSE IF q \in E THEN FileNode(store[q].content, 0)
        ELSE IF \E p \in E : StrictlyUnder(p, q) THEN NewDir
        ELSE Absent]

Load(f, m, E, store) ==
    [q \in Path |->
        IF ~StrictlyUnder(q, m) THEN f[q]
        ELSE IF q \in E THEN FileNode(store[q].content, store[q].version)
        ELSE IF \E p \in E : StrictlyUnder(p, q) THEN NewDir
        ELSE Absent]

-----------------------------------------------------------------------------
(* restore: the nodes of a snapshot g, by depth.  A directory is made by   *)
(* mkdir, which raises when its parent, whose policy is restored already,  *)
(* is protected.                                                           *)

Unrestorable(g) ==
    {p \in Path : p # Root /\ IsDir(g, p) /\ Protected(g, Parent(p))}

\* The shallowest directories that mkdir refuses: restore ends with one of them.
RestoreStops(g) ==
    {b \in Unrestorable(g) : \A c \in Unrestorable(g) : Len(b) <= Len(c)}

\* What restore has made for sure before it meets b: what is less deep.
MadeBefore(g, b) == {p \in Subtree(g, Root) : Len(p) < Len(b)}

\* The nodes on either side of the way to b whose nodes at the depth of b can
\* all be restored.  The walk comes to b when it is through with such a node, or
\* before it begins with it.
Beside(g, b) ==
    {q \in Subtree(g, Root) :
        /\ q # Root
        /\ StrictlyUnder(b, Parent(q))
        /\ ~Under(b, q)
        /\ \A c \in Unrestorable(g) : Under(c, q) => Len(c) # Len(b)}
MadeBeside(g, b, Q) ==
    {p \in Subtree(g, Root) : Len(p) = Len(b) /\ \E q \in Q : Under(p, q)}

\* The sets of nodes that exist when restore ends.
RestoreOutcomes(g) ==
    IF Unrestorable(g) = {} THEN {Subtree(g, Root)}
    ELSE UNION {{MadeBefore(g, b) \cup MadeBeside(g, b, Q) : Q \in SUBSET Beside(g, b)} :
                b \in RestoreStops(g)}

\* Slip: the policies are not restored.
RestoreOpen(g, T) ==
    [p \in Path |-> IF p \in T THEN [g[p] EXCEPT !.policy = Open] ELSE Absent]

RestoreTree(g, T) == [p \in Path |-> IF p \in T THEN g[p] ELSE Absent]
=============================================================================
