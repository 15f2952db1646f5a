----------------------------- MODULE TreeCalls -----------------------------
(***************************************************************************)
(* The handlers of the tree that loop or call themselves, call by call, as *)
(* the code runs them.  A call is a function of a path and then of the     *)
(* tree that it finds; loops and recursions are recursive functions, so    *)
(* that the prover can reason about them.  An order is a sequence of all   *)
(* paths; it stands for the order in which the children dicts and the      *)
(* adapter's dict are iterated.                                            *)
(***************************************************************************)
EXTENDS StorageAdapter, FiniteSets

CONSTANT Orders     \* the iteration orders that dicts may have

\* order has every path, once.
Enumerates(order) ==
    /\ order \in Seq(Path)
    /\ \A p \in Path : \E i \in 1..Len(order) : order[i] = p
    /\ \A i, j \in 1..Len(order) : order[i] = order[j] => i = j

Before(order, p, q) ==
    \E i, j \in 1..Len(order) : i < j /\ order[i] = p /\ order[j] = q

\* P comes first and Q next; the root, which is in no dict, may be anywhere.
StartsWith(order, P, Q) ==
    \A p, q \in Path \ {Root} :
        \/ p \in P /\ q \notin P
        \/ p \in Q /\ q \notin P \cup Q
        => Before(order, p, q)

\* Any nodes may be the first of their dicts, and any others the next.  Of paths
\* without end there is no order.
ASSUME OrderAssumption ==
    /\ \A order \in Orders : Enumerates(order)
    /\ IsFiniteSet(Path) =>
          \A P, Q \in SUBSET (Path \ {Root}) :
              P \cap Q = {} => \E order \in Orders : StartsWith(order, P, Q)

-----------------------------------------------------------------------------
\* A tree, and whether the calls so far returned without raising.
Outcome == [tree: Tree, ok: BOOLEAN]
Done(f) == [tree |-> f, ok |-> TRUE]
Raised(f) == [tree |-> f, ok |-> FALSE]

\* One more turn of a loop over S, if none has raised.
Continue(done, S, p, call) ==
    IF done.ok /\ p \in S THEN call[p][done.tree] ELSE done

\* The members of S in the order given; a call that raises ends the loop.
Loop(f, S, order, call) ==
    LET after[n \in 0..Len(order)] ==
            IF n = 0 THEN Done(f) ELSE Continue(after[n - 1], S, order[n], call)
    IN  after[Len(order)]

-----------------------------------------------------------------------------
\* One turn of the loop of _resolve_dir: a name on the way.
ResolveName ==
    [q \in Path |-> [g \in Tree |->
        IF IsFile(g, q) THEN Raised(g)
        ELSE IF Exists(g, q) THEN Done(g)
        ELSE Done([g EXCEPT ![q] = NewDir])]]

\* _resolve_dir(p, create=True): one directory after another from the root.
ResolveDirCalls(f, p) ==
    Loop(f, Path, [i \in 1..Len(p) |-> SubSeq(p, 1, i)], ResolveName)

\* _ensure_file(p, create=True).
EnsureFileCalls(f, p) ==
    IF p = Root THEN Raised(f)
    ELSE LET dir == ResolveDirCalls(f, Parent(p))
         IN  IF ~dir.ok \/ IsFile(dir.tree, p) THEN dir
             ELSE IF IsDir(dir.tree, p) THEN Raised(dir.tree)
             ELSE Done([dir.tree EXCEPT ![p] = NewFile])

\* remove(p, recursive=True): the checks of p, then its children, then p.
RemoveCalls(f, p, order) ==
    LET remove[q \in Path] == [g \in Tree |->
            LET below == Loop(g, Children(g, q), order, remove)
            IN  IF Protected(g, q) \/ Protected(g, Parent(q)) THEN Raised(g)
                ELSE IF below.ok THEN Done([below.tree EXCEPT ![q] = Absent])
                ELSE below]
    IN  remove[p][f]

\* One turn of the loop of _load_storage_mount: an entry of the adapter.
LoadEntry(entries) ==
    [p \in Path |-> [g \in Tree |->
        LET file == EnsureFileCalls(g, p)
        IN  IF file.ok
            THEN Done([file.tree EXCEPT ![p] = [@ EXCEPT !.content = entries[p].content,
                                                         !.version = entries[p].version]])
            ELSE file]]

\* Slip: the children of the mount are not cleared.
LoadOver(f, m, entries, order) == Loop(f, Entries(entries), order, LoadEntry(entries))

\* _load_storage_mount: clear, then one entry of adapter.list() after another.
LoadCalls(f, m, entries, order) ==
    Loop(Detach(f, Children(f, m)), Entries(entries), order, LoadEntry(entries))

\* One turn of the loop of restore: mkdir or _ensure_file, then the saved state.
RestoreNode(g, f, p) ==
    LET dir == ResolveDirCalls(f, p)
        mkdir == IF p # Root /\ Protected(f, Parent(p)) THEN Raised(f) ELSE dir
        made == IF IsDir(g, p) THEN mkdir ELSE EnsureFileCalls(f, p)
    IN  IF made.ok THEN Done([made.tree EXCEPT ![p] = g[p]]) ELSE made

\* Slip: the nodes are restored in the order of the walk.
Unsorted(nodes, n) == IF n = 0 THEN nodes ELSE {}

\* The nodes of a snapshot at one depth.
ByDepth(nodes, n) == {p \in nodes : Len(p) = n}

\* walk("/") over a snapshot; the nodes at depth n are restored on the way.
RestoreDepth(g, f, n, order) ==
    LET nodes == ByDepth(Subtree(g, Root), n)
        walk[p \in Path] == [h \in Tree |->
            LET done == IF p \in nodes THEN RestoreNode(g, h, p) ELSE Done(h)
            IN  IF done.ok THEN Loop(done.tree, Children(g, p), order, walk) ELSE done]
    IN  walk[Root][f]

\* The length of the longest path.
MaxDepth == CHOOSE n \in {Len(p) : p \in Path} : \A p \in Path : Len(p) <= n

\* restore: the nodes in the order of the walk, sorted by depth.
RestoreCalls(g, order) ==
    LET depths == [n \in 1..MaxDepth + 1 |-> n - 1]
        restore == [n \in 0..MaxDepth |-> [f \in Tree |-> RestoreDepth(g, f, n, order)]]
    IN  Loop(EmptyTree, 0..MaxDepth, depths, restore)
=============================================================================
