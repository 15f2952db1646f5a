---------------------------- MODULE Hooks_proofs ----------------------------
(***************************************************************************)
(* What the hooks in the middle of writes and removals can rely on, for    *)
(* every set of files and hooks and every depth of calls in one another.   *)
(***************************************************************************)
EXTENDS Hooks, FileTree_proofs

-----------------------------------------------------------------------------
(* The invariant: the tree and the stack of calls.  What it says of the    *)
(* calls is said of any stack s, since a step may change the stack twice.  *)

\* Only the places hold files, and only what is above them is a directory.
Shape(f) ==
    \A p \in Path :
        /\ IsFile(f, p) => p \in Places
        /\ IsDir(f, p) => p = Root \/ \E q \in Places : StrictlyUnder(q, p)

\* What a call is about.
CallInOrder(c) ==
    /\ c.op = "write" =>
         /\ c.path \in Places /\ c.stage \in {"write hooks", "path hooks"}
         /\ c.event \in {"create", "update"} /\ c.rest = {}
    /\ c.op = "remove" =>
         /\ c.path \in Places /\ c.stage = "path hooks"
         /\ c.event = "delete" /\ c.rest = {}
    /\ c.op = "remove dir" =>
         /\ c.path # Root /\ c.stage = "children" /\ ~c.running
         /\ \E q \in Places : StrictlyUnder(q, c.path)
         /\ \A q \in c.rest : q # Root /\ Parent(q) = c.path

\* Below the top, a call waits for its hook or for the removal of a child.
StackInOrder(s) ==
    \A i \in DOMAIN s :
        /\ CallInOrder(s[i])
        /\ i < Len(s) => s[i].running \/ s[i].op = "remove dir"
        /\ s[i].op = "remove dir" => i < MaxCalls

-----------------------------------------------------------------------------
(* The invariant: one place. *)

\* The adapter and the index have the file.
Follows(p) ==
    p \notin recreated =>
        /\ store[p] = IF IsFile(fs, p)
                      THEN StoredEntry(fs[p].content, fs[p].version) ELSE NoEntry
        /\ index[p] = fs[p].content

\* A removal whose first hook is still to be told.
JustRemoved(c) == c.op = "remove" /\ c.hook = 0

\* The call that is i-th of the stack s and about the file at p is right about
\* it: a write that turns to its path hooks has its file, what it tells them is
\* so, unless it is stale, and it tells the write hooks of no version that is
\* newer than the file's and of no other text for the same version.
CallIsRight(s, i, p) ==
    LET c == s[i]
    IN  /\ c.stage = "write hooks" /\ c.inTree => IsFile(fs, p)
        /\ c.stage = "path hooks" /\ ~c.stale /\ p \notin recreated =>
             /\ IsFile(fs, p) <=> c.op = "write"
             /\ c.content = fs[p].content
        /\ JustRemoved(c) => i = Len(s) /\ ~c.running /\ ~IsFile(fs, p)
        /\ c.stage = "write hooks" /\ p \notin recreated \cup unsaved =>
             /\ IsFile(fs, p)
             /\ c.version <= fs[p].version
             /\ c.version = fs[p].version => c.content = fs[p].content

\* A recursive remove has yet to visit the file at p, unless it was written
\* meanwhile.
RemovalsSee(s, p) ==
    p \notin recreated /\ IsFile(fs, p) =>
        \A i \in DOMAIN s : s[i].op = "remove dir" /\ StrictlyUnder(p, s[i].path) =>
            s[i].inTree /\ p \in s[i].rest

\* The path hook j is still to be told of the call c.
Tells(c, j) ==
    /\ c.op # "remove dir" /\ Under(c.path, PathHooks[j])
    /\ c.stage = "write hooks" \/ j > c.hook

Copied(j, p) ==
    /\ copy[j][p].present <=> IsFile(fs, p)
    /\ copy[j][p].content = fs[p].content

\* A path hook that is not astray has the file's text or is still to be told.
CopiesCome(s, p) ==
    p \notin recreated =>
        \A j \in DOMAIN PathHooks : p \notin astray[j] /\ Under(p, PathHooks[j]) =>
            Copied(j, p) \/ \E i \in DOMAIN s : s[i].path = p /\ Tells(s[i], j)

\* The write hook j is still to be told of the call c.
Saves(c, j) ==
    c.stage = "write hooks" /\ Under(c.path, WriteHooks[j]) /\ j > c.hook

Latest(p) == StoredEntry(fs[p].content, fs[p].version)

\* Wherever there is a write hook, the first path hook hears of removals.
FirstHears ==
    \A j \in DOMAIN WriteHooks : \A p \in Places : Under(p, WriteHooks[j]) =>
        1 \in DOMAIN PathHooks /\ Under(p, PathHooks[1])

\* What a write hook has flushed is no newer than the file, and is the latest
\* version or will be; for a file that is gone it has nothing, or will hear.
SavedComes(s, p) ==
    FirstHears /\ p \notin recreated \cup unsaved =>
        \A j \in DOMAIN WriteHooks : Under(p, WriteHooks[j]) =>
            IF IsFile(fs, p)
            THEN /\ saved[j][p].present =>
                      /\ saved[j][p].version <= fs[p].version
                      /\ saved[j][p].version = fs[p].version => saved[j][p] = Latest(p)
                 /\ \/ saved[j][p] = Latest(p)
                    \/ \E i \in DOMAIN s : /\ s[i].path = p /\ Saves(s[i], j)
                                           /\ s[i].version = fs[p].version
            ELSE \/ saved[j][p] = NoEntry
                 \/ \E i \in DOMAIN s : s[i].path = p /\ JustRemoved(s[i])

\* What holds of the place p, whatever is under way.
PlaceInOrder(s, p) ==
    /\ Follows(p)
    /\ \A i \in DOMAIN s : s[i].path = p => CallIsRight(s, i, p)
    /\ CopiesCome(s, p)
    /\ SavedComes(s, p)

HooksInv ==
    /\ HooksTypeOK /\ Bare(fs) /\ Shape(fs)
    /\ StackInOrder(calls)
    /\ \A p \in Places : PlaceInOrder(calls, p) /\ RemovalsSee(calls, p)

-----------------------------------------------------------------------------
(* Places and the tree. *)

LEMMA PlaceFacts ==
    ASSUME NEW p \in Places
    PROVE  /\ p \in Path /\ p # Root /\ Len(p) \in 1..2
           /\ \A q \in Places : Under(q, p) => q = p
  <1>1. p \in Path /\ Len(p) \in 1..2
    BY HooksAssumption
  <1>2. p # Root
    <2>1. Len(Root) = 0
      BY EmptySeq DEF Root
    <2>2. 0 \notin 1..2
      OBVIOUS
    <2>. QED
      BY <1>1, <2>1, <2>2
  <1>3. \A q \in Places : Under(q, p) => q = p
    BY HooksAssumption DEF StrictlyUnder
  <1>. QED
    BY <1>1, <1>2, <1>3

\* A directory other than the root holds files only.
LEMMA DirFacts ==
    ASSUME NEW f, Shape(f), NEW d \in Path, IsDir(f, d), d # Root
    PROVE  /\ Len(d) = 1
           /\ \A q \in Path : q # Root /\ Parent(q) = d => ~IsDir(f, q)
           /\ \A q \in Places : StrictlyUnder(q, d) => Parent(q) = d
  <1>1. ASSUME NEW e \in Path, IsDir(f, e), e # Root
        PROVE  Len(e) = 1
    <2>1. PICK q \in Places : StrictlyUnder(q, e)
      BY <1>1 DEF Shape
    <2>2. Len(e) < Len(q) /\ Len(q) \in 1..2 /\ Len(e) \in Nat
      BY <2>1, StrictlyUnderLength, PlaceFacts, PathFacts
    <2>3. Len(e) \in Nat \ {0}
      BY <1>1, ParentFacts
    <2>4. PICK n \in 1..2 : n = Len(q)
      BY <2>2
    <2>5. PICK m \in Nat \ {0} : m = Len(e)
      BY <2>3
    <2>6. m < n
      BY <2>2, <2>4, <2>5
    <2>7. m = 1
      BY <2>6
    <2>. QED
      BY <2>5, <2>7
  <1>2. ASSUME NEW q \in Path, q # Root, Parent(q) = d, IsDir(f, q)
        PROVE  FALSE
    <2>1. Len(q) = 1 /\ Len(d) = 1
      BY <1>1, <1>2
    <2>2. Len(d) = Len(q) - 1
      BY <1>2, ParentFacts
    <2>. QED
      BY <2>1, <2>2
  <1>3. ASSUME NEW q \in Places, StrictlyUnder(q, d)
        PROVE  Parent(q) = d
    <2>1. Len(d) = 1 /\ Len(d) < Len(q) /\ Len(q) \in 1..2 /\ q \in Path /\ q # Root
      BY <1>1, <1>3, StrictlyUnderLength, PlaceFacts
    <2>2. Under(Parent(q), d) /\ Parent(q) \in Path /\ Len(Parent(q)) = Len(q) - 1
      BY <1>3, <2>1, UnderParent, ParentFacts
    <2>3. SubSeq(Parent(q), 1, 1) = d /\ Len(Parent(q)) = 1
      BY <2>1, <2>2 DEF Under
    <2>4. Under(d, Parent(q))
      BY <2>1, <2>2, <2>3, PathFacts, UnderElements
    <2>. QED
      BY <2>2, <2>4, UnderAntisymmetric
  <1>. QED
    BY <1>1, <1>2, <1>3

LEMMA PlaceIsNoDir ==
    ASSUME NEW f, Shape(f), NEW p \in Places
    PROVE  ~IsDir(f, p)
  BY PlaceFacts DEF Shape, StrictlyUnder

\* A file at a place: nothing is in its way, and the other places stay.
LEMMA EnsurePlace ==
    ASSUME NEW f \in Tree, WellFormed(f), Bare(f), Shape(f), NEW p \in Places
    PROVE  /\ EnsureFile(f, p) \in Tree /\ WellFormed(EnsureFile(f, p))
           /\ Bare(EnsureFile(f, p)) /\ Shape(EnsureFile(f, p))
           /\ EnsureFile(f, p)[p] = IF IsFile(f, p) THEN f[p] ELSE NewFile
           /\ \A q \in Places \ {p} : EnsureFile(f, p)[q] = f[q]
  <1>. DEFINE g == EnsureFile(f, p)
  <1>1. p \in Path /\ p # Root /\ Parent(p) \in Path /\ StrictlyUnder(p, Parent(p))
    BY PlaceFacts, ParentFacts
  <1>2. CanEnsureFile(f, p)
    <2>1. ASSUME NEW q \in Path, Under(Parent(p), q), IsFile(f, q)
          PROVE  FALSE
      <3>1. q \in Places /\ Under(p, q) /\ q \in Path
        BY <1>1, <2>1, UnderTransitive DEF Shape, StrictlyUnder
      <3>2. p = q
        BY <3>1, PlaceFacts
      <3>. QED
        BY <1>1, <2>1, <3>2, UnderAntisymmetric DEF StrictlyUnder
    <2>. QED
      BY <1>1, <2>1, PlaceIsNoDir DEF CanEnsureFile, CanMakeDirs
  <1>3. g \in Tree /\ WellFormed(g) /\ IsFile(g, p)
    BY <1>1, <1>2, EnsureFileFacts
  <1>4. Bare(g)
    BY BareOperators
  <1>5. /\ \A q \in Path : Exists(f, q) => g[q] = f[q]
        /\ \A q \in Path \ {p} : IsFile(g, q) => IsFile(f, q)
        /\ ~IsFile(f, p) => g[p] = NewFile
    BY <1>1, <1>2, EnsureFileFiles
  <1>6. \A q \in Path : IsDir(g, q) => IsDir(f, q) \/ StrictlyUnder(p, q)
    <2>1. ASSUME NEW q \in Path, IsDir(g, q), ~IsDir(f, q)
          PROVE  StrictlyUnder(p, q)
      <3>1. q # p
        BY <1>3, <2>1 DEF IsDir, IsFile
      <3>2. Under(Parent(p), q) \/ g[q] = f[q]
        BY <3>1 DEF EnsureFile, MakeDirs
      <3>3. Under(p, q)
        BY <1>1, <2>1, <3>2, UnderTransitive DEF StrictlyUnder, IsDir
      <3>. QED
        BY <3>1, <3>3 DEF StrictlyUnder
    <2>. QED
      BY <2>1
  <1>7. Shape(g)
    BY <1>5, <1>6 DEF Shape
  <1>8. ASSUME NEW q \in Places \ {p}
        PROVE  g[q] = f[q]
    <2>1. CASE Exists(f, q)
      BY <1>5, <2>1 DEF Exists
    <2>2. CASE ~Exists(f, q)
      <3>1. ~IsDir(g, q) /\ ~IsFile(g, q) /\ q \in Path
        BY <1>5, <1>7, <2>2, PlaceFacts, PlaceIsNoDir DEF IsFile, Exists
      <3>2. ~Exists(g, q)
        BY <1>3, <3>1 DEF Exists, IsFile, IsDir, Tree, Node
      <3>. QED
        BY <1>4, <2>2, <3>1, <3>2 DEF Bare
    <2>. QED
      BY <2>1, <2>2
  <1>9. IsFile(f, p) => g[p] = f[p]
    BY <1>1, <1>5 DEF IsFile, Exists
  <1>. QED
    BY <1>3, <1>4, <1>5, <1>7, <1>8, <1>9

\* A node is taken out: what is not below it stays.
LEMMA DetachPlaces ==
    ASSUME NEW f \in Tree, WellFormed(f), Bare(f), Shape(f), NEW d \in Path, d # Root
    PROVE  /\ Detach(f, {d}) \in Tree /\ WellFormed(Detach(f, {d}))
           /\ Bare(Detach(f, {d})) /\ Shape(Detach(f, {d}))
           /\ \A q \in Path : Detach(f, {d})[q] = IF Under(q, d) THEN Absent ELSE f[q]
  <1>1. Detach(f, {d}) \in Tree /\ WellFormed(Detach(f, {d}))
    BY DetachFacts
  <1>2. \A q \in Path : Detach(f, {d})[q] = IF Under(q, d) THEN Absent ELSE f[q]
    BY DEF Detach
  <1>3. Bare(Detach(f, {d}))
    BY BareOperators
  <1>4. Shape(Detach(f, {d}))
    BY <1>2, NodeFacts DEF Shape, IsFile, IsDir
  <1>. QED
    BY <1>1, <1>2, <1>3, <1>4

\* Where there is no file there is nothing, and nothing is written there.
LEMMA NoFileAtPlace ==
    ASSUME NEW f \in Tree, Bare(f), Shape(f), NEW p \in Places, ~IsFile(f, p)
    PROVE  f[p] = Absent
  <1>1. ~IsDir(f, p) /\ p \in Path
    BY PlaceIsNoDir, PlaceFacts
  <1>2. ~Exists(f, p)
    BY <1>1 DEF Exists, IsFile, IsDir, Tree, Node
  <1>. QED
    BY <1>1, <1>2 DEF Bare

-----------------------------------------------------------------------------
(* Calls. *)

\* d is the call c, but for whether its node is in the tree and its event stale.
SameCall(c, d) ==
    /\ d.op = c.op /\ d.path = c.path /\ d.event = c.event /\ d.stage = c.stage
    /\ d.hook = c.hook /\ d.running = c.running /\ d.content = c.content
    /\ d.version = c.version /\ d.rest = c.rest

LEMMA NowhereIsTree ==
    Nowhere \in Tree
  BY NodeFacts DEF Nowhere, Tree

LEMMA CallFields ==
    ASSUME NEW c \in Call
    PROVE  /\ c.op \in {"write", "remove", "remove dir"} /\ c.path \in Path
           /\ c.event \in {"create", "update", "delete", "none"}
           /\ c.stage \in {"write hooks", "path hooks", "children"} /\ c.hook \in Nat
           /\ c.running \in BOOLEAN /\ c.content \in Seq(Data) /\ c.version \in Nat
           /\ c.stale \in BOOLEAN /\ c.inTree \in BOOLEAN /\ c.left \in Tree
           /\ c.rest \subseteq Path
  BY DEF Call

LEMMA NewCallFacts ==
    ASSUME NEW op \in {"write", "remove", "remove dir"}, NEW p \in Path,
           NEW event \in {"create", "update", "delete", "none"},
           NEW stage \in {"write hooks", "path hooks", "children"}
    PROVE  NewCall(op, p, event, stage) \in Call
  <1>1. << >> \in Seq(Data) /\ Nowhere \in Tree
    BY NowhereIsTree, EmptySeq
  <1>. QED
    BY <1>1 DEF NewCall, Call

\* e tells of a write to the file at p, which had version n.
EventOf(e, p, d, n) ==
    /\ e.op = "write" /\ e.path = p /\ e.stage = "write hooks" /\ e.hook = 0
    /\ e.content = <<d>> /\ e.version = n + 1

NewWrite(e) == e.event \in {"create", "update"} /\ e.rest = {}

LEMMA EventOfWriteFacts ==
    ASSUME NEW p \in Path, NEW d \in Data, NEW version \in Nat
    PROVE  /\ EventOfWrite(p, d, version) \in Call
           /\ EventOf(EventOfWrite(p, d, version), p, d, version)
           /\ NewWrite(EventOfWrite(p, d, version))
  <1>. DEFINE c == NewCall("write", p, KindOfWrite(version), "write hooks")
              c1 == [c EXCEPT !.content = <<d>>]
  <1>1. KindOfWrite(version) \in {"create", "update"}
    BY DEF KindOfWrite
  <1>2. c \in Call
    BY <1>1, NewCallFacts
  <1>3. /\ c.op = "write" /\ c.path = p /\ c.event = KindOfWrite(version)
        /\ c.stage = "write hooks" /\ c.hook = 0 /\ c.rest = {}
    BY DEF NewCall
  <1>. HIDE DEF c
  <1>4. <<d>> \in Seq(Data) /\ version + 1 \in Nat
    OBVIOUS
  <1>5. c1 \in Call
    BY <1>2, <1>4 DEF Call
  <1>6. /\ c1.op = "write" /\ c1.path = p /\ c1.event = KindOfWrite(version)
        /\ c1.stage = "write hooks" /\ c1.hook = 0 /\ c1.rest = {} /\ c1.content = <<d>>
    BY <1>2, <1>3 DEF Call
  <1>7. EventOfWrite(p, d, version) = [c1 EXCEPT !.version = version + 1]
    BY DEF EventOfWrite, c
  <1>. HIDE DEF c1
  <1>8. [c1 EXCEPT !.version = version + 1] \in Call
    BY <1>4, <1>5 DEF Call
  <1>9. LET e == [c1 EXCEPT !.version = version + 1]
        IN  /\ e.op = "write" /\ e.path = p /\ e.event = KindOfWrite(version)
            /\ e.stage = "write hooks" /\ e.hook = 0 /\ e.rest = {}
            /\ e.content = <<d>> /\ e.version = version + 1
    BY <1>5, <1>6 DEF Call
  <1>. QED
    BY <1>1, <1>7, <1>8, <1>9 DEF EventOf, NewWrite

\* The call of a recursive remove, and of the removal of a file.
DirRemoval(p, rest) ==
    [NewCall("remove dir", p, "none", "children") EXCEPT !.rest = rest]

IsDirRemoval(c, p, rest) ==
    /\ c.op = "remove dir" /\ c.path = p /\ c.stage = "children"
    /\ ~c.running /\ c.inTree /\ c.rest = rest

IsFileRemoval(c, p) ==
    /\ c.op = "remove" /\ c.path = p /\ c.stage = "path hooks" /\ c.event = "delete"
    /\ c.hook = 0 /\ ~c.running /\ c.rest = {} /\ c.content = << >>

LEMMA RemoveDirFacts ==
    ASSUME NEW p \in Path, NEW rest \in SUBSET Path
    PROVE  /\ DirRemoval(p, rest) \in Call
           /\ IsDirRemoval(DirRemoval(p, rest), p, rest)
  <1>. DEFINE c == NewCall("remove dir", p, "none", "children")
  <1>1. c \in Call
    BY NewCallFacts
  <1>2. [c EXCEPT !.rest = rest] \in Call
    BY <1>1 DEF Call
  <1>3. IsDirRemoval([c EXCEPT !.rest = rest], p, rest)
    BY DEF NewCall, IsDirRemoval
  <1>. QED
    BY <1>2, <1>3 DEF DirRemoval

LEMMA RemoveFileFacts ==
    ASSUME NEW p \in Path
    PROVE  /\ NewCall("remove", p, "delete", "path hooks") \in Call
           /\ IsFileRemoval(NewCall("remove", p, "delete", "path hooks"), p)
  <1>1. IsFileRemoval(NewCall("remove", p, "delete", "path hooks"), p)
    BY DEF NewCall, IsFileRemoval
  <1>. QED
    BY <1>1, NewCallFacts

LEMMA OrphanedFacts ==
    ASSUME fs \in Tree, NEW c \in Call, NEW p \in Path
    PROVE  /\ Orphaned(c, p) \in Call /\ SameCall(c, Orphaned(c, p))
           /\ Orphaned(c, p).stale = c.stale
           /\ Orphaned(c, p).inTree => c.inTree
           /\ Orphaned(c, p).inTree /\ c.stage # "path hooks" => ~Under(c.path, p)
           /\ ~Under(c.path, p) => Orphaned(c, p) = c
  <1>. DEFINE left == [q \in Path |-> IF Under(q, c.path) THEN fs[q] ELSE Absent]
              d == [c EXCEPT !.inTree = FALSE]
              e == [d EXCEPT !.left = left]
  <1>1. left \in Tree
    BY NodeFacts DEF Tree
  <1>. HIDE DEF left
  <1>2. d \in Call /\ SameCall(c, d) /\ d.stale = c.stale /\ d.inTree = FALSE
    BY DEF Call, SameCall
  <1>. HIDE DEF d
  <1>3. e \in Call /\ SameCall(d, e) /\ e.stale = d.stale /\ e.inTree = d.inTree
    BY <1>1, <1>2 DEF Call, SameCall
  <1>. HIDE DEF e
  <1>4. SameCall(c, e) /\ e.stale = c.stale /\ e.inTree = FALSE
    BY <1>2, <1>3 DEF SameCall
  <1>5. Orphaned(c, p) = IF c.inTree /\ c.stage # "path hooks" /\ Under(c.path, p)
                         THEN e ELSE c
    BY DEF Orphaned, e, d, left
  <1>6. SameCall(c, c)
    BY DEF SameCall
  <1>. QED
    BY <1>3, <1>4, <1>5, <1>6

\* The event for the path hooks, when the write hooks are done.
PathEvent(c) == [FreshEvent(c) EXCEPT !.stage = "path hooks", !.hook = 0]

LEMMA PathEventFacts ==
    ASSUME fs \in Tree, NEW c \in Call
    PROVE  /\ PathEvent(c) \in Call
           /\ PathEvent(c).op = c.op /\ PathEvent(c).path = c.path
           /\ PathEvent(c).event = c.event /\ PathEvent(c).rest = c.rest
           /\ PathEvent(c).running = c.running
           /\ PathEvent(c).stage = "path hooks" /\ PathEvent(c).hook = 0
           /\ PathEvent(c).stale = ~c.inTree
           /\ PathEvent(c).content = HomeOf(c)[c.path].content
  <1>. DEFINE content == HomeOf(c)[c.path].content
              c1 == [c EXCEPT !.content = content]
              c2 == [c1 EXCEPT !.stale = ~c.inTree]
              c3 == [c2 EXCEPT !.stage = "path hooks"]
              c4 == [c3 EXCEPT !.hook = 0]
  <1>1. content \in Seq(Data) /\ c.inTree \in BOOLEAN
    <2>1. c.left \in Tree /\ c.path \in Path /\ c.inTree \in BOOLEAN
      BY CallFields
    <2>2. HomeOf(c) \in Tree
      BY <2>1 DEF HomeOf
    <2>3. HomeOf(c)[c.path] \in Node
      BY <2>1, <2>2 DEF Tree
    <2>. QED
      BY <2>1, <2>3 DEF Node
  <1>2. PathEvent(c) = c4
    BY DEF PathEvent, FreshEvent
  <1>. HIDE DEF content
  <1>3. /\ c1 \in Call /\ c1.op = c.op /\ c1.path = c.path /\ c1.event = c.event
        /\ c1.rest = c.rest /\ c1.running = c.running /\ c1.content = content
    BY <1>1 DEF Call
  <1>. HIDE DEF c1
  <1>4. /\ c2 \in Call /\ c2.op = c.op /\ c2.path = c.path /\ c2.event = c.event
        /\ c2.rest = c.rest /\ c2.running = c.running /\ c2.content = content
        /\ c2.stale = ~c.inTree
    <2>1. (~c.inTree) \in BOOLEAN
      OBVIOUS
    <2>2. c2 \in Call
      BY <1>3, <2>1 DEF Call
    <2>. QED
      BY <1>3, <2>2 DEF Call
  <1>. HIDE DEF c2
  <1>5. /\ c3 \in Call /\ c3.op = c.op /\ c3.path = c.path /\ c3.event = c.event
        /\ c3.rest = c.rest /\ c3.running = c.running /\ c3.content = content
        /\ c3.stale = ~c.inTree /\ c3.stage = "path hooks"
    BY <1>4 DEF Call
  <1>. HIDE DEF c3
  <1>6. /\ c4 \in Call /\ c4.op = c.op /\ c4.path = c.path /\ c4.event = c.event
        /\ c4.rest = c.rest /\ c4.running = c.running /\ c4.content = content
        /\ c4.stale = ~c.inTree /\ c4.stage = "path hooks" /\ c4.hook = 0
    BY <1>5 DEF Call
  <1>. HIDE DEF c4
  <1>. QED
    BY <1>2, <1>6 DEF content

-----------------------------------------------------------------------------
(* Stacks of calls. *)

LEMMA FrontFacts ==
    ASSUME NEW s \in Seq(Call), s # << >>
    PROVE  /\ Len(s) \in Nat \ {0}
           /\ Seqs!Last(s) = s[Len(s)] /\ s[Len(s)] \in Call
           /\ Seqs!Front(s) = SubSeq(s, 1, Len(s) - 1)
  BY DEF Seqs!Last, Seqs!Front

LEMMA CutFacts ==
    ASSUME NEW s \in Seq(Call), NEW k \in 0..Len(s)
    PROVE  /\ SubSeq(s, 1, k) \in Seq(Call)
           /\ Len(SubSeq(s, 1, k)) = k
           /\ \A i \in 1..k : SubSeq(s, 1, k)[i] = s[i]
  BY SubSeqProperties

LEMMA SetTopFacts ==
    ASSUME calls \in Seq(Call), calls # << >>, NEW c \in Call
    PROVE  /\ SetTop(c) \in Seq(Call) /\ Len(SetTop(c)) = Len(calls)
           /\ SetTop(c)[Len(calls)] = c
           /\ \A i \in 1..(Len(calls) - 1) : SetTop(c)[i] = calls[i]
  BY DEF SetTop

LEMMA CrossedFacts ==
    ASSUME NEW s \in Seq(Call), NEW p
    PROVE  /\ Crossed(s, p) \in Seq(Call) /\ Len(Crossed(s, p)) = Len(s)
           /\ \A i \in 1..Len(s) :
                /\ SameCall(s[i], Crossed(s, p)[i])
                /\ Crossed(s, p)[i].inTree = s[i].inTree
                /\ s[i].path = p /\ s[i].stage = "path hooks" => Crossed(s, p)[i].stale
                /\ s[i].path # p \/ s[i].stage # "path hooks" => Crossed(s, p)[i] = s[i]
  <1>1. ASSUME NEW c \in Call, NEW d, d = [c EXCEPT !.stale = TRUE]
        PROVE  d \in Call /\ SameCall(c, d) /\ d.inTree = c.inTree /\ d.stale
    BY <1>1 DEF Call, SameCall
  <1>2. DOMAIN s = 1..Len(s) /\ Len(s) \in Nat /\ \A i \in 1..Len(s) : s[i] \in Call
    OBVIOUS
  <1>3. \A i \in 1..Len(s) :
          Crossed(s, p)[i] = IF s[i].path = p /\ s[i].stage = "path hooks"
                             THEN [s[i] EXCEPT !.stale = TRUE] ELSE s[i]
    BY <1>2 DEF Crossed
  <1>4. Crossed(s, p) \in Seq(Call) /\ Len(Crossed(s, p)) = Len(s)
    <2>1. Crossed(s, p) \in [1..Len(s) -> Call]
      BY <1>1, <1>2 DEF Crossed
    <2>. QED
      BY <1>2, <2>1
  <1>5. ASSUME NEW i \in 1..Len(s)
        PROVE  /\ SameCall(s[i], Crossed(s, p)[i])
               /\ Crossed(s, p)[i].inTree = s[i].inTree
               /\ s[i].path = p /\ s[i].stage = "path hooks" => Crossed(s, p)[i].stale
               /\ s[i].path # p \/ s[i].stage # "path hooks" => Crossed(s, p)[i] = s[i]
    <2>1. SameCall(s[i], s[i])
      BY DEF SameCall
    <2>. QED
      BY <1>1, <1>2, <1>3, <2>1
  <1>. QED
    BY <1>4, <1>5

\* The calls s when the node at p is taken out of the tree.
OrphanedCalls(s, p) == [i \in DOMAIN s |-> Orphaned(s[i], p)]

LEMMA OrphanedCallsFacts ==
    ASSUME fs \in Tree, NEW s \in Seq(Call), NEW p \in Path
    PROVE  /\ OrphanedCalls(s, p) \in Seq(Call) /\ Len(OrphanedCalls(s, p)) = Len(s)
           /\ \A i \in 1..Len(s) :
                /\ SameCall(s[i], OrphanedCalls(s, p)[i])
                /\ OrphanedCalls(s, p)[i].stale = s[i].stale
                /\ OrphanedCalls(s, p)[i].inTree => s[i].inTree
                /\ OrphanedCalls(s, p)[i].inTree /\ s[i].stage # "path hooks"
                     => ~Under(s[i].path, p)
                /\ ~Under(s[i].path, p) => OrphanedCalls(s, p)[i] = s[i]
  <1>1. DOMAIN s = 1..Len(s) /\ Len(s) \in Nat /\ \A i \in 1..Len(s) : s[i] \in Call
    OBVIOUS
  <1>2. \A i \in 1..Len(s) : OrphanedCalls(s, p)[i] = Orphaned(s[i], p)
    BY <1>1 DEF OrphanedCalls
  <1>3. \A i \in 1..Len(s) : Orphaned(s[i], p) \in Call
    BY <1>1, OrphanedFacts
  <1>4. OrphanedCalls(s, p) \in Seq(Call) /\ Len(OrphanedCalls(s, p)) = Len(s)
    <2>1. OrphanedCalls(s, p) \in [1..Len(s) -> Call]
      BY <1>1, <1>3 DEF OrphanedCalls
    <2>. QED
      BY <1>1, <2>1
  <1>5. ASSUME NEW i \in 1..Len(s)
        PROVE  /\ SameCall(s[i], OrphanedCalls(s, p)[i])
               /\ OrphanedCalls(s, p)[i].stale = s[i].stale
               /\ OrphanedCalls(s, p)[i].inTree => s[i].inTree
               /\ OrphanedCalls(s, p)[i].inTree /\ s[i].stage # "path hooks"
                    => ~Under(s[i].path, p)
               /\ ~Under(s[i].path, p) => OrphanedCalls(s, p)[i] = s[i]
    <2>1. PICK c \in Call : c = s[i]
      BY <1>1
    <2>2. OrphanedCalls(s, p)[i] = Orphaned(c, p)
      BY <1>2, <2>1
    <2>3. /\ SameCall(c, Orphaned(c, p))
          /\ Orphaned(c, p).stale = c.stale
          /\ Orphaned(c, p).inTree => c.inTree
          /\ Orphaned(c, p).inTree /\ c.stage # "path hooks" => ~Under(c.path, p)
          /\ ~Under(c.path, p) => Orphaned(c, p) = c
      BY OrphanedFacts
    <2>. QED
      BY <2>1, <2>2, <2>3
  <1>. QED
    BY <1>4, <1>5

LEMMA LeastNumber ==
    ASSUME NEW S \in SUBSET Nat, S # {}
    PROVE  Sets!Min(S) \in S /\ \A y \in S : Sets!Min(S) <= y
  BY LeastElement DEF Sets!Min

LEMMA GreatestNumber ==
    ASSUME NEW n \in Nat, NEW S \in SUBSET (0..n), S # {}
    PROVE  Sets!Max(S) \in S /\ \A y \in S : Sets!Max(S) >= y
  <1>. DEFINE T == {d \in Nat : \E y \in S : d = n - y}
  <1>1. T \in SUBSET Nat /\ T # {}
    <2>1. PICK y \in S : TRUE
      OBVIOUS
    <2>2. n - y \in T
      BY <2>1
    <2>. QED
      BY <2>2
  <1>. HIDE DEF T
  <1>2. PICK t \in T : \A u \in T : t <= u
    BY <1>1, LeastElement
  <1>3. PICK x \in S : t = n - x
    BY <1>2 DEF T
  <1>4. ASSUME NEW y \in S
        PROVE  x >= y
    <2>1. n - y \in T
      BY DEF T
    <2>2. n - x <= n - y
      BY <1>2, <1>3, <2>1
    <2>. QED
      BY <2>2
  <1>. QED
    BY <1>4 DEF Sets!Max

\* An exception ends all calls above the last hook that runs.
LEMMA UnwoundFacts ==
    ASSUME NEW s \in Seq(Call)
    PROVE  \E k \in 0..Len(s) :
             /\ Unwound(s) = SubSeq(s, 1, k)
             /\ k > 0 => s[k].running
             /\ \A i \in (k + 1)..Len(s) : ~s[i].running
  <1>. DEFINE S == {0} \cup {i \in DOMAIN s : s[i].running}
  <1>1. Len(s) \in Nat /\ DOMAIN s = 1..Len(s)
    OBVIOUS
  <1>2. S \in SUBSET (0..Len(s)) /\ S # {}
    BY <1>1
  <1>3. Sets!Max(S) \in S /\ \A y \in S : Sets!Max(S) >= y
    BY <1>1, <1>2, GreatestNumber
  <1>4. PICK k \in 0..Len(s) : k = Sets!Max(S) /\ k \in S /\ \A y \in S : k >= y
    BY <1>2, <1>3
  <1>5. k > 0 => s[k].running
    BY <1>4
  <1>6. ASSUME NEW i \in (k + 1)..Len(s), s[i].running
        PROVE  FALSE
    <2>1. i \in S
      BY <1>1, <1>6
    <2>. HIDE DEF S
    <2>2. k >= i
      BY <1>4, <2>1
    <2>. QED
      BY <1>1, <2>2
  <1>7. Unwound(s) = SubSeq(s, 1, k)
    BY <1>4 DEF Unwound
  <1>. QED
    BY <1>5, <1>6, <1>7

-----------------------------------------------------------------------------
(* Places that a step leaves alone. *)

\* d is what a step makes of the call c, for what is said of its place.
AsBefore(c, d) ==
    /\ d.op = c.op /\ d.stage = c.stage /\ d.hook = c.hook
    /\ d.content = c.content /\ d.version = c.version
    /\ d.running => c.running
    /\ d.inTree => c.inTree
    /\ c.stale => d.stale

\* The stack t is s for the place p, but for calls that have told all.
StackAsBefore(s, t, p) ==
    /\ \A i \in DOMAIN t : t[i].path = p =>
         /\ i \in DOMAIN s /\ s[i].path = p /\ AsBefore(s[i], t[i])
         /\ JustRemoved(t[i]) => i = Len(t)
    /\ \A i \in DOMAIN s : s[i].path = p =>
         \/ i \in DOMAIN t /\ t[i].path = p /\ AsBefore(s[i], t[i])
         \/ /\ JustRemoved(s[i]) =>
                 ~(FirstHears /\ \E j \in DOMAIN WriteHooks : Under(p, WriteHooks[j]))
            /\ \A j \in DOMAIN PathHooks : Tells(s[i], j) => p \in astray'[j]
            /\ \A j \in DOMAIN WriteHooks : Saves(s[i], j) => p \in unsaved'

\* Nothing that is said of the place p changes.
Untouched(p) ==
    /\ index'[p] = index[p] /\ store'[p] = store[p]
    /\ \A j \in DOMAIN PathHooks :
         copy'[j][p] = copy[j][p] /\ (p \in astray[j] => p \in astray'[j])
    /\ \A j \in DOMAIN WriteHooks : saved'[j][p] = saved[j][p]
    /\ p \in recreated' <=> p \in recreated
    /\ p \in unsaved => p \in unsaved'

LEMMA UntouchedFollows ==
    ASSUME NEW p \in Places, Follows(p), Untouched(p), fs'[p] = fs[p]
    PROVE  Follows(p)'
  BY DEF Follows, Untouched, IsFile

LEMMA UntouchedCalls ==
    ASSUME NEW p \in Places, NEW s \in Seq(Call), NEW t \in Seq(Call), calls' = t,
           \A i \in DOMAIN s : s[i].path = p => CallIsRight(s, i, p),
           StackAsBefore(s, t, p), Untouched(p), fs'[p] = fs[p]
    PROVE  (\A i \in DOMAIN calls : calls[i].path = p => CallIsRight(calls, i, p))'
  <1>. SUFFICES ASSUME NEW i \in DOMAIN t, t[i].path = p
                PROVE  CallIsRight(t, i, p)'
    OBVIOUS
  <1>1. /\ i \in DOMAIN s /\ AsBefore(s[i], t[i]) /\ CallIsRight(s, i, p)
        /\ JustRemoved(t[i]) => i = Len(t)
    BY DEF StackAsBefore
  <1>2. s[i] \in Call /\ t[i] \in Call
    BY <1>1
  <1>. QED
    BY <1>1, <1>2 DEF CallIsRight, AsBefore, Untouched, JustRemoved, IsFile

LEMMA TellsAsBefore ==
    ASSUME NEW c, NEW d, AsBefore(c, d), d.path = c.path, NEW j
    PROVE  /\ Tells(d, j) <=> Tells(c, j)
           /\ Saves(d, j) <=> Saves(c, j)
           /\ JustRemoved(d) <=> JustRemoved(c)
           /\ d.version = c.version
  BY DEF AsBefore, Tells, Saves, JustRemoved

LEMMA UntouchedCopies ==
    ASSUME NEW p \in Places, NEW s \in Seq(Call), NEW t \in Seq(Call), calls' = t,
           CopiesCome(s, p), StackAsBefore(s, t, p), Untouched(p), fs'[p] = fs[p]
    PROVE  CopiesCome(calls, p)'
  <1>. SUFFICES ASSUME p \notin recreated', NEW j \in DOMAIN PathHooks,
                       p \notin astray'[j], Under(p, PathHooks[j])
                PROVE  Copied(j, p)' \/ \E i \in DOMAIN t : t[i].path = p /\ Tells(t[i], j)
    BY DEF CopiesCome
  <1>1. Copied(j, p) \/ \E i \in DOMAIN s : s[i].path = p /\ Tells(s[i], j)
    BY DEF CopiesCome, Untouched
  <1>2. CASE Copied(j, p)
    BY <1>2 DEF Copied, Untouched, IsFile
  <1>3. ASSUME NEW i \in DOMAIN s, s[i].path = p, Tells(s[i], j)
        PROVE  i \in DOMAIN t /\ t[i].path = p /\ Tells(t[i], j)
    BY <1>3, TellsAsBefore DEF StackAsBefore
  <1>. QED
    BY <1>1, <1>2, <1>3

LEMMA UntouchedSaved ==
    ASSUME NEW p \in Places, NEW s \in Seq(Call), NEW t \in Seq(Call), calls' = t,
           SavedComes(s, p), StackAsBefore(s, t, p), Untouched(p), fs'[p] = fs[p]
    PROVE  SavedComes(calls, p)'
  <1>. SUFFICES ASSUME FirstHears, p \notin recreated' \cup unsaved',
                       NEW j \in DOMAIN WriteHooks, Under(p, WriteHooks[j])
                PROVE  IF IsFile(fs', p)
                       THEN /\ saved'[j][p].present =>
                                 /\ saved'[j][p].version <= fs'[p].version
                                 /\ saved'[j][p].version = fs'[p].version =>
                                      saved'[j][p] = Latest(p)'
                            /\ \/ saved'[j][p] = Latest(p)'
                               \/ \E i \in DOMAIN t : /\ t[i].path = p /\ Saves(t[i], j)
                                                      /\ t[i].version = fs'[p].version
                       ELSE \/ saved'[j][p] = NoEntry
                            \/ \E i \in DOMAIN t : t[i].path = p /\ JustRemoved(t[i])
    BY DEF SavedComes, IsFile
  <1>1. p \notin recreated \cup unsaved
    BY DEF Untouched
  <1>2. /\ IsFile(fs', p) <=> IsFile(fs, p)
        /\ Latest(p)' = Latest(p) /\ fs'[p] = fs[p] /\ saved'[j][p] = saved[j][p]
    BY DEF Untouched, Latest, IsFile
  <1>3. ASSUME NEW i \in DOMAIN s, s[i].path = p, Saves(s[i], j) \/ JustRemoved(s[i])
        PROVE  /\ i \in DOMAIN t /\ t[i].path = p /\ t[i].version = s[i].version
               /\ Saves(s[i], j) => Saves(t[i], j)
               /\ JustRemoved(s[i]) => JustRemoved(t[i])
    <2>1. i \in DOMAIN t /\ t[i].path = p /\ AsBefore(s[i], t[i])
      BY <1>3 DEF StackAsBefore, Saves, JustRemoved
    <2>. QED
      BY <1>3, <2>1, TellsAsBefore
  <1>4. CASE IsFile(fs, p)
    <2>1. /\ saved[j][p].present =>
               /\ saved[j][p].version <= fs[p].version
               /\ saved[j][p].version = fs[p].version => saved[j][p] = Latest(p)
          /\ \/ saved[j][p] = Latest(p)
             \/ \E i \in DOMAIN s : /\ s[i].path = p /\ Saves(s[i], j)
                                    /\ s[i].version = fs[p].version
      BY <1>1, <1>4 DEF SavedComes
    <2>. QED
      BY <1>2, <1>3, <1>4, <2>1
  <1>5. CASE ~IsFile(fs, p)
    <2>1. \/ saved[j][p] = NoEntry
          \/ \E i \in DOMAIN s : s[i].path = p /\ JustRemoved(s[i])
      BY <1>1, <1>5 DEF SavedComes
    <2>. QED
      BY <1>2, <1>3, <1>5, <2>1
  <1>. QED
    BY <1>4, <1>5

LEMMA UntouchedPlace ==
    ASSUME NEW p \in Places, NEW s \in Seq(Call), NEW t \in Seq(Call), calls' = t,
           PlaceInOrder(s, p), StackAsBefore(s, t, p), Untouched(p), fs'[p] = fs[p]
    PROVE  PlaceInOrder(calls, p)'
  <1>1. /\ Follows(p) /\ CopiesCome(s, p) /\ SavedComes(s, p)
        /\ \A i \in DOMAIN s : s[i].path = p => CallIsRight(s, i, p)
    BY DEF PlaceInOrder
  <1>2. Follows(p)'
    BY <1>1, UntouchedFollows
  <1>3. (\A i \in DOMAIN calls : calls[i].path = p => CallIsRight(calls, i, p))'
    BY <1>1, UntouchedCalls
  <1>4. CopiesCome(calls, p)'
    BY <1>1, UntouchedCopies
  <1>5. SavedComes(calls, p)'
    BY <1>1, UntouchedSaved
  <1>. QED
    BY <1>2, <1>3, <1>4, <1>5 DEF PlaceInOrder

\* A file that was written below a directory that is now taken out.
LEMMA LostPlace ==
    ASSUME NEW p \in Places, NEW s \in Seq(Call), NEW t \in Seq(Call), calls' = t,
           PlaceInOrder(s, p), p \in recreated', fs'[p] = Absent,
           \A i \in DOMAIN t : t[i].path = p =>
             /\ i \in DOMAIN s /\ s[i].path = p /\ AsBefore(s[i], t[i])
             /\ ~JustRemoved(t[i])
             /\ t[i].stage = "write hooks" => ~t[i].inTree
    PROVE  PlaceInOrder(calls, p)'
  <1>1. (\A i \in DOMAIN calls : calls[i].path = p => CallIsRight(calls, i, p))'
    <2>. SUFFICES ASSUME NEW i \in DOMAIN t, t[i].path = p
                  PROVE  CallIsRight(t, i, p)'
      OBVIOUS
    <2>. QED
      BY DEF CallIsRight
  <1>. QED
    BY <1>1 DEF PlaceInOrder, Follows, CopiesCome, SavedComes

\* A recursive remove keeps its place above the file at p.
LEMMA SeenAsBefore ==
    ASSUME NEW p \in Places, NEW s \in Seq(Call), NEW t \in Seq(Call), calls' = t,
           RemovalsSee(s, p), p \notin recreated' => p \notin recreated,
           IsFile(fs', p) => IsFile(fs, p),
           \A i \in DOMAIN t : t[i].op = "remove dir" /\ StrictlyUnder(p, t[i].path) =>
             \/ t[i].inTree /\ p \in t[i].rest
             \/ /\ i \in DOMAIN s /\ s[i].op = "remove dir" /\ s[i].path = t[i].path
                /\ s[i].inTree /\ IsFile(fs', p) => t[i].inTree
                /\ p \in s[i].rest => p \in t[i].rest
    PROVE  RemovalsSee(calls, p)'
  <1>. SUFFICES ASSUME p \notin recreated', IsFile(fs', p), NEW i \in DOMAIN t,
                       t[i].op = "remove dir", StrictlyUnder(p, t[i].path)
                PROVE  t[i].inTree /\ p \in t[i].rest
    BY DEF RemovalsSee, IsFile
  <1>. QED
    BY DEF RemovalsSee

-----------------------------------------------------------------------------
(* The order of the stack. *)

LEMMA SameCallInOrder ==
    ASSUME NEW c, NEW d, SameCall(c, d), CallInOrder(c)
    PROVE  CallInOrder(d)
  BY DEF SameCall, CallInOrder

LEMMA StackSame ==
    ASSUME NEW s \in Seq(Call), NEW t \in Seq(Call), StackInOrder(s), Len(t) = Len(s),
           \A i \in 1..Len(s) : SameCall(s[i], t[i])
    PROVE  StackInOrder(t)
  <1>1. DOMAIN s = 1..Len(s) /\ DOMAIN t = 1..Len(s)
    OBVIOUS
  <1>2. ASSUME NEW i \in 1..Len(s)
        PROVE  /\ CallInOrder(t[i])
               /\ i < Len(t) => t[i].running \/ t[i].op = "remove dir"
               /\ t[i].op = "remove dir" => i < MaxCalls
    <2>1. CallInOrder(t[i])
      BY <1>1, SameCallInOrder DEF StackInOrder
    <2>. QED
      BY <1>1, <2>1 DEF StackInOrder, SameCall
  <1>. QED
    BY <1>1, <1>2 DEF StackInOrder

LEMMA StackCut ==
    ASSUME NEW s \in Seq(Call), StackInOrder(s), NEW k \in 0..Len(s)
    PROVE  StackInOrder(SubSeq(s, 1, k))
  <1>. DEFINE t == SubSeq(s, 1, k)
  <1>1. t \in Seq(Call) /\ Len(t) = k /\ \A i \in 1..k : t[i] = s[i]
    BY CutFacts
  <1>. HIDE DEF t
  <1>2. PICK n \in Nat : n = Len(s)
    OBVIOUS
  <1>3. DOMAIN t = 1..k /\ DOMAIN s = 1..n /\ k <= n /\ k \in Nat
    BY <1>1, <1>2
  <1>4. ASSUME NEW i \in 1..k
        PROVE  /\ CallInOrder(t[i])
               /\ i < Len(t) => t[i].running \/ t[i].op = "remove dir"
               /\ t[i].op = "remove dir" => i < MaxCalls
    <2>1. i \in 1..n /\ (i < k => i < n) /\ t[i] = s[i]
      BY <1>1, <1>3
    <2>. QED
      BY <1>1, <1>2, <1>3, <2>1 DEF StackInOrder
  <1>5. StackInOrder(t)
    BY <1>3, <1>4 DEF StackInOrder
  <1>. QED
    BY <1>5 DEF t

LEMMA PushFacts ==
    ASSUME NEW s \in Seq(Call), NEW c \in Call
    PROVE  /\ Append(s, c) \in Seq(Call) /\ Len(Append(s, c)) = Len(s) + 1
           /\ Append(s, c)[Len(s) + 1] = c
           /\ \A i \in 1..Len(s) : Append(s, c)[i] = s[i]
  BY AppendProperties

\* The stack t is s with e on top.
Pushed(s, e, t) ==
    /\ Len(t) = Len(s) + 1 /\ t[Len(t)] = e
    /\ \A i \in DOMAIN s : t[i] = s[i]
    /\ DOMAIN t = DOMAIN s \cup {Len(t)}

LEMMA PushedFacts ==
    ASSUME NEW s \in Seq(Call), NEW e \in Call
    PROVE  Append(s, e) \in Seq(Call) /\ Pushed(s, e, Append(s, e))
  <1>. DEFINE t == Append(s, e)
  <1>1. PICK n \in Nat : n = Len(s)
    OBVIOUS
  <1>2. /\ t \in Seq(Call) /\ Len(t) = n + 1 /\ t[n + 1] = e
        /\ \A i \in 1..n : t[i] = s[i]
    BY <1>1, PushFacts
  <1>. HIDE DEF t
  <1>3. DOMAIN s = 1..n /\ DOMAIN t = 1..(n + 1)
    BY <1>1, <1>2
  <1>4. 1..(n + 1) = (1..n) \cup {n + 1}
    OBVIOUS
  <1>. QED
    BY <1>1, <1>2, <1>3, <1>4 DEF t, Pushed

\* The call on top, if there is one, may call the file system.
TopCalls(s) == s # << >> => s[Len(s)].running \/ s[Len(s)].op = "remove dir"

\* A recursive remove leaves room for the removals of its files.
LeavesRoom(s, c) == c.op = "remove dir" => Len(s) + 1 < MaxCalls

LEMMA StackPush ==
    ASSUME NEW s \in Seq(Call), StackInOrder(s), NEW c \in Call, CallInOrder(c),
           TopCalls(s), LeavesRoom(s, c)
    PROVE  StackInOrder(Append(s, c))
  <1>. DEFINE t == Append(s, c)
  <1>1. PICK n \in Nat : n = Len(s)
    OBVIOUS
  <1>2. t \in Seq(Call) /\ Len(t) = n + 1 /\ t[n + 1] = c /\ \A i \in 1..n : t[i] = s[i]
    BY <1>1, PushFacts
  <1>. HIDE DEF t
  <1>3. DOMAIN s = 1..n /\ DOMAIN t = 1..(n + 1)
    BY <1>1, <1>2
  <1>4. n > 0 => s[n].running \/ s[n].op = "remove dir"
    <2>1. n > 0 => s # << >>
      BY <1>1
    <2>. QED
      BY <1>1, <2>1 DEF TopCalls
  <1>5. ASSUME NEW i \in 1..(n + 1)
        PROVE  /\ CallInOrder(t[i])
               /\ i < n + 1 => t[i].running \/ t[i].op = "remove dir"
               /\ t[i].op = "remove dir" => i < MaxCalls
    <2>1. CASE i = n + 1
      <3>1. ~(i < n + 1) /\ t[i] = c
        BY <1>2, <2>1
      <3>2. t[i].op = "remove dir" => i < MaxCalls
        BY <1>1, <2>1, <3>1 DEF LeavesRoom
      <3>. QED
        BY <3>1, <3>2
    <2>2. CASE i # n + 1
      <3>1. i \in 1..n /\ t[i] = s[i]
        BY <1>2, <2>2
      <3>2. /\ CallInOrder(s[i])
            /\ i < n => s[i].running \/ s[i].op = "remove dir"
            /\ s[i].op = "remove dir" => i < MaxCalls
        BY <1>1, <1>3, <3>1 DEF StackInOrder
      <3>3. i < n \/ (i = n /\ n > 0)
        BY <3>1
      <3>. QED
        BY <1>4, <3>1, <3>2, <3>3
    <2>. QED
      BY <2>1, <2>2
  <1>6. StackInOrder(t)
    BY <1>2, <1>3, <1>5 DEF StackInOrder
  <1>. QED
    BY <1>6 DEF t

LEMMA StackTop ==
    ASSUME calls \in Seq(Call), calls # << >>, StackInOrder(calls),
           NEW c \in Call, CallInOrder(c), c.op = calls[Len(calls)].op
    PROVE  StackInOrder(SetTop(c))
  <1>. DEFINE t == SetTop(c)
  <1>1. PICK n \in Nat \ {0} : n = Len(calls)
    OBVIOUS
  <1>2. /\ t \in Seq(Call) /\ Len(t) = n /\ t[n] = c
        /\ \A i \in 1..(n - 1) : t[i] = calls[i]
    BY <1>1, SetTopFacts
  <1>. HIDE DEF t
  <1>3. DOMAIN t = 1..n /\ DOMAIN calls = 1..n
    BY <1>1, <1>2
  <1>4. ASSUME NEW i \in 1..n
        PROVE  /\ CallInOrder(t[i])
               /\ i < n => t[i].running \/ t[i].op = "remove dir"
               /\ t[i].op = "remove dir" => i < MaxCalls
    <2>1. /\ CallInOrder(calls[i])
          /\ i < n => calls[i].running \/ calls[i].op = "remove dir"
          /\ calls[i].op = "remove dir" => i < MaxCalls
      BY <1>1, <1>3 DEF StackInOrder
    <2>2. CASE i = n
      <3>1. ~(i < n) /\ t[i] = c /\ c.op = calls[i].op
        BY <1>1, <1>2, <2>2
      <3>. QED
        BY <2>1, <3>1
    <2>3. CASE i # n
      <3>1. i \in 1..(n - 1)
        BY <2>3
      <3>. QED
        BY <1>2, <2>1, <3>1
    <2>. QED
      BY <2>2, <2>3
  <1>5. StackInOrder(t)
    BY <1>2, <1>3, <1>4 DEF StackInOrder
  <1>. QED
    BY <1>5 DEF t

\* When a hook runs, no removal has its first hook still to be told.
LEMMA NobodyJustRemoved ==
    ASSUME HooksInv, calls # << >> => calls[Len(calls)].running,
           NEW p \in Places, NEW i \in DOMAIN calls, calls[i].path = p
    PROVE  ~JustRemoved(calls[i])
  <1>1. calls \in Seq(Call) /\ calls # << >>
    BY DEF HooksInv, HooksTypeOK
  <1>2. CallIsRight(calls, i, p)
    BY DEF HooksInv, PlaceInOrder
  <1>. QED
    BY <1>1, <1>2 DEF CallIsRight

\* If the call on top runs a hook, an exception ends in it.
LEMMA NothingUnwound ==
    ASSUME NEW s \in Seq(Call), s # << >> => s[Len(s)].running
    PROVE  Unwound(s) = s
  <1>1. PICK k \in 0..Len(s) : /\ Unwound(s) = SubSeq(s, 1, k)
                               /\ \A i \in (k + 1)..Len(s) : ~s[i].running
    BY UnwoundFacts
  <1>2. k = Len(s)
    <2>1. CASE k < Len(s)
      <3>1. s # << >> /\ Len(s) \in (k + 1)..Len(s)
        BY <2>1
      <3>. QED
        BY <1>1, <3>1
    <2>. QED
      BY <1>1, <2>1
  <1>. QED
    BY <1>1, <1>2

-----------------------------------------------------------------------------
(* A write. *)

LEMMA CallsType ==
    ASSUME HooksInv
    PROVE  /\ calls \in Seq(Call) /\ fs \in Tree /\ WellFormed(fs) /\ Bare(fs) /\ Shape(fs)
           /\ store \in Store /\ StackInOrder(calls)
           /\ index \in [Path -> Seq(Data)]
           /\ MaxCalls \in Nat /\ WriteHooks \in Seq(Path) /\ PathHooks \in Seq(Path)
  BY HooksAssumption DEF HooksInv, HooksTypeOK

LEMMA HookNumbers ==
    /\ \A j \in DOMAIN WriteHooks : j \in Nat /\ j > 0
    /\ \A j \in DOMAIN PathHooks : j \in Nat /\ j > 0
  <1>1. WriteHooks \in Seq(Path) /\ PathHooks \in Seq(Path)
    BY HooksAssumption
  <1>. QED
    BY <1>1

LEMMA MayCallFacts ==
    ASSUME HooksInv, MayCall
    PROVE  /\ calls # << >> => calls[Len(calls)].running
           /\ TopCalls(calls) /\ Len(calls) + 1 <= MaxCalls
           /\ \A p \in Places : \A i \in DOMAIN calls :
                calls[i].path = p => ~JustRemoved(calls[i])
  <1>1. calls \in Seq(Call) /\ MaxCalls \in Nat
    BY CallsType
  <1>2. calls # << >> => calls[Len(calls)].running
    BY <1>1, FrontFacts DEF MayCall, HookRuns, Top
  <1>3. TopCalls(calls)
    BY <1>2 DEF TopCalls
  <1>4. Len(calls) + 1 <= MaxCalls
    BY <1>1 DEF MayCall
  <1>. QED
    BY <1>2, <1>3, <1>4, NobodyJustRemoved

\* The tree after a write of the file at p: with a new node, with a new text,
\* with a new text and version.
Placed(e, p, node) == [e EXCEPT ![p] = node]
Rewritten(e, p, d) == [e EXCEPT ![p].content = <<d>>]
Updated(e, p, d, n) == [e EXCEPT ![p].content = <<d>>, ![p].version = n]

LEMMA PlacedTree ==
    ASSUME NEW f \in Tree, WellFormed(f), Bare(f), Shape(f), NEW p \in Places,
           NEW node \in Node, node.kind = "file",
           NEW g, g = Placed(EnsureFile(f, p), p, node)
    PROVE  /\ g \in Tree /\ WellFormed(g) /\ Bare(g) /\ Shape(g)
           /\ g[p] = node /\ \A q \in Places \ {p} : g[q] = f[q]
  <1>. DEFINE e == EnsureFile(f, p)
  <1>1. /\ e \in Tree /\ WellFormed(e) /\ Bare(e) /\ Shape(e) /\ p \in Path
        /\ e[p] = IF IsFile(f, p) THEN f[p] ELSE NewFile
        /\ \A q \in Places \ {p} : e[q] = f[q]
    BY EnsurePlace, PlaceFacts
  <1>2. IsFile(e, p)
    BY <1>1, NodeFacts DEF IsFile
  <1>3. g = [e EXCEPT ![p] = node]
    BY DEF Placed
  <1>. HIDE DEF e
  <1>4. g \in Tree /\ g[p] = node /\ \A q \in Path \ {p} : g[q] = e[q]
    BY <1>1, <1>3 DEF Tree
  <1>5. \A q \in Path : g[q].kind = e[q].kind
    BY <1>2, <1>4 DEF IsFile
  <1>6. WellFormed(g)
    BY <1>1, <1>5, RootFacts DEF WellFormed, IsDir, Exists
  <1>7. Shape(g)
    BY <1>1, <1>5 DEF Shape, IsDir, IsFile
  <1>8. Bare(g)
    BY <1>1, <1>4, <1>5 DEF Bare, Exists
  <1>. QED
    BY <1>1, <1>4, <1>6, <1>7, <1>8, PlaceFacts

LEMMA WriteNodeFacts ==
    ASSUME NEW e \in Tree, NEW p \in Path, NEW d \in Data, NEW n \in Nat, IsFile(e, p)
    PROVE  \E node, other \in Node :
             /\ node.kind = "file" /\ node.content = <<d>>
             /\ Rewritten(e, p, d) = Placed(e, p, node)
             /\ other.kind = "file" /\ other.content = <<d>> /\ other.version = n
             /\ Updated(e, p, d, n) = Placed(e, p, other)
  <1>. DEFINE node == [e[p] EXCEPT !.content = <<d>>]
              other == [node EXCEPT !.version = n]
  <1>1. e[p] \in Node /\ e[p].kind = "file" /\ <<d>> \in Seq(Data)
    BY DEF Tree, IsFile
  <1>2. node \in Node /\ node.kind = "file" /\ node.content = <<d>>
    BY <1>1 DEF Node
  <1>3. Rewritten(e, p, d) = Placed(e, p, node)
    BY <1>1 DEF Rewritten, Placed
  <1>4. Updated(e, p, d, n) = Placed(e, p, other)
    BY <1>1 DEF Tree, Updated, Placed
  <1>. HIDE DEF node
  <1>5. other \in Node /\ other.kind = "file" /\ other.content = <<d>> /\ other.version = n
    BY <1>2 DEF Node
  <1>. QED
    BY <1>2, <1>3, <1>4, <1>5

LEMMA WrittenTree ==
    ASSUME NEW f \in Tree, WellFormed(f), Bare(f), Shape(f), NEW p \in Places,
           NEW d \in Data, NEW n \in Nat, IsFile(EnsureFile(f, p), p),
           NEW g, \/ g = Rewritten(EnsureFile(f, p), p, d)
                  \/ g = Updated(EnsureFile(f, p), p, d, n)
    PROVE  /\ g \in Tree /\ WellFormed(g) /\ Bare(g) /\ Shape(g)
           /\ IsFile(g, p) /\ g[p].content = <<d>>
           /\ g = Updated(EnsureFile(f, p), p, d, n) => g[p].version = n
           /\ \A q \in Places \ {p} : g[q] = f[q]
  <1>. DEFINE e == EnsureFile(f, p)
  <1>1. e \in Tree /\ p \in Path
    BY EnsurePlace, PlaceFacts
  <1>. HIDE DEF e
  <1>2. PICK node, other \in Node :
             /\ node.kind = "file" /\ node.content = <<d>>
             /\ Rewritten(e, p, d) = Placed(e, p, node)
             /\ other.kind = "file" /\ other.content = <<d>> /\ other.version = n
             /\ Updated(e, p, d, n) = Placed(e, p, other)
    BY <1>1, WriteNodeFacts DEF e
  <1>3. \E nd \in Node : /\ nd.kind = "file" /\ nd.content = <<d>> /\ g = Placed(e, p, nd)
                         /\ g = Updated(e, p, d, n) => nd.version = n
    <2>1. CASE g = Updated(e, p, d, n)
      BY <1>2, <2>1
    <2>2. CASE g # Updated(e, p, d, n)
      BY <1>2, <2>2 DEF e
    <2>. QED
      BY <2>1, <2>2
  <1>4. PICK nd \in Node : /\ nd.kind = "file" /\ nd.content = <<d>> /\ g = Placed(e, p, nd)
                           /\ g = Updated(e, p, d, n) => nd.version = n
    BY <1>3
  <1>5. /\ g \in Tree /\ WellFormed(g) /\ Bare(g) /\ Shape(g)
        /\ g[p] = nd /\ \A q \in Places \ {p} : g[q] = f[q]
    BY <1>4, PlacedTree DEF e
  <1>. QED
    BY <1>1, <1>4, <1>5 DEF IsFile, e

\* A write starts: the stack is as it was, but for stale events at p and
\* perhaps the new call on top.
WriteStack(p, t) ==
    /\ DOMAIN calls \subseteq DOMAIN t
    /\ \A i \in DOMAIN calls :
         /\ SameCall(calls[i], t[i]) /\ t[i].inTree = calls[i].inTree
         /\ calls[i].path = p /\ calls[i].stage = "path hooks" => t[i].stale
         /\ calls[i].path # p => t[i] = calls[i]
    /\ \A i \in DOMAIN t : i \in DOMAIN calls \/ (t[i].op = "write" /\ t[i].path = p)

LEMMA CrossedStack ==
    ASSUME calls \in Seq(Call), NEW p \in Places
    PROVE  /\ Crossed(calls, p) \in Seq(Call) /\ Len(Crossed(calls, p)) = Len(calls)
           /\ WriteStack(p, Crossed(calls, p)) /\ DOMAIN Crossed(calls, p) = DOMAIN calls
  <1>. DEFINE s == Crossed(calls, p)
  <1>1. s \in Seq(Call) /\ Len(s) = Len(calls)
    BY CrossedFacts
  <1>2. DOMAIN calls = 1..Len(calls) /\ DOMAIN s = DOMAIN calls
    BY <1>1
  <1>3. \A i \in DOMAIN calls :
             /\ SameCall(calls[i], s[i]) /\ s[i].inTree = calls[i].inTree
             /\ calls[i].path = p /\ calls[i].stage = "path hooks" => s[i].stale
             /\ calls[i].path # p => s[i] = calls[i]
    <2>. SUFFICES ASSUME NEW i \in 1..Len(calls)
                  PROVE  /\ SameCall(calls[i], s[i])
                         /\ s[i].inTree = calls[i].inTree
                         /\ calls[i].path = p /\ calls[i].stage = "path hooks" => s[i].stale
                         /\ calls[i].path # p => s[i] = calls[i]
      BY <1>2
    <2>. QED
      BY CrossedFacts
  <1>. HIDE DEF s
  <1>4. WriteStack(p, s)
    BY <1>2, <1>3 DEF WriteStack
  <1>. QED
    BY <1>1, <1>2, <1>4 DEF s

LEMMA PushedWriteStack ==
    ASSUME NEW p \in Places, NEW s \in Seq(Call), WriteStack(p, s), DOMAIN s = DOMAIN calls,
           NEW e \in Call, e.op = "write", e.path = p, NEW t, Pushed(s, e, t)
    PROVE  WriteStack(p, t)
  <1>1. PICK m : /\ t[m] = e /\ \A i \in DOMAIN s : t[i] = s[i]
                 /\ DOMAIN t = DOMAIN s \cup {m}
    BY DEF Pushed
  <1>. QED
    BY <1>1 DEF WriteStack

LEMMA WriteElsewhere ==
    ASSUME HooksInv, MayCall, NEW p \in Places, NEW t \in Seq(Call), calls' = t,
           WriteStack(p, t), NEW q \in Places \ {p}, fs'[q] = fs[q], Untouched(q)
    PROVE  PlaceInOrder(calls, q)' /\ RemovalsSee(calls, q)'
  <1>1. PICK n \in Nat : n = Len(calls)
    BY CallsType
  <1>2. calls \in Seq(Call) /\ DOMAIN calls = 1..n /\ 1..n \subseteq DOMAIN t
    <2>1. calls \in Seq(Call)
      BY CallsType
    <2>2. DOMAIN calls = 1..n
      BY <1>1, <2>1
    <2>3. DOMAIN calls \subseteq DOMAIN t
      BY DEF WriteStack
    <2>. QED
      BY <2>1, <2>2, <2>3
  <1>3. \A i \in 1..n : calls[i].path = q => t[i] = calls[i] /\ ~JustRemoved(calls[i])
    BY <1>1, <1>2, MayCallFacts DEF WriteStack
  <1>4. \A i \in DOMAIN t : t[i].path = q => i \in 1..n /\ calls[i].path = q
    BY <1>1, <1>2 DEF WriteStack, SameCall
  <1>5. \A c : AsBefore(c, c)
    BY DEF AsBefore
  <1>6. StackAsBefore(calls, t, q)
    BY <1>2, <1>3, <1>4, <1>5 DEF StackAsBefore
  <1>7. PlaceInOrder(calls, q) /\ RemovalsSee(calls, q)
    BY DEF HooksInv
  <1>8. PlaceInOrder(calls, q)'
    BY <1>2, <1>6, <1>7, UntouchedPlace
  <1>9. RemovalsSee(calls, q)'
    <2>1. \A i \in DOMAIN t : t[i].op = "remove dir" =>
             /\ i \in DOMAIN calls /\ calls[i].op = "remove dir"
             /\ calls[i].path = t[i].path /\ t[i].inTree = calls[i].inTree
             /\ t[i].rest = calls[i].rest
      BY <1>1, <1>2 DEF WriteStack, SameCall
    <2>2. IsFile(fs', q) => IsFile(fs, q)
      BY DEF IsFile
    <2>. QED
      BY <1>2, <1>7, <2>1, <2>2, SeenAsBefore DEF Untouched
  <1>. QED
    BY <1>8, <1>9

\* No recursive remove is above a file that counts as seen.
LEMMA WriteSeen ==
    ASSUME HooksInv, NEW p \in Places, NEW t \in Seq(Call), calls' = t, WriteStack(p, t),
           recreated' = IF InRemoval(p) THEN recreated \cup {p} ELSE recreated
    PROVE  RemovalsSee(calls, p)'
  <1>. SUFFICES ASSUME p \notin recreated', NEW i \in DOMAIN t,
                       t[i].op = "remove dir", StrictlyUnder(p, t[i].path)
                PROVE  FALSE
    BY DEF RemovalsSee
  <1>1. ~InRemoval(p)
    OBVIOUS
  <1>3. i \in DOMAIN calls /\ calls[i].op = "remove dir" /\ calls[i].path = t[i].path
    BY DEF WriteStack, SameCall
  <1>. QED
    BY <1>1, <1>3 DEF InRemoval

\* The new text of the file at p.
WrittenAs(p, d, n) ==
    /\ IsFile(fs, p) => n = fs[p].version
    /\ IsFile(fs', p) /\ fs'[p].content = <<d>> /\ fs'[p].version = n + 1
    /\ store'[p] = StoredEntry(<<d>>, n + 1) /\ index'[p] = <<d>>
    /\ recreated \subseteq recreated'
    /\ UNCHANGED <<copy, saved, astray, unsaved>>

\* What a write leaves at its own place, when it is accepted.
LEMMA WrittenPlace ==
    ASSUME HooksInv, MayCall, NEW p \in Places, NEW d \in Data, NEW n \in Nat,
           NEW s \in Seq(Call), NEW e \in Call, NEW t \in Seq(Call), calls' = t,
           WriteStack(p, s), DOMAIN s = DOMAIN calls, Pushed(s, e, t),
           EventOf(e, p, d, n), WrittenAs(p, d, n)
    PROVE  PlaceInOrder(calls, p)'
  <1>2. calls \in Seq(Call)
    BY CallsType
  <1>3. PICK m : /\ m = Len(t) /\ t[m] = e /\ \A i \in DOMAIN s : t[i] = s[i]
                 /\ DOMAIN t = DOMAIN s \cup {m}
    BY DEF Pushed
  <1>5. PlaceInOrder(calls, p)
    BY DEF HooksInv
  <1>6. Follows(p)'
    BY DEF Follows, IsFile, WrittenAs
  <1>7. ASSUME NEW i \in DOMAIN s, t[i].path = p
        PROVE  CallIsRight(t, i, p)'
    <2>1. /\ calls[i] \in Call /\ t[i] \in Call /\ i \in DOMAIN calls
          /\ SameCall(calls[i], t[i]) /\ t[i].inTree = calls[i].inTree
          /\ calls[i].path = p /\ calls[i].stage = "path hooks" => t[i].stale
      <3>1. i \in DOMAIN calls /\ i \in DOMAIN t /\ t[i] = s[i]
        BY <1>3
      <3>2. calls[i] \in Call /\ t[i] \in Call
        BY <1>2, <3>1
      <3>3. SameCall(calls[i], s[i])
        BY <3>1 DEF WriteStack
      <3>4. s[i].inTree = calls[i].inTree
        BY <3>1 DEF WriteStack
      <3>5. calls[i].path = p /\ calls[i].stage = "path hooks" => s[i].stale
        BY <3>1 DEF WriteStack
      <3>. QED
        BY <3>1, <3>2, <3>3, <3>4, <3>5
    <2>2. CallIsRight(calls, i, p) /\ ~JustRemoved(calls[i]) /\ calls[i].path = p
      BY <1>5, <1>7, <2>1, MayCallFacts DEF PlaceInOrder, SameCall
    <2>3. t[i].stage = "path hooks" => t[i].stale
      BY <2>1, <2>2 DEF SameCall
    <2>4. ~JustRemoved(t[i])
      BY <2>1, <2>2 DEF SameCall, JustRemoved
    <2>5. ASSUME t[i].stage = "write hooks", p \notin recreated' \cup unsaved'
          PROVE  t[i].version <= n /\ t[i].version \in Nat
      <3>1. calls[i].stage = "write hooks" /\ p \notin recreated \cup unsaved
            /\ t[i].version = calls[i].version
        BY <2>1, <2>5 DEF SameCall, WrittenAs
      <3>2. IsFile(fs, p) /\ calls[i].version <= fs[p].version
        BY <2>2, <3>1 DEF CallIsRight
      <3>. QED
        BY <2>1, <3>1, <3>2, CallFields DEF WrittenAs
    <2>6. ASSUME t[i].stage = "write hooks", p \notin recreated' \cup unsaved'
          PROVE  t[i].version <= fs'[p].version /\ t[i].version # fs'[p].version
      <3>1. PICK k \in Nat : k = t[i].version /\ k <= n
        BY <2>5, <2>6
      <3>2. k <= n + 1 /\ k # n + 1
        BY <3>1
      <3>. QED
        BY <3>1, <3>2 DEF WrittenAs
    <2>7. fs'[p].kind = "file"
      BY DEF WrittenAs, IsFile
    <2>. QED
      BY <2>3, <2>4, <2>6, <2>7, PlaceFacts DEF CallIsRight, IsFile
  <1>8. CallIsRight(t, m, p)'
    <2>1. /\ t[m].op = "write" /\ t[m].stage = "write hooks"
          /\ t[m].content = <<d>> /\ t[m].version = n + 1
      BY <1>3 DEF EventOf
    <2>2. /\ fs'[p].kind = "file" /\ p \in Path
          /\ fs'[p].content = <<d>> /\ fs'[p].version = n + 1
      BY DEF WrittenAs, IsFile
    <2>3. t[m].version <= fs'[p].version
      <3>1. n + 1 <= n + 1
        OBVIOUS
      <3>. QED
        BY <2>1, <2>2, <3>1
    <2>. QED
      BY <2>1, <2>2, <2>3 DEF CallIsRight, JustRemoved, IsFile
  <1>9. (\A i \in DOMAIN calls : calls[i].path = p => CallIsRight(calls, i, p))'
    BY <1>3, <1>7, <1>8
  <1>10. CopiesCome(calls, p)'
    BY <1>3 DEF CopiesCome, Tells, EventOf
  <1>11. SavedComes(calls, p)'
    <2>1. ASSUME FirstHears, p \notin recreated' \cup unsaved',
                 NEW j \in DOMAIN WriteHooks, Under(p, WriteHooks[j])
          PROVE  /\ saved[j][p].present => saved[j][p].version <= n
                 /\ saved[j][p].present => saved[j][p].version \in Nat
                 /\ Saves(e, j)
      <3>1. saved[j][p].present => saved[j][p].version \in Nat
        BY PlaceFacts DEF HooksInv, HooksTypeOK, Store, Entry
      <3>2. j > 0
        BY CallsType
      <3>3. Saves(e, j)
        BY <2>1, <3>2 DEF Saves, EventOf
      <3>4. p \notin recreated \cup unsaved
        BY <2>1 DEF WrittenAs
      <3>5. CASE IsFile(fs, p)
        <4>1. saved[j][p].present => saved[j][p].version <= fs[p].version
          BY <1>5, <2>1, <3>4, <3>5 DEF PlaceInOrder, SavedComes
        <4>2. fs[p].version = n
          BY <3>5 DEF WrittenAs
        <4>. QED
          BY <3>1, <3>3, <4>1, <4>2
      <3>6. CASE ~IsFile(fs, p)
        <4>1. saved[j][p] = NoEntry
          BY <1>5, <2>1, <3>4, <3>6, MayCallFacts DEF PlaceInOrder, SavedComes
        <4>. QED
          BY <3>1, <3>3, <4>1 DEF NoEntry
      <3>. QED
        BY <3>1, <3>3, <3>5, <3>6
    <2>2. ASSUME FirstHears, p \notin recreated' \cup unsaved',
                 NEW j \in DOMAIN WriteHooks, Under(p, WriteHooks[j])
          PROVE  /\ saved'[j][p].present =>
                      /\ saved'[j][p].version <= fs'[p].version
                      /\ saved'[j][p].version # fs'[p].version
                 /\ t[m].path = p /\ Saves(t[m], j) /\ t[m].version = fs'[p].version
      <3>1. /\ saved[j][p].present => saved[j][p].version <= n
            /\ saved[j][p].present => saved[j][p].version \in Nat
            /\ Saves(e, j)
        BY <2>1, <2>2
      <3>2. saved[j][p].present =>
              saved[j][p].version <= n + 1 /\ saved[j][p].version # n + 1
        BY <3>1
      <3>. QED
        BY <1>3, <3>1, <3>2 DEF WrittenAs, EventOf
    <2>. QED
      BY <1>3, <2>2 DEF SavedComes, IsFile, WrittenAs
  <1>. QED
    BY <1>6, <1>9, <1>10, <1>11 DEF PlaceInOrder

LEMMA StoreFacts ==
    ASSUME NEW st \in Store, NEW p \in Path, NEW content \in Seq(Data), NEW v \in Nat
    PROVE  /\ AdapterWrite(st, p, content, v) \in Store
           /\ AdapterWrite(st, p, content, v)[p] = StoredEntry(content, v + 1)
           /\ \A q \in Path \ {p} : AdapterWrite(st, p, content, v)[q] = st[q]
  <1>1. StoredEntry(content, v + 1) \in Entry
    BY DEF StoredEntry, Entry
  <1>. QED
    BY <1>1 DEF AdapterWrite, Store

LEMMA DeleteFacts ==
    ASSUME NEW st \in Store, NEW p \in Path
    PROVE  /\ AdapterDelete(st, {p}) \in Store
           /\ AdapterDelete(st, {p})[p] = NoEntry
           /\ \A q \in Path \ {p} : AdapterDelete(st, {p})[q] = st[q]
  <1>1. NoEntry \in Entry
    BY EmptySeq DEF NoEntry, Entry
  <1>. QED
    BY <1>1 DEF AdapterDelete, Store

\* The old version of a file, and the same file when it has new text.
LEMMA WriteFileNode ==
    ASSUME HooksInv, NEW p \in Places
    PROVE  /\ EnsureFile(fs, p) \in Tree /\ IsFile(EnsureFile(fs, p), p)
           /\ EnsureFile(fs, p)[p].version \in Nat
           /\ IsFile(fs, p) => EnsureFile(fs, p)[p] = fs[p]
           /\ ~IsFile(fs, p) => EnsureFile(fs, p)[p].version = 0
  <1>1. /\ EnsureFile(fs, p) \in Tree /\ p \in Path
        /\ EnsureFile(fs, p)[p] = IF IsFile(fs, p) THEN fs[p] ELSE NewFile
    BY CallsType, EnsurePlace, PlaceFacts
  <1>2. EnsureFile(fs, p)[p] \in Node
    BY <1>1 DEF Tree
  <1>3. NewFile.version = 0
    BY DEF NewFile, FileNode
  <1>. QED
    BY <1>1, <1>2, <1>3, NodeFacts DEF IsFile, Node

\* Only a file that was written below a directory under removal is refused.
LEMMA RefusedIsRecreated ==
    ASSUME HooksInv, NEW p \in Places,
           ~Accepts(store, p, EnsureFile(fs, p)[p].version)
    PROVE  p \in recreated
  <1>. SUFFICES ASSUME p \notin recreated
                PROVE  FALSE
    OBVIOUS
  <1>1. store[p] = IF IsFile(fs, p)
                   THEN StoredEntry(fs[p].content, fs[p].version) ELSE NoEntry
    BY DEF HooksInv, PlaceInOrder, Follows
  <1>. QED
    BY <1>1, WriteFileNode DEF Accepts, StoredEntry, NoEntry

\* The two outcomes of a write.
Refused(p, d) ==
    /\ ~Accepts(store, p, EnsureFile(fs, p)[p].version)
    /\ fs' = Rewritten(EnsureFile(fs, p), p, d)
    /\ calls' = Unwound(Crossed(calls, p))
    /\ recreated' = IF InRemoval(p) THEN recreated \cup {p} ELSE recreated
    /\ UNCHANGED <<index, store, copy, saved, astray, unsaved>>

Accepted(p, d) ==
    LET version == EnsureFile(fs, p)[p].version
    IN  /\ fs' = Updated(EnsureFile(fs, p), p, d, version + 1)
        /\ store' = AdapterWrite(store, p, <<d>>, version)
        /\ index' = [index EXCEPT ![p] = <<d>>]
        /\ calls' = Append(Crossed(calls, p), EventOfWrite(p, d, version))
        /\ recreated' = IF InRemoval(p) THEN recreated \cup {p} ELSE recreated
        /\ UNCHANGED <<copy, saved, astray, unsaved>>

LEMMA WriteOutcomes ==
    ASSUME NEW p, NEW d, WriteFile(p, d)
    PROVE  MayCall /\ (Refused(p, d) \/ Accepted(p, d))
  BY DEF WriteFile, Refused, Accepted, Rewritten, Updated

\* The exception of a write that is refused ends in the hook that wrote.
LEMMA RefusedStack ==
    ASSUME HooksInv, MayCall, NEW p \in Places, NEW d, Refused(p, d)
    PROVE  calls' = Crossed(calls, p)
  <1>. PICK t : t = Crossed(calls, p)
    OBVIOUS
  <1>1. calls \in Seq(Call) /\ (calls # << >> => calls[Len(calls)].running)
    BY CallsType, MayCallFacts
  <1>2. /\ t \in Seq(Call) /\ Len(t) = Len(calls) /\ WriteStack(p, t)
    BY <1>1, CrossedStack
  <1>3. calls' = t
    <2>1. t # << >> => t[Len(t)].running
      <3>. SUFFICES ASSUME t # << >>
                    PROVE  t[Len(t)].running
        OBVIOUS
      <3>1. calls # << >> /\ Len(calls) \in DOMAIN calls
        BY <1>1, <1>2
      <3>2. SameCall(calls[Len(calls)], t[Len(calls)])
        BY <1>2, <3>1 DEF WriteStack
      <3>. QED
        BY <1>1, <1>2, <3>1, <3>2 DEF SameCall
    <2>. QED
      BY <1>2, <2>1, NothingUnwound DEF Refused
  <1>. QED
    BY <1>3

LEMMA WriteRefused ==
    ASSUME HooksInv, MayCall, NEW p \in Places, NEW d \in Data, Refused(p, d)
    PROVE  HooksInv'
  <1>. PICK t : t = Crossed(calls, p)
    OBVIOUS
  <1>1. /\ calls \in Seq(Call) /\ TopCalls(calls) /\ Len(calls) <= MaxCalls
        /\ calls # << >> => calls[Len(calls)].running
    BY CallsType, MayCallFacts DEF HooksInv, HooksTypeOK
  <1>2. /\ t \in Seq(Call) /\ Len(t) = Len(calls) /\ WriteStack(p, t)
    BY <1>1, CrossedStack
  <1>3. calls' = t
    BY RefusedStack
  <1>4. p \in recreated /\ p \in recreated' /\ recreated' = recreated
    BY RefusedIsRecreated DEF Refused
  <1>5. IsFile(EnsureFile(fs, p), p) /\ 0 \in Nat /\ p \in Path
    BY WriteFileNode, PlaceFacts
  <1>6. /\ fs' \in Tree /\ WellFormed(fs') /\ Bare(fs') /\ Shape(fs')
        /\ IsFile(fs', p) /\ \A q \in Places \ {p} : fs'[q] = fs[q]
    <2>1. fs \in Tree /\ WellFormed(fs) /\ Bare(fs) /\ Shape(fs)
      BY CallsType
    <2>2. fs' = Rewritten(EnsureFile(fs, p), p, d)
      BY DEF Refused
    <2>. QED
      BY <1>5, <2>1, <2>2, WrittenTree
  <1>7. StackInOrder(t)
    BY <1>1, <1>2, CallsType, CrossedFacts, StackSame
  <1>8. HooksTypeOK'
    BY <1>1, <1>2, <1>3, <1>4, <1>6 
       DEF HooksInv, HooksTypeOK, Refused
  <1>9. ASSUME NEW q \in Places \ {p}
        PROVE  PlaceInOrder(calls, q)' /\ RemovalsSee(calls, q)'
    BY <1>2, <1>3, <1>4, <1>6, WriteElsewhere DEF Untouched, Refused
  <1>10. PlaceInOrder(calls, p)'
    <2>1. ASSUME NEW i \in DOMAIN t, t[i].path = p
          PROVE  CallIsRight(t, i, p)'
      <3>1. i \in DOMAIN calls /\ SameCall(calls[i], t[i])
        <4>1. DOMAIN t = 1..Len(calls) /\ DOMAIN calls = 1..Len(calls)
          BY <1>1, <1>2
        <4>. QED
          BY <1>2, <2>1, <4>1 DEF WriteStack
      <3>2. ~JustRemoved(t[i])
        <4>1. calls[i].path = p
          BY <2>1, <3>1 DEF SameCall
        <4>. QED
          BY <3>1, <4>1, MayCallFacts DEF SameCall, JustRemoved
      <3>. QED
        <4>1. fs'[p].kind = "file" /\ p \in Path
          BY <1>5, <1>6 DEF IsFile
        <4>2. p \in recreated'
          BY <1>4
        <4>3. (IsFile(fs, p))'
          BY <4>1 DEF IsFile
        <4>. QED
          BY <3>2, <4>2, <4>3 DEF CallIsRight
    <2>. QED
      <3>1. (\A i \in DOMAIN calls : calls[i].path = p => CallIsRight(calls, i, p))'
        BY <1>3, <2>1
      <3>. QED
        BY <1>4, <3>1 DEF PlaceInOrder, Follows, CopiesCome, SavedComes
  <1>11. RemovalsSee(calls, p)'
    BY <1>4 DEF RemovalsSee
  <1>. QED
    BY <1>3, <1>6, <1>7, <1>8, <1>9, <1>10, <1>11
       DEF HooksInv, Shape, Bare, IsDir, IsFile, Exists

LEMMA WriteAccepted ==
    ASSUME HooksInv, MayCall, NEW p \in Places, NEW d \in Data, Accepted(p, d)
    PROVE  HooksInv'
  <1>1. PICK n : n = EnsureFile(fs, p)[p].version
    OBVIOUS
  <1>2. PICK s : s = Crossed(calls, p)
    OBVIOUS
  <1>3. PICK e : e = EventOfWrite(p, d, n)
    OBVIOUS
  <1>4. PICK t : t = Append(s, e)
    OBVIOUS
  <1>5. n \in Nat /\ p \in Path /\ (IsFile(fs, p) => n = fs[p].version)
        /\ IsFile(EnsureFile(fs, p), p) /\ n + 1 \in Nat /\ <<d>> \in Seq(Data)
    BY <1>1, WriteFileNode, PlaceFacts
  <1>6. /\ fs' = Updated(EnsureFile(fs, p), p, d, n + 1)
        /\ store' = AdapterWrite(store, p, <<d>>, n)
        /\ index' = [index EXCEPT ![p] = <<d>>]
        /\ calls' = t
        /\ recreated' = IF InRemoval(p) THEN recreated \cup {p} ELSE recreated
        /\ UNCHANGED <<copy, saved, astray, unsaved>>
    BY <1>1, <1>2, <1>3, <1>4 DEF Accepted
  <1>7. /\ calls \in Seq(Call) /\ TopCalls(calls) /\ Len(calls) + 1 <= MaxCalls
        /\ StackInOrder(calls) /\ store \in Store /\ index \in [Path -> Seq(Data)]
    BY CallsType, MayCallFacts
  <1>8. e \in Call /\ EventOf(e, p, d, n) /\ CallInOrder(e) /\ LeavesRoom(s, e)
    <2>1. /\ e \in Call /\ e.op = "write" /\ e.path = p /\ e.event \in {"create", "update"}
          /\ e.stage = "write hooks" /\ e.hook = 0 /\ e.rest = {}
          /\ e.content = <<d>> /\ e.version = n + 1
      <3>1. p \in Path /\ n \in Nat
        BY <1>5
      <3>2. e \in Call /\ EventOf(e, p, d, n) /\ NewWrite(e)
        BY <1>3, <3>1, EventOfWriteFacts
      <3>. QED
        BY <3>2 DEF EventOf, NewWrite
    <2>. QED
      BY <2>1 DEF EventOf, CallInOrder, LeavesRoom
  <1>9. /\ s \in Seq(Call) /\ Len(s) = Len(calls) /\ WriteStack(p, s)
        /\ DOMAIN s = DOMAIN calls
    BY <1>2, <1>7, CrossedStack
  <1>10. t \in Seq(Call) /\ Pushed(s, e, t) /\ WriteStack(p, t)
    <2>1. t \in Seq(Call) /\ Pushed(s, e, t)
      BY <1>4, <1>8, <1>9, PushedFacts
    <2>. QED
      BY <1>8, <1>9, <2>1, PushedWriteStack DEF EventOf
  <1>11. StackInOrder(t)
    <2>1. StackInOrder(s)
      BY <1>2, <1>7, <1>9, CrossedFacts, StackSame
    <2>2. TopCalls(s)
      <3>. SUFFICES ASSUME s # << >>
                    PROVE  s[Len(s)].running \/ s[Len(s)].op = "remove dir"
        BY DEF TopCalls
      <3>1. calls # << >> /\ Len(calls) \in DOMAIN calls
        BY <1>7, <1>9
      <3>2. SameCall(calls[Len(calls)], s[Len(calls)])
        BY <1>9, <3>1 DEF WriteStack
      <3>. QED
        BY <1>7, <1>9, <3>1, <3>2 DEF SameCall, TopCalls
    <2>. QED
      BY <1>4, <1>8, <1>9, <2>1, <2>2, StackPush
  <1>12. /\ fs' \in Tree /\ WellFormed(fs') /\ Bare(fs') /\ Shape(fs')
         /\ IsFile(fs', p) /\ fs'[p].content = <<d>> /\ fs'[p].version = n + 1
         /\ \A q \in Places \ {p} : fs'[q] = fs[q]
    <2>1. fs \in Tree /\ WellFormed(fs) /\ Bare(fs) /\ Shape(fs)
      BY CallsType
    <2>2. fs' = Updated(EnsureFile(fs, p), p, d, n + 1)
      BY <1>6
    <2>. QED
      BY <1>5, <2>1, <2>2, WrittenTree
  <1>13. /\ store' \in Store /\ store'[p] = StoredEntry(<<d>>, n + 1)
         /\ \A q \in Path \ {p} : store'[q] = store[q]
    <2>1. /\ AdapterWrite(store, p, <<d>>, n) \in Store
          /\ AdapterWrite(store, p, <<d>>, n)[p] = StoredEntry(<<d>>, n + 1)
          /\ \A q \in Path \ {p} : AdapterWrite(store, p, <<d>>, n)[q] = store[q]
      <3>1. p \in Path /\ n \in Nat /\ <<d>> \in Seq(Data) /\ store \in Store
        BY <1>5, <1>7
      <3>. QED
        BY <3>1, StoreFacts
    <2>2. store' = AdapterWrite(store, p, <<d>>, n)
      BY <1>6
    <2>. QED
      BY <2>1, <2>2
  <1>14. /\ index' \in [Path -> Seq(Data)] /\ index'[p] = <<d>>
         /\ \A q \in Path \ {p} : index'[q] = index[q]
    BY <1>5, <1>6, <1>7
  <1>15. HooksTypeOK'
    <2>1. Len(t) <= MaxCalls
      BY <1>7, <1>9, <1>10 DEF Pushed
    <2>2. recreated' \subseteq Places
      BY <1>6 DEF HooksInv, HooksTypeOK
    <2>. QED
      BY <1>6, <1>10, <1>12, <1>13, <1>14, <2>1, <2>2
         DEF HooksInv, HooksTypeOK, WellFormed, Exists, IsDir
  <1>16. ASSUME NEW q \in Places \ {p}
         PROVE  PlaceInOrder(calls, q)' /\ RemovalsSee(calls, q)'
    <2>1. Untouched(q)
      <3>1. q \in Path \ {p}
        BY PlaceFacts
      <3>2. q \in recreated' <=> q \in recreated
        BY <1>6
      <3>. QED
        BY <1>6, <1>13, <1>14, <3>1, <3>2 DEF Untouched
    <2>. QED
      BY <1>6, <1>10, <1>12, <2>1, WriteElsewhere
  <1>17. PlaceInOrder(calls, p)'
    <2>1. WrittenAs(p, d, n)
      BY <1>5, <1>6, <1>12, <1>13, <1>14 DEF WrittenAs
    <2>. QED
      BY <1>5, <1>6, <1>8, <1>9, <1>10, <2>1, WrittenPlace
  <1>18. RemovalsSee(calls, p)'
    BY <1>6, <1>10, WriteSeen
  <1>. QED
    BY <1>6, <1>11, <1>12, <1>15, <1>16, <1>17, <1>18
       DEF HooksInv, Shape, Bare, IsDir, IsFile, Exists

LEMMA WriteKeeps ==
    ASSUME HooksInv, NEW p \in Places, NEW d \in Data, WriteFile(p, d)
    PROVE  HooksInv'
  BY WriteOutcomes, WriteRefused, WriteAccepted

-----------------------------------------------------------------------------
(* A removal. *)

\* The calls under way when the node at q is to be removed: s differs from
\* calls when it is a recursive remove that removes its child q.
Removing(s, q) ==
    /\ s \in Seq(Call) /\ StackInOrder(s) /\ TopCalls(s) /\ Len(s) + 1 <= MaxCalls
    /\ \A p \in Places :
         /\ PlaceInOrder(s, p)
         /\ \A i \in DOMAIN s : s[i].path = p => ~JustRemoved(s[i])
         /\ p = q \/ RemovalsSee(s, p)
    /\ \A i \in DOMAIN s : s[i].path = q /\ s[i].stage = "write hooks" => SavingWrite(q)

\* No recursive remove is at a place.
LEMMA RemovesOfDirs ==
    ASSUME NEW s, StackInOrder(s), NEW p \in Places, NEW i \in DOMAIN s,
           s[i].op = "remove dir"
    PROVE  s[i].path # p
  <1>1. \E q \in Places : StrictlyUnder(q, s[i].path)
    BY DEF StackInOrder, CallInOrder
  <1>. QED
    BY <1>1, PlaceFacts DEF StrictlyUnder

\* An exception ends recursive removes only, if the call on top is one of them.
LEMMA UnwoundRemoves ==
    ASSUME NEW s \in Seq(Call), StackInOrder(s), TopCalls(s)
    PROVE  \E k \in 0..Len(s) :
             /\ Unwound(s) = SubSeq(s, 1, k)
             /\ \A i \in (k + 1)..Len(s) : s[i].op = "remove dir"
  <1>1. PICK k \in 0..Len(s) : /\ Unwound(s) = SubSeq(s, 1, k)
                               /\ \A i \in (k + 1)..Len(s) : ~s[i].running
    BY UnwoundFacts
  <1>2. PICK n \in Nat : n = Len(s)
    OBVIOUS
  <1>3. DOMAIN s = 1..n
    BY <1>2
  <1>4. n > 0 => s[n].running \/ s[n].op = "remove dir"
    <2>1. n > 0 => s # << >>
      BY <1>2
    <2>. QED
      BY <1>2, <2>1 DEF TopCalls
  <1>5. ASSUME NEW i \in (k + 1)..n
        PROVE  s[i].op = "remove dir"
    <2>1. i \in 1..n /\ (i < n \/ (i = n /\ n > 0))
      BY <1>2
    <2>2. ~s[i].running
      BY <1>1, <1>2
    <2>3. i < n => s[i].running \/ s[i].op = "remove dir"
      BY <1>2, <1>3, <2>1 DEF StackInOrder
    <2>. QED
      BY <1>4, <2>1, <2>2, <2>3
  <1>. QED
    BY <1>1, <1>2, <1>5

UnchangedButCalls == UNCHANGED <<fs, index, store, copy, saved, recreated, astray, unsaved>>

\* The stack t is s without recursive removes on top.
WithoutRemoves(s, t) ==
    /\ \A i \in DOMAIN t : i \in DOMAIN s /\ t[i] = s[i]
    /\ \A i \in DOMAIN s : i \in DOMAIN t \/ s[i].op = "remove dir"

LEMMA UnwoundStack ==
    ASSUME NEW s \in Seq(Call), StackInOrder(s), TopCalls(s)
    PROVE  /\ Unwound(s) \in Seq(Call) /\ Len(Unwound(s)) <= Len(s)
           /\ StackInOrder(Unwound(s)) /\ WithoutRemoves(s, Unwound(s))
  <1>1. PICK k \in 0..Len(s) :
             /\ Unwound(s) = SubSeq(s, 1, k)
             /\ \A i \in (k + 1)..Len(s) : s[i].op = "remove dir"
    BY UnwoundRemoves
  <1>2. PICK t : t = SubSeq(s, 1, k)
    OBVIOUS
  <1>3. t \in Seq(Call) /\ Len(t) = k /\ \A i \in 1..k : t[i] = s[i]
    BY <1>2, CutFacts
  <1>4. PICK n \in Nat : n = Len(s)
    OBVIOUS
  <1>5. DOMAIN t = 1..k /\ DOMAIN s = 1..n /\ 1..k \subseteq 1..n
    BY <1>3, <1>4
  <1>6. \A i \in 1..n : i \in 1..k \/ i \in (k + 1)..n
    BY <1>4
  <1>7. WithoutRemoves(s, t)
    BY <1>1, <1>3, <1>4, <1>5, <1>6 DEF WithoutRemoves
  <1>8. StackInOrder(t)
    BY <1>2, StackCut
  <1>9. Len(t) <= Len(s)
    BY <1>3, <1>4
  <1>10. Unwound(s) = t
    BY <1>1, <1>2
  <1>. QED
    BY <1>3, <1>7, <1>8, <1>9, <1>10

LEMMA CutPlace ==
    ASSUME NEW s \in Seq(Call), StackInOrder(s), NEW t \in Seq(Call),
           WithoutRemoves(s, t), calls' = t, UnchangedButCalls,
           NEW p \in Places, PlaceInOrder(s, p), RemovalsSee(s, p),
           \A i \in DOMAIN s : s[i].path = p => ~JustRemoved(s[i])
    PROVE  PlaceInOrder(calls, p)' /\ RemovalsSee(calls, p)'
  <1>1. \A i \in DOMAIN t : i \in DOMAIN s /\ t[i] = s[i]
    BY DEF WithoutRemoves
  <1>2. \A i \in DOMAIN s : s[i].path = p => i \in DOMAIN t /\ t[i] = s[i]
    BY <1>1, RemovesOfDirs DEF WithoutRemoves
  <1>3. \A c : AsBefore(c, c)
    BY DEF AsBefore
  <1>4. StackAsBefore(s, t, p)
    BY <1>1, <1>2, <1>3 DEF StackAsBefore
  <1>5. Untouched(p) /\ fs'[p] = fs[p]
    BY DEF UnchangedButCalls, Untouched
  <1>6. PlaceInOrder(calls, p)'
    BY <1>4, <1>5, UntouchedPlace
  <1>7. RemovalsSee(calls, p)'
    <2>1. recreated' = recreated /\ fs' = fs
      BY DEF UnchangedButCalls
    <2>. QED
      BY <1>1, <2>1, SeenAsBefore
  <1>. QED
    BY <1>6, <1>7

\* The removal ends with an exception: there is no node at q.
LEMMA RemovalFails ==
    ASSUME HooksInv, NEW s, NEW q \in Path, Removing(s, q), ~Exists(fs, q),
           calls' = Unwound(s), UnchangedButCalls
    PROVE  HooksInv'
  <1>1. s \in Seq(Call) /\ StackInOrder(s) /\ TopCalls(s) /\ Len(s) + 1 <= MaxCalls
    BY DEF Removing
  <1>2. PICK t : t = Unwound(s)
    OBVIOUS
  <1>3. /\ t \in Seq(Call) /\ Len(t) <= Len(s) /\ calls' = t
        /\ StackInOrder(t) /\ WithoutRemoves(s, t)
    BY <1>1, <1>2, UnwoundStack
  <1>4. Len(t) <= MaxCalls
    <2>1. Len(t) \in Nat /\ Len(s) \in Nat /\ MaxCalls \in Nat
      BY <1>1, <1>3, CallsType
    <2>. QED
      BY <1>1, <1>3, <2>1
  <1>5. HooksTypeOK'
    BY <1>3, <1>4 DEF HooksInv, HooksTypeOK, UnchangedButCalls, WellFormed, Exists, IsDir
  <1>6. ASSUME NEW p \in Places
        PROVE  PlaceInOrder(calls, p)' /\ RemovalsSee(calls, p)'
    <2>1. /\ PlaceInOrder(s, p)
          /\ \A i \in DOMAIN s : s[i].path = p => ~JustRemoved(s[i])
          /\ p = q \/ RemovalsSee(s, p)
      BY DEF Removing
    <2>2. RemovalsSee(s, p)
      BY <2>1 DEF RemovalsSee, IsFile, Exists
    <2>. QED
      BY <1>1, <1>3, <2>1, <2>2, CutPlace
  <1>. QED
    BY <1>3, <1>5, <1>6
       DEF HooksInv, UnchangedButCalls, Shape, Bare, IsDir, IsFile, Exists

\* A recursive removal starts.
LEMMA RemovalOfDir ==
    ASSUME HooksInv, NEW s, NEW q \in Path, q # Root, Removing(s, q), IsDir(fs, q),
           NEW e, e = DirRemoval(q, ToVisit(fs, q)),
           LeavesRoom(s, e), calls' = Append(s, e), UnchangedButCalls
    PROVE  HooksInv'
  <1>1. s \in Seq(Call) /\ StackInOrder(s) /\ TopCalls(s) /\ Len(s) + 1 <= MaxCalls
    BY DEF Removing
  <1>2. fs \in Tree /\ Shape(fs)
    BY CallsType
  <1>3. /\ e \in Call /\ e.op = "remove dir" /\ e.path = q /\ e.stage = "children"
        /\ ~e.running /\ e.inTree /\ e.rest = ToVisit(fs, q)
    <2>1. ToVisit(fs, q) \in SUBSET Path
      BY DEF ToVisit, Children
    <2>2. e \in Call /\ IsDirRemoval(e, q, ToVisit(fs, q))
      BY <2>1, RemoveDirFacts
    <2>. QED
      BY <2>2 DEF IsDirRemoval
  <1>4. CallInOrder(e)
    <2>1. \E p \in Places : StrictlyUnder(p, q)
      BY <1>2 DEF Shape
    <2>2. \A r \in ToVisit(fs, q) : r # Root /\ Parent(r) = q
      BY DEF ToVisit, Children
    <2>. QED
      BY <1>3, <2>1, <2>2 DEF CallInOrder
  <1>5. PICK t : t = Append(s, e)
    OBVIOUS
  <1>6. t \in Seq(Call) /\ Pushed(s, e, t) /\ StackInOrder(t) /\ calls' = t
    BY <1>1, <1>3, <1>4, <1>5, PushedFacts, StackPush
  <1>7. PICK m : /\ m = Len(t) /\ t[m] = e /\ \A i \in DOMAIN s : t[i] = s[i]
                 /\ DOMAIN t = DOMAIN s \cup {m}
    BY <1>6 DEF Pushed
  <1>8. HooksTypeOK'
    <2>1. Len(t) <= MaxCalls
      BY <1>1, <1>6 DEF Pushed
    <2>. QED
      BY <1>6, <2>1 DEF HooksInv, HooksTypeOK, UnchangedButCalls, WellFormed, Exists, IsDir
  <1>9. ASSUME NEW p \in Places
        PROVE  PlaceInOrder(calls, p)' /\ RemovalsSee(calls, p)'
    <2>1. q # p
      BY <1>2, PlaceIsNoDir
    <2>2. /\ PlaceInOrder(s, p) /\ RemovalsSee(s, p)
          /\ \A i \in DOMAIN s : s[i].path = p => ~JustRemoved(s[i])
      BY <2>1 DEF Removing
    <2>3. \A c : AsBefore(c, c)
      BY DEF AsBefore
    <2>4. StackAsBefore(s, t, p)
      BY <1>3, <1>7, <2>1, <2>2, <2>3 DEF StackAsBefore
    <2>5. Untouched(p) /\ fs'[p] = fs[p] /\ recreated' = recreated /\ fs' = fs
      BY DEF UnchangedButCalls, Untouched
    <2>6. PlaceInOrder(calls, p)'
      BY <1>1, <1>6, <2>2, <2>4, <2>5, UntouchedPlace
    <2>7. ASSUME IsFile(fs, p), StrictlyUnder(p, q)
          PROVE  e.inTree /\ p \in e.rest
      <3>1. p \in Path /\ p # Root
        BY PlaceFacts
      <3>2. Parent(p) = q
        BY <1>2, <2>7, DirFacts
      <3>. QED
        BY <1>3, <2>7, <3>1, <3>2 DEF ToVisit, Children, IsFile, Exists
    <2>8. RemovalsSee(calls, p)'
      <3>. SUFFICES ASSUME p \notin recreated', IsFile(fs', p), NEW i \in DOMAIN t,
                           t[i].op = "remove dir", StrictlyUnder(p, t[i].path)
                    PROVE  t[i].inTree /\ p \in t[i].rest
        BY <1>6 DEF RemovalsSee, IsFile
      <3>1. CASE i \in DOMAIN s
        BY <1>7, <2>2, <2>5, <3>1 DEF RemovalsSee
      <3>2. CASE i = m
        BY <1>3, <1>7, <2>5, <2>7, <3>2
      <3>. QED
        BY <1>7, <3>1, <3>2
    <2>. QED
      BY <2>6, <2>8
  <1>. QED
    BY <1>6, <1>8, <1>9
       DEF HooksInv, UnchangedButCalls, Shape, Bare, IsDir, IsFile, Exists

\* The stack t after the file at q was removed from below the calls s.
RemovedStack(s, q, t) ==
    LET taken == OrphanedCalls(Crossed(s, q), q)
    IN  t = Append(taken, NewCall("remove", q, "delete", "path hooks"))

\* d is what becomes of the call c when the file at q is removed.
Taken(c, d, q) ==
    /\ SameCall(c, d)
    /\ d.inTree => c.inTree
    /\ d.inTree /\ c.stage # "path hooks" => ~Under(c.path, q)
    /\ c.path = q /\ c.stage = "path hooks" => d.stale
    /\ ~Under(c.path, q) => d = c

LEMMA RemovedStackFacts ==
    ASSUME fs \in Tree, NEW s \in Seq(Call), StackInOrder(s), TopCalls(s),
           NEW q \in Places, NEW t, RemovedStack(s, q, t)
    PROVE  /\ t \in Seq(Call) /\ StackInOrder(t) /\ Len(t) = Len(s) + 1
           /\ DOMAIN t = DOMAIN s \cup {Len(t)}
           /\ t[Len(t)] = NewCall("remove", q, "delete", "path hooks")
           /\ \A i \in DOMAIN s : Taken(s[i], t[i], q)
  <1>1. PICK c : c = Crossed(s, q)
    OBVIOUS
  <1>2. PICK o : o = OrphanedCalls(c, q)
    OBVIOUS
  <1>3. PICK e : e = NewCall("remove", q, "delete", "path hooks")
    OBVIOUS
  <1>4. PICK n \in Nat : n = Len(s)
    OBVIOUS
  <1>5. q \in Path /\ DOMAIN s = 1..n
    BY <1>4, PlaceFacts
  <1>6. /\ c \in Seq(Call) /\ Len(c) = n
    BY <1>1, <1>4, CrossedFacts
  <1>7. /\ o \in Seq(Call) /\ Len(o) = n
    BY <1>2, <1>5, <1>6, OrphanedCallsFacts
  <1>8. DOMAIN c = 1..n /\ DOMAIN o = 1..n
    BY <1>6, <1>7
  <1>9. e \in Call /\ IsFileRemoval(e, q)
    BY <1>3, <1>5, RemoveFileFacts
  <1>10. t = Append(o, e)
    BY <1>1, <1>2, <1>3 DEF RemovedStack
  <1>11. t \in Seq(Call) /\ Pushed(o, e, t)
    BY <1>7, <1>9, <1>10, PushedFacts
  <1>12. ASSUME NEW i \in DOMAIN s
         PROVE  SameCall(s[i], o[i]) /\ Taken(s[i], o[i], q)
    <2>1. i \in 1..Len(s) /\ i \in 1..Len(c)
      BY <1>4, <1>5, <1>6
    <2>2. /\ SameCall(s[i], c[i])
          /\ c[i].inTree = s[i].inTree
          /\ s[i].path = q /\ s[i].stage = "path hooks" => c[i].stale
          /\ s[i].path # q \/ s[i].stage # "path hooks" => c[i] = s[i]
      BY <1>1, <2>1, CrossedFacts
    <2>3. /\ SameCall(c[i], o[i])
          /\ o[i].stale = c[i].stale
          /\ o[i].inTree => c[i].inTree
          /\ o[i].inTree /\ c[i].stage # "path hooks" => ~Under(c[i].path, q)
          /\ ~Under(c[i].path, q) => o[i] = c[i]
      BY <1>2, <1>5, <1>6, <2>1, OrphanedCallsFacts
    <2>4. SameCall(s[i], o[i])
      BY <2>2, <2>3 DEF SameCall
    <2>5. s[i].path = c[i].path /\ s[i].stage = c[i].stage
      BY <2>2 DEF SameCall
    <2>6. Under(q, q)
      BY <1>5, PathFacts
    <2>. QED
      BY <2>2, <2>3, <2>4, <2>5, <2>6 DEF Taken
  <1>13. StackInOrder(o)
    <2>1. \A i \in 1..Len(s) : SameCall(s[i], o[i])
      BY <1>4, <1>5, <1>12
    <2>. QED
      BY <1>4, <1>7, <2>1, StackSame
  <1>14. TopCalls(o)
    <2>. SUFFICES ASSUME o # << >>
                  PROVE  o[Len(o)].running \/ o[Len(o)].op = "remove dir"
      BY DEF TopCalls
    <2>1. n \in DOMAIN s /\ s # << >>
      BY <1>4, <1>5, <1>7
    <2>2. SameCall(s[n], o[n])
      BY <1>12, <2>1
    <2>. QED
      BY <1>4, <1>7, <2>1, <2>2 DEF TopCalls, SameCall
  <1>15. StackInOrder(t)
    <2>1. CallInOrder(e) /\ LeavesRoom(o, e)
      BY <1>9 DEF CallInOrder, LeavesRoom, IsFileRemoval
    <2>. QED
      BY <1>7, <1>9, <1>10, <1>13, <1>14, <2>1, StackPush
  <1>16. /\ Len(t) = Len(s) + 1 /\ t[Len(t)] = e /\ DOMAIN t = DOMAIN s \cup {Len(t)}
         /\ \A i \in DOMAIN s : t[i] = o[i]
    BY <1>4, <1>5, <1>7, <1>8, <1>11 DEF Pushed
  <1>. QED
    BY <1>3, <1>11, <1>12, <1>15, <1>16

\* Another place while the file at q is removed.
LEMMA RemovalElsewhere ==
    ASSUME fs \in Tree, NEW s \in Seq(Call), StackInOrder(s), TopCalls(s),
           NEW q \in Places, NEW t, RemovedStack(s, q, t), calls' = t,
           NEW p \in Places \ {q}, PlaceInOrder(s, p), RemovalsSee(s, p),
           \A i \in DOMAIN s : s[i].path = p => ~JustRemoved(s[i]),
           Untouched(p), fs'[p] = fs[p]
    PROVE  PlaceInOrder(calls, p)' /\ RemovalsSee(calls, p)'
  <1>1. /\ t \in Seq(Call)
        /\ DOMAIN t = DOMAIN s \cup {Len(t)}
        /\ t[Len(t)].path = q /\ t[Len(t)].op = "remove"
    <2>1. q \in Path
      BY PlaceFacts
    <2>2. IsFileRemoval(t[Len(t)], q)
      BY <2>1, RemovedStackFacts, RemoveFileFacts
    <2>. QED
      BY <2>2, RemovedStackFacts DEF IsFileRemoval
  <1>2. PICK m : m = Len(t)
    OBVIOUS
  <1>3. \A i \in DOMAIN s :
          /\ SameCall(s[i], t[i])
          /\ ~Under(s[i].path, q) => t[i] = s[i]
    <2>. SUFFICES ASSUME NEW i \in DOMAIN s
                  PROVE  /\ SameCall(s[i], t[i])
                         /\ ~Under(s[i].path, q) => t[i] = s[i]
      OBVIOUS
    <2>1. Taken(s[i], t[i], q)
      BY RemovedStackFacts
    <2>. QED
      BY <2>1 DEF Taken
  <1>4. ~Under(p, q) /\ p \in Path /\ q \in Path
    BY PlaceFacts
  <1>5. \A i \in DOMAIN t : i \in DOMAIN s \/ i = m
    BY <1>1, <1>2
  <1>6. \A i \in DOMAIN s : i \in DOMAIN t
    BY <1>1
  <1>7. \A c : AsBefore(c, c)
    BY DEF AsBefore
  <1>8. \A i \in DOMAIN t : t[i].path = p => i \in DOMAIN s /\ t[i] = s[i]
    <2>1. ASSUME NEW i \in DOMAIN t, t[i].path = p
          PROVE  i \in DOMAIN s /\ t[i] = s[i]
      <3>1. p # q
        OBVIOUS
      <3>2. i # m
        BY <1>1, <1>2, <2>1, <3>1
      <3>3. i \in DOMAIN s
        BY <1>5, <2>1, <3>2
      <3>4. SameCall(s[i], t[i]) /\ (~Under(s[i].path, q) => t[i] = s[i])
        BY <1>3, <3>3
      <3>5. s[i].path = p
        BY <2>1, <3>4 DEF SameCall
      <3>. QED
        BY <1>4, <3>3, <3>4, <3>5
    <2>. QED
      BY <2>1
  <1>9. \A i \in DOMAIN s : s[i].path = p => t[i] = s[i]
    BY <1>3, <1>4
  <1>10. StackAsBefore(s, t, p)
    BY <1>6, <1>7, <1>8, <1>9 DEF StackAsBefore
  <1>11. PlaceInOrder(calls, p)'
    BY <1>1, <1>10, UntouchedPlace
  <1>12. ASSUME NEW i \in DOMAIN t, t[i].op = "remove dir", StrictlyUnder(p, t[i].path)
         PROVE  i \in DOMAIN s /\ t[i] = s[i]
    <2>1. i \in DOMAIN s
      BY <1>1, <1>2, <1>5, <1>12
    <2>4. s[i] \in Call /\ s[i].path = t[i].path
      BY <1>3, <2>1 DEF SameCall
    <2>2. s[i].path \in Path
      BY <2>4, CallFields
    <2>3. ~Under(s[i].path, q)
      BY <1>4, <1>12, <2>2, <2>4, UnderTransitive DEF StrictlyUnder
    <2>. QED
      BY <1>3, <2>1, <2>3
  <1>13. RemovalsSee(calls, p)'
    <2>1. (IsFile(fs', p) => IsFile(fs, p)) /\ (p \notin recreated' => p \notin recreated)
      BY DEF IsFile, Untouched
    <2>. QED
      BY <1>1, <1>12, <2>1, SeenAsBefore
  <1>. QED
    BY <1>11, <1>13

\* The place of a file that is removed: whoever is still to hear will.
LEMMA RemovedPlace ==
    ASSUME fs \in Tree, NEW s \in Seq(Call), StackInOrder(s), TopCalls(s),
           NEW q \in Places, NEW t, RemovedStack(s, q, t), calls' = t,
           \A i \in DOMAIN s : s[i].path = q => ~JustRemoved(s[i]),
           \A i \in DOMAIN s :
               s[i].path = q /\ s[i].stage = "write hooks" => q \in unsaved',
           fs'[q] = Absent, store'[q] = NoEntry, index'[q] = << >>
    PROVE  PlaceInOrder(calls, q)' /\ RemovalsSee(calls, q)'
  <1>1. /\ t \in Seq(Call)
        /\ DOMAIN t = DOMAIN s \cup {Len(t)}
        /\ t[Len(t)] = NewCall("remove", q, "delete", "path hooks")
    BY RemovedStackFacts
  <1>2. PICK m : m = Len(t)
    OBVIOUS
  <1>3. PICK e : e = NewCall("remove", q, "delete", "path hooks")
    OBVIOUS
  <1>4. q \in Path /\ Under(q, q)
    BY PlaceFacts, PathFacts
  <1>5. /\ e.op = "remove" /\ e.path = q /\ e.stage = "path hooks" /\ e.hook = 0
        /\ ~e.running /\ e.content = << >>
    BY <1>3, <1>4, RemoveFileFacts DEF IsFileRemoval
  <1>6. t[m] = e /\ m \in DOMAIN t /\ \A i \in DOMAIN t : i \in DOMAIN s \/ i = m
    BY <1>1, <1>2, <1>3
  <1>7. ~IsFile(fs', q) /\ fs'[q].content = << >>
    BY NodeFacts DEF IsFile, Absent, NewFile, FileNode
  <1>8. Follows(q)'
    BY <1>7 DEF Follows, IsFile
  <1>9. ASSUME NEW i \in DOMAIN s, t[i].path = q
        PROVE  CallIsRight(t, i, q)'
    <2>1. /\ SameCall(s[i], t[i])
          /\ t[i].inTree /\ s[i].stage # "path hooks" => ~Under(s[i].path, q)
          /\ s[i].path = q /\ s[i].stage = "path hooks" => t[i].stale
      BY RemovedStackFacts DEF Taken
    <2>2. s[i].path = q /\ s[i].stage = t[i].stage
      BY <1>9, <2>1 DEF SameCall
    <2>3. ~JustRemoved(t[i])
      BY <2>1, <2>2 DEF SameCall, JustRemoved
    <2>4. t[i].stage = "path hooks" => t[i].stale
      BY <2>1, <2>2
    <2>5. t[i].stage = "write hooks" => ~t[i].inTree /\ q \in unsaved'
      BY <1>4, <2>1, <2>2
    <2>. QED
      BY <2>3, <2>4, <2>5 DEF CallIsRight
  <1>10. CallIsRight(t, m, q)'
    BY <1>2, <1>5, <1>6, <1>7 DEF CallIsRight, IsFile
  <1>11. (\A i \in DOMAIN calls : calls[i].path = q => CallIsRight(calls, i, q))'
    BY <1>6, <1>9, <1>10
  <1>12. CopiesCome(calls, q)'
    <2>1. \A j \in DOMAIN PathHooks : j > 0
      BY HookNumbers
    <2>. QED
      BY <1>5, <1>6, <2>1 DEF CopiesCome, Tells
  <1>13. SavedComes(calls, q)'
    <2>1. JustRemoved(t[m])
      BY <1>5, <1>6 DEF JustRemoved
    <2>. QED
      BY <1>5, <1>6, <1>7, <2>1 DEF SavedComes, IsFile
  <1>14. RemovalsSee(calls, q)'
    BY <1>7 DEF RemovalsSee, IsFile
  <1>. QED
    BY <1>8, <1>11, <1>12, <1>13, <1>14 DEF PlaceInOrder

\* The file at q is removed.
LEMMA RemovalOfFile ==
    ASSUME HooksInv, NEW s, NEW q \in Path, Removing(s, q), IsFile(fs, q), TakeFile(q),
           NEW t, RemovedStack(s, q, t), calls' = t, UNCHANGED <<copy, saved, astray>>
    PROVE  HooksInv'
  <1>1. s \in Seq(Call) /\ StackInOrder(s) /\ TopCalls(s) /\ Len(s) + 1 <= MaxCalls
    BY DEF Removing
  <1>2. /\ fs \in Tree /\ WellFormed(fs) /\ Bare(fs) /\ Shape(fs) /\ store \in Store
        /\ index \in [Path -> Seq(Data)] /\ << >> \in Seq(Data)
    BY CallsType, EmptySeq
  <1>3. q \in Places /\ q # Root /\ Under(q, q)
    BY <1>2, PlaceFacts, PathFacts DEF Shape
  <1>4. /\ fs' = Detach(fs, {q})
        /\ store' = AdapterDelete(store, {q})
        /\ index' = [index EXCEPT ![q] = << >>]
        /\ recreated' = recreated \ {q}
        /\ unsaved' = IF SavingWrite(q) THEN unsaved \cup {q} ELSE unsaved
    BY DEF TakeFile
  <1>5. /\ fs' \in Tree /\ WellFormed(fs') /\ Bare(fs') /\ Shape(fs')
        /\ \A p \in Path : fs'[p] = IF Under(p, q) THEN Absent ELSE fs[p]
    BY <1>2, <1>3, <1>4, DetachPlaces
  <1>6. store' \in Store /\ store'[q] = NoEntry /\ \A p \in Path \ {q} : store'[p] = store[p]
    BY <1>2, <1>4, DeleteFacts
  <1>7. /\ index' \in [Path -> Seq(Data)] /\ index'[q] = << >>
        /\ \A p \in Path \ {q} : index'[p] = index[p]
    BY <1>2, <1>4
  <1>8. t \in Seq(Call) /\ StackInOrder(t) /\ Len(t) = Len(s) + 1
    BY <1>1, <1>2, <1>3, RemovedStackFacts
  <1>9. HooksTypeOK'
    <2>1. Len(t) <= MaxCalls
      BY <1>1, <1>8
    <2>2. recreated' \subseteq Places /\ unsaved' \subseteq Places
      BY <1>3, <1>4 DEF HooksInv, HooksTypeOK
    <2>. QED
      BY <1>5, <1>6, <1>7, <1>8, <2>1, <2>2
         DEF HooksInv, HooksTypeOK, WellFormed, Exists, IsDir
  <1>10. ASSUME NEW p \in Places \ {q}
         PROVE  PlaceInOrder(calls, p)' /\ RemovalsSee(calls, p)'
    <2>1. p \in Path \ {q} /\ ~Under(p, q)
      BY <1>3, PlaceFacts
    <2>2. /\ PlaceInOrder(s, p) /\ RemovalsSee(s, p)
          /\ \A i \in DOMAIN s : s[i].path = p => ~JustRemoved(s[i])
      BY DEF Removing
    <2>3. fs'[p] = fs[p]
      BY <1>5, <2>1
    <2>4. Untouched(p)
      <3>1. /\ p \in recreated' <=> p \in recreated
            /\ p \in unsaved => p \in unsaved'
        BY <1>4
      <3>. QED
        BY <1>6, <1>7, <2>1, <3>1 DEF Untouched
    <2>. QED
      BY <1>1, <1>2, <1>3, <2>2, <2>3, <2>4, RemovalElsewhere
  <1>11. PlaceInOrder(calls, q)' /\ RemovalsSee(calls, q)'
    <2>1. /\ \A i \in DOMAIN s : s[i].path = q => ~JustRemoved(s[i])
          /\ \A i \in DOMAIN s :
               s[i].path = q /\ s[i].stage = "write hooks" => q \in unsaved'
      BY <1>3, <1>4 DEF Removing
    <2>2. fs'[q] = Absent
      BY <1>3, <1>5
    <2>. QED
      BY <1>1, <1>2, <1>3, <1>6, <1>7, <2>1, <2>2, RemovedPlace
  <1>. QED
    BY <1>5, <1>8, <1>9, <1>10, <1>11
       DEF HooksInv, Shape, Bare, IsDir, IsFile, Exists

LEMMA RemoveFromKeeps ==
    ASSUME HooksInv, NEW s, NEW q \in Path, q # Root, Removing(s, q), RemoveFrom(s, q),
           IsDir(fs, q) => Len(s) + 1 < MaxCalls, UNCHANGED <<copy, saved, astray>>
    PROVE  HooksInv'
  <1>1. CASE ~Exists(fs, q) /\ calls' = Unwound(s)
             /\ UNCHANGED <<fs, index, store, recreated, unsaved>>
    BY <1>1, RemovalFails DEF UnchangedButCalls
  <1>2. CASE /\ IsFile(fs, q) /\ TakeFile(q)
             /\ calls' = Append([i \in DOMAIN s |-> Orphaned(Crossed(s, q)[i], q)],
                                NewCall("remove", q, "delete", "path hooks"))
    <2>1. DOMAIN Crossed(s, q) = DOMAIN s
      BY DEF Crossed
    <2>2. RemovedStack(s, q, calls')
      BY <1>2, <2>1 DEF RemovedStack, OrphanedCalls
    <2>3. PICK t : t = calls'
      OBVIOUS
    <2>. QED
      BY <1>2, <2>2, <2>3, RemovalOfFile
  <1>3. CASE /\ IsDir(fs, q)
             /\ calls' = Append(s, DirRemoval(q, ToVisit(fs, q)))
             /\ UNCHANGED <<fs, index, store, recreated, unsaved>>
    <2>1. PICK e : e = DirRemoval(q, ToVisit(fs, q))
      OBVIOUS
    <2>2. LeavesRoom(s, e)
      BY <1>3 DEF LeavesRoom
    <2>. QED
      BY <1>3, <2>1, <2>2, RemovalOfDir DEF UnchangedButCalls
  <1>. QED
    BY <1>1, <1>2, <1>3 DEF RemoveFrom, DirRemoval

LEMMA RemoveStarts ==
    ASSUME HooksInv, NEW p \in Path, Remove(p)
    PROVE  Removing(calls, p)
  <1>1. MayCall
    BY DEF Remove
  <1>2. \A q \in Places : PlaceInOrder(calls, q) /\ RemovalsSee(calls, q)
    BY DEF HooksInv
  <1>3. \A i \in DOMAIN calls :
          calls[i].path = p /\ calls[i].stage = "write hooks" => SavingWrite(p)
    BY DEF SavingWrite
  <1>. QED
    BY <1>1, <1>2, <1>3, CallsType, MayCallFacts DEF Removing

LEMMA RemoveKeeps ==
    ASSUME HooksInv, NEW p \in Path, Remove(p)
    PROVE  HooksInv'
  <1>1. /\ MayCall /\ p # Root /\ (IsDir(fs, p) => Len(calls) + 1 < MaxCalls)
        /\ RemoveFrom(calls, p) /\ UNCHANGED <<copy, saved, astray>>
    BY DEF Remove
  <1>2. Removing(calls, p)
    BY RemoveStarts
  <1>. QED
    BY <1>1, <1>2, RemoveFromKeeps

-----------------------------------------------------------------------------
(* The loops of the call on top. *)

\* The call on top, when it waits.
LEMMA WaitsFacts ==
    ASSUME HooksInv, Waits
    PROVE  /\ Len(calls) \in Nat \ {0} /\ Len(calls) \in DOMAIN calls
           /\ Top = calls[Len(calls)] /\ Top \in Call /\ ~Top.running
           /\ CallInOrder(Top)
  <1>1. calls \in Seq(Call) /\ calls # << >> /\ StackInOrder(calls)
    BY CallsType DEF Waits
  <1>2. Len(calls) \in Nat \ {0} /\ Top = calls[Len(calls)] /\ Top \in Call
    BY <1>1, FrontFacts DEF Top
  <1>3. Len(calls) \in DOMAIN calls
    BY <1>1, <1>2
  <1>4. ~Top.running
    BY DEF Waits
  <1>5. CallInOrder(Top)
    BY <1>1, <1>2, <1>3 DEF StackInOrder
  <1>. QED
    BY <1>2, <1>3, <1>4, <1>5

\* The calls below the top are never removals whose hooks are to be told.
LEMMA JustRemovedOnTop ==
    ASSUME HooksInv, NEW p \in Places, NEW i \in DOMAIN calls, calls[i].path = p,
           JustRemoved(calls[i])
    PROVE  i = Len(calls) /\ ~calls[i].running /\ calls[i].op = "remove"
  <1>1. CallIsRight(calls, i, p)
    BY DEF HooksInv, PlaceInOrder
  <1>. QED
    BY <1>1 DEF CallIsRight, JustRemoved

\* A recursive remove that goes on to its child q.
WithoutChild(c, q) == [c EXCEPT !.rest = @ \ {q}]

GoesOn(c, d, q) ==
    /\ d.op = c.op /\ d.path = c.path /\ d.event = c.event /\ d.stage = c.stage
    /\ d.hook = c.hook /\ d.rest = c.rest \ {q}
    /\ d.running <=> c.running
    /\ d.inTree <=> c.inTree

LEMMA WithoutChildFacts ==
    ASSUME NEW c \in Call, NEW q
    PROVE  WithoutChild(c, q) \in Call /\ GoesOn(c, WithoutChild(c, q), q)
  <1>. DEFINE d == [c EXCEPT !.rest = @ \ {q}]
  <1>1. c.rest \ {q} \in SUBSET Path
    BY DEF Call
  <1>2. d \in Call
    BY <1>1 DEF Call
  <1>3. GoesOn(c, d, q)
    BY DEF Call, GoesOn
  <1>. QED
    BY <1>2, <1>3 DEF WithoutChild

LEMMA SameStack ==
    ASSUME NEW s \in Seq(Call), NEW t \in Seq(Call), Len(t) = Len(s), NEW p \in Places,
           PlaceInOrder(s, p),
           \A i \in DOMAIN t : t[i].path = p => i \in DOMAIN s /\ t[i] = s[i],
           \A i \in DOMAIN s : s[i].path = p => i \in DOMAIN t /\ t[i] = s[i]
    PROVE  PlaceInOrder(t, p)
  <1>1. /\ Follows(p) /\ CopiesCome(s, p) /\ SavedComes(s, p)
        /\ \A i \in DOMAIN s : s[i].path = p => CallIsRight(s, i, p)
    BY DEF PlaceInOrder
  <1>2. ASSUME NEW i \in DOMAIN t, t[i].path = p
        PROVE  CallIsRight(t, i, p)
    BY <1>1, <1>2 DEF CallIsRight
  <1>3. CopiesCome(t, p)
    BY <1>1 DEF CopiesCome
  <1>4. SavedComes(t, p)
    BY <1>1 DEF SavedComes
  <1>. QED
    BY <1>1, <1>2, <1>3, <1>4 DEF PlaceInOrder

\* The stack when a recursive remove goes on to its child q.
LEMMA NextChild ==
    ASSUME HooksInv, Waits, NEW q \in Path, q \in Top.rest,
           NEW s, s = SetTop(WithoutChild(Top, q))
    PROVE  /\ Removing(s, q) /\ q # Root /\ ~IsDir(fs, q)
           /\ Parent(q) = Top.path /\ Top.op = "remove dir"
           /\ DOMAIN s = DOMAIN calls
           /\ \A i \in DOMAIN calls : GoesOn(calls[i], s[i], q) \/ s[i] = calls[i]
  <1>1. PICK n \in Nat \ {0} : n = Len(calls)
    BY WaitsFacts
  <1>2. /\ calls \in Seq(Call) /\ calls # << >> /\ n \in DOMAIN calls
        /\ Top = calls[n] /\ Top \in Call /\ CallInOrder(Top) /\ StackInOrder(calls)
    BY <1>1, CallsType, WaitsFacts DEF Waits
  <1>3. /\ Top.op = "remove dir" /\ Top.path # Root /\ Top.stage = "children"
        /\ q # Root /\ Parent(q) = Top.path
        /\ \E p \in Places : StrictlyUnder(p, Top.path)
        /\ \A r \in Top.rest : r # Root /\ Parent(r) = Top.path
    <2>1. Top.op \in {"write", "remove", "remove dir"}
      BY <1>2, CallFields
    <2>2. Top.op = "remove dir"
      BY <1>2, <2>1 DEF CallInOrder
    <2>. QED
      BY <1>2, <2>2 DEF CallInOrder
  <1>4. PICK d : d = WithoutChild(Top, q)
    OBVIOUS
  <1>5. d \in Call /\ GoesOn(Top, d, q)
    BY <1>2, <1>4, WithoutChildFacts
  <1>6. CallInOrder(d) /\ d.op = "remove dir" /\ d.path = Top.path
    <2>1. /\ d.op = "remove dir" /\ d.path = Top.path /\ d.stage = "children"
          /\ d.rest \subseteq Top.rest /\ ~d.running
      BY <1>3, <1>5, WaitsFacts DEF GoesOn
    <2>. QED
      BY <1>3, <2>1 DEF CallInOrder
  <1>7. /\ s \in Seq(Call) /\ Len(s) = n /\ s[n] = d
        /\ \A i \in 1..(n - 1) : s[i] = calls[i]
    BY <1>1, <1>2, <1>4, <1>5, SetTopFacts
  <1>8. StackInOrder(s)
    <2>1. d.op = calls[Len(calls)].op
      BY <1>1, <1>2, <1>3, <1>6
    <2>. QED
      BY <1>2, <1>4, <1>5, <1>6, <2>1, StackTop
  <1>9. DOMAIN s = 1..n /\ DOMAIN calls = 1..n
    BY <1>1, <1>2, <1>7
  <1>10. \A i \in 1..n : i # n => s[i] = calls[i]
    BY <1>7
  <1>11. TopCalls(s)
    BY <1>6, <1>7 DEF TopCalls
  <1>12. Len(s) + 1 <= MaxCalls
    <2>1. n < MaxCalls
      BY <1>2, <1>3 DEF StackInOrder
    <2>. QED
      BY <1>7, <2>1, CallsType
  <1>13. ASSUME NEW p \in Places
         PROVE  /\ PlaceInOrder(s, p)
                /\ \A i \in DOMAIN s : s[i].path = p => ~JustRemoved(s[i])
                /\ p = q \/ RemovalsSee(s, p)
    <2>1. Top.path # p
      BY <1>2, <1>3, RemovesOfDirs
    <2>2. \A i \in 1..n : s[i].path = p \/ calls[i].path = p => s[i] = calls[i] /\ i # n
      BY <1>2, <1>6, <1>7, <1>10, <2>1
    <2>3. PlaceInOrder(calls, p) /\ RemovalsSee(calls, p)
      BY DEF HooksInv
    <2>4. PlaceInOrder(s, p)
      BY <1>1, <1>2, <1>7, <1>9, <2>2, <2>3, SameStack
    <2>5. ASSUME NEW i \in DOMAIN s, s[i].path = p, JustRemoved(s[i])
          PROVE  FALSE
      BY <1>1, <1>9, <2>2, <2>5, JustRemovedOnTop
    <2>6. ASSUME p # q, p \notin recreated, IsFile(fs, p), NEW i \in DOMAIN s,
                 s[i].op = "remove dir", StrictlyUnder(p, s[i].path)
          PROVE  s[i].inTree /\ p \in s[i].rest
      <3>1. CASE i = n
        <4>1. calls[n].inTree /\ p \in calls[n].rest
          BY <1>2, <1>3, <1>6, <1>7, <2>3, <2>6, <3>1 DEF RemovalsSee
        <4>. QED
          BY <1>2, <1>5, <1>7, <2>6, <3>1, <4>1 DEF GoesOn
      <3>2. CASE i # n
        BY <1>9, <1>10, <2>3, <2>6, <3>2 DEF RemovalsSee
      <3>. QED
        BY <3>1, <3>2
    <2>. QED
      BY <2>4, <2>5, <2>6 DEF RemovalsSee
  <1>14. \A i \in DOMAIN s : s[i].path = q /\ s[i].stage = "write hooks" => SavingWrite(q)
    <2>1. d.stage = "children"
      BY <1>3, <1>5 DEF GoesOn
    <2>. QED
      BY <1>7, <1>9, <1>10, <2>1 DEF SavingWrite
  <1>15. Removing(s, q)
    BY <1>7, <1>8, <1>11, <1>12, <1>13, <1>14 DEF Removing
  <1>16. ~IsDir(fs, q)
    <2>. SUFFICES ASSUME IsDir(fs, q)
                  PROVE  FALSE
      OBVIOUS
    <2>1. Top.path \in Path
      BY <1>2, CallFields
    <2>2. Len(q) = 1 /\ Len(Top.path) = Len(q) - 1 /\ Len(Top.path) \in Nat \ {0}
      BY <1>3, <2>1, CallsType, DirFacts, ParentFacts
    <2>. QED
      BY <2>2
  <1>17. \A i \in DOMAIN calls : GoesOn(calls[i], s[i], q) \/ s[i] = calls[i]
    BY <1>2, <1>5, <1>7, <1>9, <1>10
  <1>. QED
    BY <1>3, <1>9, <1>15, <1>16, <1>17

LEMMA VisitKeeps ==
    ASSUME HooksInv, NEW q \in Path, VisitChild(q)
    PROVE  HooksInv'
  <1>1. PICK s : s = SetTop(WithoutChild(Top, q))
    OBVIOUS
  <1>2. /\ Waits /\ q \in Top.rest /\ UNCHANGED <<copy, saved, astray>>
        /\ IF Exists(HomeOf(Top), q) THEN RemoveFrom(s, q)
           ELSE calls' = s /\ UNCHANGED <<fs, index, store, recreated, unsaved>>
    BY <1>1 DEF VisitChild, WithoutChild
  <1>3. /\ Removing(s, q) /\ q # Root /\ ~IsDir(fs, q)
        /\ Parent(q) = Top.path /\ Top.op = "remove dir"
        /\ DOMAIN s = DOMAIN calls
        /\ \A i \in DOMAIN calls : GoesOn(calls[i], s[i], q) \/ s[i] = calls[i]
    BY <1>1, <1>2, NextChild
  <1>4. CASE Exists(HomeOf(Top), q)
    BY <1>2, <1>3, <1>4, RemoveFromKeeps
  <1>5. CASE ~Exists(HomeOf(Top), q)
    <2>1. calls' = s /\ UnchangedButCalls
      BY <1>2, <1>5 DEF UnchangedButCalls
    <2>2. s \in Seq(Call) /\ StackInOrder(s) /\ Len(s) <= MaxCalls
      <3>1. s \in Seq(Call) /\ StackInOrder(s) /\ Len(s) + 1 <= MaxCalls
        BY <1>3 DEF Removing
      <3>2. Len(s) \in Nat /\ MaxCalls \in Nat
        BY <3>1, CallsType
      <3>. QED
        BY <3>1, <3>2
    <2>3. HooksTypeOK'
      BY <2>1, <2>2 DEF HooksInv, HooksTypeOK, UnchangedButCalls, WellFormed, Exists, IsDir
    <2>4. ASSUME NEW p \in Places
          PROVE  PlaceInOrder(calls, p)' /\ RemovalsSee(calls, p)'
      <3>1. WithoutRemoves(s, s)
        BY DEF WithoutRemoves
      <3>2. /\ PlaceInOrder(s, p) /\ (p = q \/ RemovalsSee(s, p))
            /\ \A i \in DOMAIN s : s[i].path = p => ~JustRemoved(s[i])
        BY <1>3 DEF Removing
      <3>3. RemovalsSee(s, p)
        <4>1. CASE p # q
          BY <3>2, <4>1
        <4>2. CASE p = q
          <5>. SUFFICES ASSUME q \notin recreated, IsFile(fs, q)
                        PROVE  FALSE
            BY <4>2 DEF RemovalsSee
          <5>1. StrictlyUnder(q, Top.path)
            BY <1>3, ParentFacts
          <5>2. Top.inTree
            <6>1. RemovalsSee(calls, q)
              BY <4>2 DEF HooksInv
            <6>. QED
              BY <1>2, <1>3, <5>1, <6>1, WaitsFacts DEF RemovalsSee
          <5>. QED
            BY <1>5, <5>2 DEF HomeOf, IsFile, Exists
        <4>. QED
          BY <4>1, <4>2
      <3>. QED
        BY <2>1, <2>2, <3>1, <3>2, <3>3, CutPlace
    <2>. QED
      BY <2>1, <2>2, <2>3, <2>4
         DEF HooksInv, UnchangedButCalls, Shape, Bare, IsDir, IsFile, Exists
  <1>. QED
    BY <1>4, <1>5

\* The stack is as it was up to its top, which is a recursive remove no longer.
LEMMA DropKeeps ==
    ASSUME HooksInv, DropDirectory
    PROVE  HooksInv'
  <1>1. /\ Waits /\ Top.op = "remove dir" /\ Top.rest = {}
        /\ UNCHANGED <<index, store, copy, saved, recreated, astray, unsaved>>
        /\ \/ ~Exists(fs, Top.path) /\ calls' = Unwound(calls) /\ UNCHANGED fs
           \/ /\ Exists(fs, Top.path)
              /\ fs' = Detach(fs, {Top.path})
              /\ calls' = [i \in DOMAIN Seqs!Front(calls) |-> Orphaned(calls[i], Top.path)]
    BY DEF DropDirectory
  <1>2. PICK n \in Nat \ {0} : n = Len(calls)
    BY <1>1, WaitsFacts
  <1>3. /\ calls \in Seq(Call) /\ calls # << >> /\ n \in DOMAIN calls
        /\ Top = calls[n] /\ Top \in Call /\ CallInOrder(Top) /\ StackInOrder(calls)
    BY <1>1, <1>2, CallsType, WaitsFacts DEF Waits
  <1>4. PICK d : d = Top.path
    OBVIOUS
  <1>5. d \in Path /\ d # Root /\ \A p \in Places : d # p
    <2>1. d \in Path
      BY <1>3, <1>4, CallFields
    <2>2. d # Root
      BY <1>1, <1>3, <1>4 DEF CallInOrder
    <2>. QED
      BY <1>1, <1>3, <1>4, <2>1, <2>2, RemovesOfDirs
  <1>6. \A p \in Places : \A i \in DOMAIN calls : calls[i].path = p => ~JustRemoved(calls[i])
    BY <1>1, <1>2, <1>3, JustRemovedOnTop
  <1>7. \A p \in Places : PlaceInOrder(calls, p) /\ RemovalsSee(calls, p)
    BY DEF HooksInv
  <1>8. CASE ~Exists(fs, d) /\ calls' = Unwound(calls) /\ UNCHANGED fs
    <2>1. TopCalls(calls)
      BY <1>1, <1>2, <1>3 DEF TopCalls
    <2>2. Len(calls) + 1 <= MaxCalls
      <3>1. n < MaxCalls
        BY <1>1, <1>3 DEF StackInOrder
      <3>. QED
        BY <1>2, <3>1, CallsType
    <2>3. \A i \in DOMAIN calls :
            calls[i].path = d /\ calls[i].stage = "write hooks" => SavingWrite(d)
      BY DEF SavingWrite
    <2>4. Removing(calls, d)
      BY <1>3, <1>6, <1>7, <2>1, <2>2, <2>3 DEF Removing
    <2>5. UnchangedButCalls
      BY <1>1, <1>8 DEF UnchangedButCalls
    <2>. QED
      BY <1>5, <1>8, <2>4, <2>5, RemovalFails
  <1>9. CASE /\ Exists(fs, d) /\ fs' = Detach(fs, {d})
             /\ calls' = [i \in DOMAIN Seqs!Front(calls) |-> Orphaned(calls[i], d)]
    <2>1. fs \in Tree /\ WellFormed(fs) /\ Bare(fs) /\ Shape(fs)
      BY CallsType
    <2>2. PICK s : s = SubSeq(calls, 1, n - 1)
      OBVIOUS
    <2>3. /\ s \in Seq(Call) /\ Len(s) = n - 1 /\ s = Seqs!Front(calls)
          /\ \A i \in 1..(n - 1) : s[i] = calls[i]
      <3>1. n - 1 \in 0..Len(calls)
        BY <1>2
      <3>. QED
        BY <1>2, <1>3, <2>2, <3>1, CutFacts, FrontFacts
    <2>4. DOMAIN s = 1..(n - 1) /\ DOMAIN calls = 1..n /\ n - 1 \in Nat
      BY <1>2, <1>3, <2>3
    <2>5. PICK t : t = OrphanedCalls(s, d)
      OBVIOUS
    <2>6. calls' = t
      BY <1>9, <2>3, <2>4, <2>5 DEF OrphanedCalls
    <2>7. t \in Seq(Call) /\ Len(t) = n - 1
      BY <1>5, <2>1, <2>3, <2>5, OrphanedCallsFacts
    <2>8. DOMAIN t = 1..(n - 1)
      BY <2>4, <2>7
    <2>9. ASSUME NEW i \in 1..(n - 1)
          PROVE  /\ i \in DOMAIN calls /\ i # n /\ SameCall(calls[i], t[i])
                 /\ t[i].stale = calls[i].stale
                 /\ t[i].inTree => calls[i].inTree
                 /\ t[i].inTree /\ calls[i].stage # "path hooks" => ~Under(calls[i].path, d)
                 /\ ~Under(calls[i].path, d) => t[i] = calls[i]
      <3>1. s[i] = calls[i] /\ i \in DOMAIN calls /\ i # n
        BY <2>3, <2>4
      <3>2. i \in 1..Len(s)
        BY <2>3
      <3>3. /\ SameCall(s[i], t[i]) /\ t[i].stale = s[i].stale
            /\ t[i].inTree => s[i].inTree
            /\ t[i].inTree /\ s[i].stage # "path hooks" => ~Under(s[i].path, d)
            /\ ~Under(s[i].path, d) => t[i] = s[i]
        <4>1. d \in Path
          BY <1>5
        <4>. QED
          BY <2>1, <2>3, <2>5, <3>2, <4>1, OrphanedCallsFacts, ZenonT(60)
      <3>. QED
        BY <3>1, <3>3
    <2>10. StackInOrder(t)
      <3>1. n - 1 \in 0..Len(calls)
        BY <1>2
      <3>2. StackInOrder(s)
        BY <1>3, <2>2, <3>1, StackCut
      <3>3. \A i \in 1..Len(s) : SameCall(s[i], t[i])
        BY <2>3, <2>9
      <3>. QED
        BY <2>3, <2>7, <3>2, <3>3, StackSame
    <2>11. /\ fs' \in Tree /\ WellFormed(fs') /\ Bare(fs') /\ Shape(fs')
           /\ \A p \in Path : fs'[p] = IF Under(p, d) THEN Absent ELSE fs[p]
      BY <1>5, <1>9, <2>1, DetachPlaces
    <2>12. HooksTypeOK'
      <3>1. Len(t) <= MaxCalls
        <4>1. n <= MaxCalls /\ MaxCalls \in Nat
          BY <1>2, CallsType DEF HooksInv, HooksTypeOK
        <4>. QED
          BY <2>7, <4>1
      <3>. QED
        BY <1>1, <2>6, <2>7, <2>11, <3>1
           DEF HooksInv, HooksTypeOK, WellFormed, Exists, IsDir
    <2>13. ASSUME NEW p \in Places
           PROVE  PlaceInOrder(calls, p)' /\ RemovalsSee(calls, p)'
      <3>1. p \in Path
        BY PlaceFacts
      <3>2. \A i \in DOMAIN calls : calls[i].path = p => i \in 1..(n - 1)
        BY <1>3, <1>4, <1>5, <2>4
      <3>3. \A i \in 1..(n - 1) :
              /\ t[i].path = calls[i].path /\ AsBefore(calls[i], t[i])
              /\ JustRemoved(t[i]) <=> JustRemoved(calls[i])
        BY <2>9 DEF SameCall, AsBefore, JustRemoved
      <3>4. StackAsBefore(calls, t, p)
        <4>1. \A i \in DOMAIN t : t[i].path = p =>
                /\ i \in DOMAIN calls /\ calls[i].path = p /\ AsBefore(calls[i], t[i])
                /\ JustRemoved(t[i]) => i = Len(t)
          <5>1. ASSUME NEW i \in 1..(n - 1), t[i].path = p
                PROVE  /\ i \in DOMAIN calls /\ calls[i].path = p
                       /\ AsBefore(calls[i], t[i]) /\ ~JustRemoved(t[i])
            <6>1. /\ i \in DOMAIN calls /\ calls[i].path = p
                  /\ AsBefore(calls[i], t[i])
                  /\ JustRemoved(t[i]) <=> JustRemoved(calls[i])
              BY <2>9, <3>3, <5>1
            <6>2. ~JustRemoved(calls[i])
              BY <1>6, <2>9, <6>1
            <6>. QED
              BY <6>1, <6>2
          <5>. QED
            BY <2>8, <5>1
        <4>2. \A i \in DOMAIN calls : calls[i].path = p =>
                i \in DOMAIN t /\ t[i].path = p /\ AsBefore(calls[i], t[i])
          BY <2>8, <3>2, <3>3
        <4>. QED
          BY <4>1, <4>2 DEF StackAsBefore
      <3>5. Untouched(p)
        BY <1>1 DEF Untouched
      <3>6. CASE ~Under(p, d)
        <4>1. fs'[p] = fs[p]
          BY <2>11, <3>1, <3>6
        <4>2. PlaceInOrder(calls, p)'
          BY <1>3, <1>7, <2>6, <2>7, <3>4, <3>5, <4>1, UntouchedPlace
        <4>3. ASSUME NEW i \in DOMAIN t, t[i].op = "remove dir", StrictlyUnder(p, t[i].path)
              PROVE  i \in DOMAIN calls /\ t[i] = calls[i]
          <5>1. i \in DOMAIN calls /\ SameCall(calls[i], t[i])
            BY <2>8, <2>9
          <5>2. calls[i].path = t[i].path /\ calls[i].path \in Path
            <6>1. calls[i] \in Call
              BY <1>3, <5>1
            <6>. QED
              BY <5>1, <6>1, CallFields DEF SameCall
          <5>3. ~Under(calls[i].path, d)
            BY <1>5, <3>1, <3>6, <4>3, <5>2, UnderTransitive DEF StrictlyUnder
          <5>. QED
            BY <2>8, <2>9, <5>1, <5>3
        <4>4. (IsFile(fs', p) => IsFile(fs, p)) /\ (p \notin recreated' => p \notin recreated)
          BY <1>1, <4>1 DEF IsFile
        <4>5. RemovalsSee(calls, p)'
          BY <1>3, <1>7, <2>6, <2>7, <4>3, <4>4, SeenAsBefore
        <4>. QED
          BY <4>2, <4>5
      <3>7. CASE Under(p, d)
        <4>1. fs'[p] = Absent /\ ~IsFile(fs', p)
          BY <2>11, <3>1, <3>7, NodeFacts DEF IsFile
        <4>2. RemovalsSee(calls, p)'
          BY <4>1 DEF RemovalsSee, IsFile
        <4>3. CASE ~IsFile(fs, p)
          <5>1. fs'[p] = fs[p]
            BY <2>1, <4>1, <4>3, NoFileAtPlace
          <5>. QED
            BY <1>3, <1>7, <2>6, <2>7, <3>4, <3>5, <4>2, <5>1, UntouchedPlace
        <4>4. CASE IsFile(fs, p)
          <5>1. StrictlyUnder(p, d)
            BY <1>5, <3>7 DEF StrictlyUnder
          <5>2. p \in recreated'
            BY <1>1, <1>3, <1>4, <1>7, <4>4, <5>1 DEF RemovalsSee
          <5>3. \A i \in DOMAIN t : t[i].path = p =>
                  /\ i \in DOMAIN calls /\ calls[i].path = p /\ AsBefore(calls[i], t[i])
                  /\ ~JustRemoved(t[i])
                  /\ t[i].stage = "write hooks" => ~t[i].inTree
            <6>. SUFFICES ASSUME NEW i \in DOMAIN t, t[i].path = p
                          PROVE  /\ i \in DOMAIN calls /\ calls[i].path = p
                                 /\ AsBefore(calls[i], t[i])
                                 /\ ~JustRemoved(t[i])
                                 /\ t[i].stage = "write hooks" => ~t[i].inTree
              OBVIOUS
            <6>1. i \in 1..(n - 1)
              BY <2>8
            <6>2. i \in DOMAIN calls /\ calls[i].path = p /\ AsBefore(calls[i], t[i])
              BY <2>9, <3>3, <6>1
            <6>3. ~JustRemoved(t[i])
              BY <1>6, <3>3, <6>1, <6>2
            <6>4. ASSUME t[i].stage = "write hooks", t[i].inTree
                  PROVE  FALSE
              <7>1. calls[i].stage = "write hooks"
                BY <6>2, <6>4 DEF AsBefore
              <7>2. calls[i].stage # "path hooks"
                BY <7>1
              <7>3. ~Under(calls[i].path, d)
                BY <2>9, <6>1, <6>4, <7>2
              <7>. QED
                BY <3>7, <6>2, <7>3
            <6>. QED
              BY <6>2, <6>3, <6>4
          <5>. QED
            BY <1>3, <1>7, <2>6, <2>7, <4>1, <4>2, <5>2, <5>3, LostPlace
        <4>. QED
          BY <4>3, <4>4
      <3>. QED
        BY <3>6, <3>7
    <2>. QED
      BY <2>6, <2>10, <2>11, <2>12, <2>13
         DEF HooksInv, Shape, Bare, IsDir, IsFile, Exists
  <1>. QED
    BY <1>1, <1>4, <1>8, <1>9

-----------------------------------------------------------------------------
(* Hooks are told. *)

\* The call c when its hook j runs, and when that hook has returned.
Told(c, j) == [c EXCEPT !.hook = j, !.running = TRUE]
Returned(c) == [c EXCEPT !.running = FALSE]

\* d is the call c with its j-th hook running.
ToldAs(c, d, j) ==
    /\ d.op = c.op /\ d.path = c.path /\ d.event = c.event /\ d.stage = c.stage
    /\ d.content = c.content /\ d.version = c.version /\ d.rest = c.rest
    /\ d.stale = c.stale /\ d.inTree = c.inTree
    /\ d.hook = j /\ d.running

ReturnedAs(c, d) ==
    /\ d.op = c.op /\ d.path = c.path /\ d.event = c.event /\ d.stage = c.stage
    /\ d.content = c.content /\ d.version = c.version /\ d.rest = c.rest
    /\ d.stale = c.stale /\ d.inTree = c.inTree
    /\ d.hook = c.hook /\ ~d.running

LEMMA ToldFacts ==
    ASSUME NEW c \in Call, NEW j \in Nat
    PROVE  Told(c, j) \in Call /\ ToldAs(c, Told(c, j), j)
  <1>. DEFINE d == [c EXCEPT !.hook = j]
  <1>1. d \in Call
    BY DEF Call
  <1>2. /\ d.op = c.op /\ d.path = c.path /\ d.event = c.event /\ d.stage = c.stage
        /\ d.content = c.content /\ d.version = c.version /\ d.rest = c.rest
        /\ d.stale = c.stale /\ d.inTree = c.inTree /\ d.hook = j
    BY DEF Call
  <1>3. Told(c, j) = [d EXCEPT !.running = TRUE]
    BY DEF Told
  <1>. HIDE DEF d
  <1>4. [d EXCEPT !.running = TRUE] \in Call
    BY <1>1 DEF Call
  <1>5. ToldAs(c, [d EXCEPT !.running = TRUE], j)
    BY <1>1, <1>2 DEF Call, ToldAs
  <1>. QED
    BY <1>3, <1>4, <1>5

LEMMA ReturnedFacts ==
    ASSUME NEW c \in Call
    PROVE  Returned(c) \in Call /\ ReturnedAs(c, Returned(c))
  <1>1. Returned(c) \in Call
    BY DEF Returned, Call
  <1>2. ReturnedAs(c, Returned(c))
    BY DEF Returned, Call, ReturnedAs
  <1>. QED
    BY <1>1, <1>2

\* The stack t is the calls under way with c in the place of the top.
OnTop(c, t) ==
    /\ t \in Seq(Call) /\ Len(t) = Len(calls) /\ DOMAIN t = DOMAIN calls
    /\ Len(calls) \in DOMAIN calls /\ t[Len(calls)] = c
    /\ \A i \in DOMAIN calls : i # Len(calls) => t[i] = calls[i]

LEMMA TopFacts ==
    ASSUME HooksInv, calls # << >>
    PROVE  /\ Len(calls) \in DOMAIN calls /\ Top = calls[Len(calls)] /\ Top \in Call
           /\ CallInOrder(Top)
           /\ Top.op # "remove dir" => Top.path \in Places
  <1>1. calls \in Seq(Call) /\ StackInOrder(calls)
    BY CallsType
  <1>2. Len(calls) \in Nat \ {0} /\ Top = calls[Len(calls)] /\ Top \in Call
    BY <1>1, FrontFacts DEF Top
  <1>3. Len(calls) \in DOMAIN calls
    BY <1>1, <1>2
  <1>4. CallInOrder(Top)
    BY <1>1, <1>2, <1>3 DEF StackInOrder
  <1>5. Top.op # "remove dir" => Top.path \in Places
    BY <1>2, <1>4 DEF CallInOrder, Call
  <1>. QED
    BY <1>2, <1>3, <1>4, <1>5

LEMMA OnTopFacts ==
    ASSUME HooksInv, calls # << >>, NEW c \in Call, CallInOrder(c), c.op = Top.op,
           NEW t, t = SetTop(c)
    PROVE  OnTop(c, t) /\ StackInOrder(t) /\ Len(t) <= MaxCalls
  <1>1. calls \in Seq(Call) /\ StackInOrder(calls) /\ Len(calls) <= MaxCalls
    BY CallsType DEF HooksInv, HooksTypeOK
  <1>2. PICK n \in Nat \ {0} : n = Len(calls)
    BY <1>1, FrontFacts
  <1>3. /\ t \in Seq(Call) /\ Len(t) = n /\ t[n] = c
        /\ \A i \in 1..(n - 1) : t[i] = calls[i]
    BY <1>1, <1>2, SetTopFacts
  <1>4. DOMAIN t = 1..n
    BY <1>3
  <1>5. DOMAIN calls = 1..n
    BY <1>1, <1>2
  <1>6. \A i \in 1..n : i # n => i \in 1..(n - 1)
    OBVIOUS
  <1>7. OnTop(c, t)
    BY <1>2, <1>3, <1>4, <1>5, <1>6 DEF OnTop
  <1>8. StackInOrder(t)
    BY <1>1, StackTop, TopFacts
  <1>. QED
    BY <1>1, <1>2, <1>3, <1>7, <1>8

\* The other places do not notice a step of the call on top.
LEMMA TopElsewhere ==
    ASSUME HooksInv, NEW c \in Call, NEW t, OnTop(c, t), calls' = t, Top = calls[Len(calls)],
           c.path = Top.path, NEW p \in Places, p # Top.path, Untouched(p), fs'[p] = fs[p]
    PROVE  PlaceInOrder(calls, p)'
  <1>1. calls \in Seq(Call) /\ t \in Seq(Call)
    BY CallsType DEF OnTop
  <1>2. \A i \in DOMAIN t : t[i].path = p => i \in DOMAIN calls /\ t[i] = calls[i]
    BY DEF OnTop
  <1>3. \A i \in DOMAIN calls : calls[i].path = p => i \in DOMAIN t /\ t[i] = calls[i]
    BY DEF OnTop
  <1>4. \A i \in DOMAIN calls : calls[i].path = p => AsBefore(calls[i], calls[i])
    BY DEF AsBefore
  <1>5. \A i \in DOMAIN calls : calls[i].path = p /\ JustRemoved(calls[i]) => i = Len(t)
    BY JustRemovedOnTop DEF OnTop
  <1>6. StackAsBefore(calls, t, p)
    BY <1>2, <1>3, <1>4, <1>5 DEF StackAsBefore
  <1>7. PlaceInOrder(calls, p)
    BY DEF HooksInv
  <1>. QED
    BY <1>1, <1>6, <1>7, UntouchedPlace

\* Recursive removes do not notice it either.
LEMMA TopRemovals ==
    ASSUME HooksInv, NEW c \in Call, NEW t, OnTop(c, t), calls' = t,
           c.op # "remove dir", fs' = fs, recreated' = recreated, NEW p \in Places
    PROVE  RemovalsSee(calls, p)'
  <1>1. calls \in Seq(Call) /\ t \in Seq(Call)
    BY CallsType DEF OnTop
  <1>2. \A i \in DOMAIN t : t[i].op = "remove dir" => i \in DOMAIN calls /\ t[i] = calls[i]
    BY DEF OnTop
  <1>3. RemovalsSee(calls, p)
    BY DEF HooksInv
  <1>4. (IsFile(fs', p) => IsFile(fs, p)) /\ (p \notin recreated' => p \notin recreated)
    BY DEF IsFile
  <1>. QED
    BY <1>1, <1>2, <1>3, <1>4, SeenAsBefore

\* A step of the call on top that is seen by its own place alone.
TopTypes ==
    /\ UNCHANGED <<fs, index, store, recreated>>
    /\ copy' \in [DOMAIN PathHooks -> [Path -> [present: BOOLEAN, content: Seq(Data)]]]
    /\ saved' \in [DOMAIN WriteHooks -> Store]
    /\ astray' \in [DOMAIN PathHooks -> SUBSET Places]
    /\ unsaved' \subseteq Places

LEMMA TopKeeps ==
    ASSUME HooksInv, calls # << >>, NEW c \in Call, CallInOrder(c), c.op = Top.op,
           c.op # "remove dir", c.path = Top.path, NEW t, t = SetTop(c), calls' = t,
           NEW q \in Places, q = Top.path,
           TopTypes, \A p \in Places \ {q} : Untouched(p),
           OnTop(c, t) => PlaceInOrder(calls, q)'
    PROVE  HooksInv'
  <1>1. OnTop(c, t) /\ StackInOrder(t) /\ Len(t) <= MaxCalls /\ t \in Seq(Call)
    BY OnTopFacts DEF OnTop
  <1>2. HooksTypeOK'
    <2>1. /\ fs \in Tree /\ WellFormed(fs) /\ index \in [Path -> Seq(Data)]
          /\ store \in Store /\ recreated \subseteq Places
      BY DEF HooksInv, HooksTypeOK
    <2>2. fs' = fs /\ index' = index /\ store' = store /\ recreated' = recreated
      BY DEF TopTypes
    <2>3. WellFormed(fs)'
      BY <2>1, <2>2 DEF WellFormed, Exists, IsDir
    <2>. QED
      BY <1>1, <2>1, <2>2, <2>3 DEF HooksTypeOK, TopTypes
  <1>3. ASSUME NEW p \in Places
        PROVE  PlaceInOrder(calls, p)' /\ RemovalsSee(calls, p)'
    <2>1. fs' = fs /\ recreated' = recreated
      BY DEF TopTypes
    <2>2. RemovalsSee(calls, p)'
      BY <1>1, <2>1, TopRemovals
    <2>3. CASE p = q
      BY <1>1, <2>2, <2>3
    <2>4. CASE p # q
      <3>1. Top = calls[Len(calls)]
        BY TopFacts
      <3>2. PlaceInOrder(calls, p)'
        BY <1>1, <2>1, <2>4, <3>1, TopElsewhere
      <3>. QED
        BY <2>2, <3>2
    <2>. QED
      BY <2>3, <2>4
  <1>4. Bare(fs)' /\ Shape(fs)'
    BY DEF HooksInv, TopTypes, Bare, Shape, IsDir, IsFile, Exists
  <1>. QED
    BY <1>1, <1>2, <1>3, <1>4 DEF HooksInv

LEMMA RunningFacts ==
    ASSUME HooksInv, HookRuns
    PROVE  /\ calls # << >> /\ Top.running /\ Top.op # "remove dir" /\ Top.path \in Places
           /\ ~JustRemoved(Top)
  <1>1. calls # << >> /\ Top.running
    BY DEF HookRuns
  <1>2. /\ Len(calls) \in DOMAIN calls /\ Top = calls[Len(calls)] /\ CallInOrder(Top)
        /\ Top.op # "remove dir" => Top.path \in Places
    BY <1>1, TopFacts
  <1>3. Top.op # "remove dir"
    BY <1>1, <1>2 DEF CallInOrder
  <1>4. ~JustRemoved(Top)
    BY <1>1, <1>2, <1>3, JustRemovedOnTop
  <1>. QED
    BY <1>1, <1>2, <1>3, <1>4

LEMMA ReturnKeeps ==
    ASSUME HooksInv, HookReturns
    PROVE  HooksInv'
  <1>1. /\ HookRuns /\ calls' = SetTop(Returned(Top))
        /\ UNCHANGED <<fs, index, store, copy, saved, recreated, astray, unsaved>>
    BY DEF HookReturns, Returned
  <1>2. /\ calls # << >> /\ Top.running /\ Top.op # "remove dir" /\ Top.path \in Places
        /\ ~JustRemoved(Top)
    BY <1>1, RunningFacts
  <1>3. Top = calls[Len(calls)] /\ Top \in Call /\ CallInOrder(Top)
    BY <1>2, TopFacts
  <1>4. PICK c \in Call : c = Returned(Top) /\ ReturnedAs(Top, c)
    BY <1>3, ReturnedFacts
  <1>5. /\ CallInOrder(c) /\ c.op = Top.op /\ c.path = Top.path /\ c.op # "remove dir"
        /\ AsBefore(Top, c)
    <2>1. /\ c.op = Top.op /\ c.path = Top.path /\ c.op # "remove dir"
          /\ c.event = Top.event /\ c.stage = Top.stage /\ c.rest = Top.rest
      BY <1>2, <1>4 DEF ReturnedAs
    <2>2. CallInOrder(c)
      BY <1>2, <1>3, <2>1 DEF CallInOrder
    <2>3. AsBefore(Top, c)
      BY <1>4 DEF ReturnedAs, AsBefore
    <2>. QED
      BY <2>1, <2>2, <2>3
  <1>6. PICK t : t = SetTop(c)
    OBVIOUS
  <1>7. PICK p \in Places : p = Top.path
    BY <1>2
  <1>8. TopTypes
    BY <1>1 DEF TopTypes, HooksInv, HooksTypeOK
  <1>9. \A r \in Places : Untouched(r)
    BY <1>1 DEF Untouched
  <1>10. ASSUME OnTop(c, t)
         PROVE  PlaceInOrder(calls, p)'
    <2>1. \A i \in DOMAIN t : i \in DOMAIN calls
      BY <1>10 DEF OnTop
    <2>2. ASSUME NEW i \in DOMAIN calls
          PROVE  t[i].path = calls[i].path /\ AsBefore(calls[i], t[i]) /\ i \in DOMAIN t
      <3>1. CASE i = Len(calls)
        BY <1>3, <1>5, <1>10, <3>1 DEF OnTop
      <3>2. CASE i # Len(calls)
        BY <1>10, <3>2 DEF OnTop, AsBefore
      <3>. QED
        BY <3>1, <3>2
    <2>3. ASSUME NEW i \in DOMAIN t, t[i].path = p, JustRemoved(t[i])
          PROVE  i = Len(t)
      <3>1. i \in DOMAIN calls /\ calls[i].path = p /\ JustRemoved(calls[i])
        BY <2>1, <2>2, <2>3 DEF AsBefore, JustRemoved
      <3>2. i = Len(calls)
        BY <3>1, JustRemovedOnTop
      <3>. QED
        BY <1>10, <3>2 DEF OnTop
    <2>4. StackAsBefore(calls, t, p)
      BY <2>1, <2>2, <2>3 DEF StackAsBefore
    <2>5. fs'[p] = fs[p] /\ PlaceInOrder(calls, p)
      BY <1>1 DEF HooksInv
    <2>6. calls \in Seq(Call) /\ t \in Seq(Call) /\ calls' = t
      BY <1>1, <1>4, <1>6, <1>10, CallsType DEF OnTop
    <2>7. Untouched(p)
      BY <1>9
    <2>. QED
      BY <2>4, <2>5, <2>6, <2>7, UntouchedPlace
  <1>. QED
    BY <1>1, <1>2, <1>4, <1>5, <1>6, <1>8, <1>9, <1>10, <1>7, TopKeeps

\* What the place of the call on top sees of that step.
LEMMA TopRight ==
    ASSUME HooksInv, NEW c \in Call, NEW t, OnTop(c, t), calls' = t, NEW q \in Places,
           fs' = fs, recreated' = recreated,
           (q \in unsaved => q \in unsaved') \/ ~SavingWrite(q),
           CallIsRight(t, Len(t), q)'
    PROVE  (\A i \in DOMAIN calls : calls[i].path = q => CallIsRight(calls, i, q))'
  <1>. SUFFICES ASSUME NEW i \in DOMAIN t, t[i].path = q
                PROVE  CallIsRight(t, i, q)'
    OBVIOUS
  <1>1. PICK n : n = Len(calls)
    OBVIOUS
  <1>2. Len(t) = n /\ i \in DOMAIN calls /\ (i # n => t[i] = calls[i])
    BY <1>1 DEF OnTop
  <1>3. CASE i = n
    <2>1. i = Len(t)
      BY <1>2, <1>3
    <2>. QED
      BY <2>1
  <1>4. CASE i # n
    <2>1. CallIsRight(calls, i, q)
      BY <1>2, <1>4 DEF HooksInv, PlaceInOrder
    <2>2. t[i] = calls[i] /\ calls[i].path = q
      BY <1>2, <1>4
    <2>3. calls[i].stage = "write hooks" => SavingWrite(q)
      BY <1>2, <2>2 DEF SavingWrite
    <2>. QED
      BY <1>1, <1>2, <2>1, <2>2, <2>3 DEF CallIsRight, IsFile
  <1>. QED
    BY <1>3, <1>4

LEMMA TopFollows ==
    ASSUME HooksInv, UNCHANGED <<fs, index, store, recreated>>, NEW q \in Places
    PROVE  Follows(q)'
  <1>1. Follows(q)
    BY DEF HooksInv, PlaceInOrder
  <1>. QED
    BY <1>1 DEF Follows, IsFile

\* d tells the path hooks of what the write c did.
TurnedAs(c, d) ==
    /\ d.op = c.op /\ d.path = c.path /\ d.event = c.event /\ d.rest = c.rest
    /\ d.stage = "path hooks" /\ d.hook = 0 /\ d.running = c.running
    /\ d.content = HomeOf(c)[c.path].content
    /\ ~d.stale => c.inTree

LEMMA TurnedFacts ==
    ASSUME fs \in Tree, NEW c \in Call
    PROVE  PathEvent(c) \in Call /\ TurnedAs(c, PathEvent(c))
  <1>1. /\ PathEvent(c) \in Call
        /\ PathEvent(c).op = c.op /\ PathEvent(c).path = c.path
        /\ PathEvent(c).event = c.event /\ PathEvent(c).rest = c.rest
        /\ PathEvent(c).running = c.running
        /\ PathEvent(c).stage = "path hooks" /\ PathEvent(c).hook = 0
        /\ PathEvent(c).stale = ~c.inTree
        /\ PathEvent(c).content = HomeOf(c)[c.path].content
    BY PathEventFacts
  <1>2. ~PathEvent(c).stale => c.inTree
    BY <1>1
  <1>. QED
    BY <1>1, <1>2 DEF TurnedAs

LEMMA TurnKeeps ==
    ASSUME HooksInv, TurnToPathHooks
    PROVE  HooksInv'
  <1>1. /\ calls # << >> /\ Top.stage = "write hooks" /\ Due(Top) = {}
        /\ calls' = SetTop(PathEvent(Top))
        /\ UNCHANGED <<fs, index, store, copy, saved, recreated, astray, unsaved>>
    BY DEF TurnToPathHooks, PathEvent, Waits
  <1>2. /\ Len(calls) \in DOMAIN calls /\ Top = calls[Len(calls)] /\ Top \in Call
        /\ CallInOrder(Top) /\ (Top.op # "remove dir" => Top.path \in Places)
    BY <1>1, TopFacts
  <1>3. Top.op = "write" /\ Top.path \in Places
    BY <1>1, <1>2, CallFields DEF CallInOrder
  <1>4. PICK c \in Call : c = PathEvent(Top) /\ TurnedAs(Top, c)
    BY <1>2, TurnedFacts, CallsType
  <1>5. /\ c.op = "write" /\ c.path = Top.path /\ c.stage = "path hooks" /\ c.hook = 0
        /\ CallInOrder(c)
    BY <1>2, <1>3, <1>4 DEF TurnedAs, CallInOrder
  <1>6. PICK t : t = SetTop(c)
    OBVIOUS
  <1>7. PICK q \in Places : q = Top.path
    BY <1>3
  <1>8. TopTypes
    BY <1>1 DEF TopTypes, HooksInv, HooksTypeOK
  <1>9. \A p \in Places : Untouched(p)
    BY <1>1 DEF Untouched
  <1>10. ASSUME OnTop(c, t)
         PROVE  PlaceInOrder(calls, q)'
    <2>1. PICK n : n = Len(calls) /\ n = Len(t) /\ n \in DOMAIN calls
      BY <1>10 DEF OnTop
    <2>2. /\ DOMAIN t = DOMAIN calls /\ t[n] = c /\ calls[n] = Top
          /\ \A i \in DOMAIN calls : i # n => t[i] = calls[i]
      BY <1>2, <1>10, <2>1 DEF OnTop
    <2>3. calls' = t
      BY <1>1, <1>4, <1>6
    <2>4. PlaceInOrder(calls, q)
      BY DEF HooksInv
    <2>5. CallIsRight(t, n, q)'
      <3>1. CallIsRight(calls, n, q)
        BY <1>7, <2>1, <2>2, <2>4 DEF PlaceInOrder
      <3>2. Top.inTree => IsFile(fs, q)
        BY <1>1, <2>2, <3>1 DEF CallIsRight
      <3>3. ~c.stale => IsFile(fs, q) /\ c.content = fs[q].content
        BY <1>4, <1>7, <3>2 DEF TurnedAs, HomeOf
      <3>. QED
        BY <1>1, <1>5, <2>2, <3>3 DEF CallIsRight, JustRemoved, IsFile
    <2>6. (\A i \in DOMAIN calls : calls[i].path = q => CallIsRight(calls, i, q))'
      BY <1>1, <1>10, <2>1, <2>3, <2>5, TopRight
    <2>7. Follows(q)'
      BY <1>1, TopFollows
    <2>8. CopiesCome(calls, q)'
      <3>. SUFFICES ASSUME q \notin recreated, NEW j \in DOMAIN PathHooks,
                           q \notin astray[j], Under(q, PathHooks[j])
                    PROVE  Copied(j, q) \/ \E i \in DOMAIN t : t[i].path = q /\ Tells(t[i], j)
        BY <1>1, <2>3 DEF CopiesCome, Copied, IsFile
      <3>1. Copied(j, q) \/ \E i \in DOMAIN calls : calls[i].path = q /\ Tells(calls[i], j)
        BY <2>4 DEF PlaceInOrder, CopiesCome
      <3>2. Tells(c, j)
        <4>1. j > 0
          BY HookNumbers
        <4>. QED
          BY <1>5, <1>7, <4>1 DEF Tells
      <3>. QED
        BY <1>5, <1>7, <2>1, <2>2, <3>1, <3>2
    <2>9. SavedComes(calls, q)'
      <3>1. \A i \in DOMAIN calls : calls[i].path = q => ~JustRemoved(calls[i])
        <4>. SUFFICES ASSUME NEW i \in DOMAIN calls, calls[i].path = q, JustRemoved(calls[i])
                      PROVE  FALSE
          OBVIOUS
        <4>1. i = n /\ calls[i].op = "remove"
          BY <2>1, JustRemovedOnTop
        <4>. QED
          BY <1>3, <2>2, <4>1
      <3>2. \A j \in DOMAIN WriteHooks : ~Saves(Top, j)
        BY <1>1 DEF Due, PrefixesFor, Saves
      <3>3. ASSUME NEW i \in DOMAIN calls, NEW j \in DOMAIN WriteHooks, Saves(calls[i], j)
            PROVE  i \in DOMAIN t /\ t[i] = calls[i]
        BY <2>2, <3>2, <3>3
      <3>4. SavedComes(calls, q)
        BY <2>4 DEF PlaceInOrder
      <3>. SUFFICES ASSUME FirstHears, q \notin recreated \cup unsaved,
                           NEW j \in DOMAIN WriteHooks, Under(q, WriteHooks[j])
                    PROVE  IF IsFile(fs, q)
                           THEN /\ saved[j][q].present =>
                                     /\ saved[j][q].version <= fs[q].version
                                     /\ saved[j][q].version = fs[q].version =>
                                          saved[j][q] = Latest(q)
                                /\ \/ saved[j][q] = Latest(q)
                                   \/ \E i \in DOMAIN t : /\ t[i].path = q /\ Saves(t[i], j)
                                                          /\ t[i].version = fs[q].version
                           ELSE \/ saved[j][q] = NoEntry
                                \/ \E i \in DOMAIN t : t[i].path = q /\ JustRemoved(t[i])
        BY <1>1, <2>3 DEF SavedComes, Latest, IsFile
      <3>. QED
        BY <3>1, <3>3, <3>4 DEF SavedComes
    <2>. QED
      BY <2>6, <2>7, <2>8, <2>9 DEF PlaceInOrder
  <1>. QED
    BY <1>1, <1>3, <1>4, <1>5, <1>6, <1>7, <1>8, <1>9, <1>10, TopKeeps

\* The next hook is the first of those that are due.
NextIs(c, j) ==
    /\ j \in DOMAIN PrefixesFor(c) /\ j \in Nat /\ j > 0 /\ j > c.hook
    /\ Under(c.path, PrefixesFor(c)[j])
    /\ \A k \in DOMAIN PrefixesFor(c) :
         Under(c.path, PrefixesFor(c)[k]) /\ k > c.hook => k = j \/ k > j

LEMMA NextHook ==
    ASSUME NEW c \in Call, Due(c) # {}, NEW j, j = Sets!Min(Due(c))
    PROVE  NextIs(c, j)
  <1>1. \A k \in DOMAIN PrefixesFor(c) : k \in Nat /\ k > 0
    BY HookNumbers DEF PrefixesFor
  <1>2. Due(c) \in SUBSET Nat
    BY <1>1 DEF Due
  <1>3. j \in Due(c) /\ \A k \in Due(c) : j <= k
    BY <1>2, LeastNumber
  <1>4. /\ j \in DOMAIN PrefixesFor(c) /\ j > c.hook /\ Under(c.path, PrefixesFor(c)[j])
    BY <1>3 DEF Due
  <1>5. ASSUME NEW k \in DOMAIN PrefixesFor(c), Under(c.path, PrefixesFor(c)[k]), k > c.hook
        PROVE  k = j \/ k > j
    <2>1. k \in Due(c) /\ k \in Nat /\ j \in Nat
      BY <1>1, <1>4, <1>5 DEF Due
    <2>2. j <= k
      BY <1>3, <2>1
    <2>. QED
      BY <2>1, <2>2
  <1>. QED
    BY <1>1, <1>4, <1>5 DEF NextIs

\* The call on top of the stack t is c, with its j-th hook running.
Telling(c, j, t, q) ==
    /\ ToldAs(Top, c, j) /\ NextIs(Top, j) /\ OnTop(c, t) /\ calls' = t
    /\ Top = calls[Len(calls)] /\ Top \in Call /\ CallInOrder(Top) /\ Top.path = q
    /\ Top.op \in {"write", "remove"} /\ ~Top.running
    /\ UNCHANGED <<fs, index, store, recreated>>

\* The j-th write hook is told, and the j-th path hook.
ToldWrite(j, q) ==
    /\ Top.stage = "write hooks"
    /\ saved' = [saved EXCEPT ![j][q] = Flush(@, Top)]
    /\ UNCHANGED <<copy, astray, unsaved>>

ToldPath(j, q) ==
    /\ Top.stage = "path hooks"
    /\ copy' = [copy EXCEPT ![j][q] = Heard(Top)]
    /\ astray' = [astray EXCEPT ![j] = IF Top.stale THEN @ \cup {q} ELSE @ \ {q}]
    /\ \/ /\ j = 1 /\ Top.event = "delete"
          /\ saved' = [i \in DOMAIN saved |-> AdapterDelete(saved[i], {q})]
          /\ unsaved' = IF SavingWrite(q) THEN unsaved ELSE unsaved \ {q}
       \/ /\ ~(j = 1 /\ Top.event = "delete")
          /\ UNCHANGED <<saved, unsaved>>

LEMMA TellingRight ==
    ASSUME HooksInv, NEW c \in Call, NEW j, NEW t, NEW q \in Places, Telling(c, j, t, q),
           (q \in unsaved => q \in unsaved') \/ ~SavingWrite(q)
    PROVE  CallIsRight(t, Len(t), q)'
  <1>1. PICK n : n = Len(calls) /\ n = Len(t) /\ n \in DOMAIN calls
    BY DEF OnTop, Telling
  <1>2. t[n] = c /\ calls[n] = Top /\ Top.path = q /\ fs' = fs /\ recreated' = recreated
    BY <1>1 DEF Telling, OnTop
  <1>3. CallIsRight(calls, n, q)
    BY <1>1, <1>2 DEF HooksInv, PlaceInOrder
  <1>4. ~JustRemoved(c)
    <2>1. c.hook = j /\ j > 0 /\ j \in Nat
      BY DEF Telling, ToldAs, NextIs
    <2>. QED
      BY <2>1 DEF JustRemoved
  <1>5. /\ c.stage = Top.stage /\ c.op = Top.op /\ c.content = Top.content
        /\ c.version = Top.version
    BY DEF Telling, ToldAs
  <1>6. c.stale = Top.stale /\ c.inTree = Top.inTree
    BY DEF Telling, ToldAs
  <1>7. Top.stage = "write hooks" => SavingWrite(q)
    BY <1>1, <1>2 DEF SavingWrite
  <1>. QED
    BY <1>1, <1>2, <1>3, <1>4, <1>5, <1>6, <1>7 DEF CallIsRight, IsFile

\* The other hooks are still to be told.
LEMMA TellingWrite ==
    ASSUME NEW c \in Call, NEW j, NEW t, NEW q, Telling(c, j, t, q),
           Top.stage = "write hooks", NEW k, Tells(Top, k)
    PROVE  Tells(c, k)
  BY DEF Telling, ToldAs, Tells

LEMMA TellingPath ==
    ASSUME NEW c \in Call, NEW j, NEW t, NEW q, Telling(c, j, t, q),
           Top.stage = "path hooks", NEW k \in DOMAIN PathHooks \ {j}, Tells(Top, k)
    PROVE  Tells(c, k)
  <1>1. /\ c.op = Top.op /\ c.path = Top.path /\ c.hook = j
    BY DEF Telling, ToldAs
  <1>2. PrefixesFor(Top) = PathHooks
    BY DEF PrefixesFor
  <1>3. k = j \/ k > j
    BY <1>2 DEF Telling, NextIs, Tells
  <1>. QED
    BY <1>1, <1>3 DEF Tells

LEMMA TellingSaves ==
    ASSUME NEW c \in Call, NEW j, NEW t, NEW q, Telling(c, j, t, q),
           NEW k \in DOMAIN WriteHooks \ {j}, Saves(Top, k)
    PROVE  Saves(c, k) /\ c.version = Top.version
  <1>1. /\ c.stage = Top.stage /\ c.path = Top.path /\ c.hook = j
        /\ c.version = Top.version
    BY DEF Telling, ToldAs
  <1>2. PrefixesFor(Top) = WriteHooks
    BY DEF PrefixesFor, Saves
  <1>3. k = j \/ k > j
    BY <1>2 DEF Telling, NextIs, Saves
  <1>. QED
    BY <1>1, <1>3 DEF Saves

LEMMA TellingCopies ==
    ASSUME HooksInv, NEW c \in Call, NEW j, NEW t, NEW q \in Places, Telling(c, j, t, q),
           ToldWrite(j, q) \/ ToldPath(j, q)
    PROVE  CopiesCome(calls, q)'
  <1>1. PICK n : n = Len(calls) /\ n = Len(t) /\ n \in DOMAIN calls
    BY DEF OnTop, Telling
  <1>2. /\ t[n] = c /\ calls[n] = Top /\ Top.path = q /\ c.path = q
        /\ DOMAIN t = DOMAIN calls
        /\ \A i \in DOMAIN calls : i # n => t[i] = calls[i]
    BY <1>1 DEF Telling, OnTop, ToldAs
  <1>3. fs' = fs /\ recreated' = recreated /\ calls' = t
    BY DEF Telling
  <1>4. PlaceInOrder(calls, q)
    BY DEF HooksInv
  <1>. SUFFICES ASSUME q \notin recreated, NEW k \in DOMAIN PathHooks,
                       q \notin astray'[k], Under(q, PathHooks[k])
                PROVE  Copied(k, q)' \/ \E i \in DOMAIN t : t[i].path = q /\ Tells(t[i], k)
    BY <1>3 DEF CopiesCome
  <1>5. /\ copy \in [DOMAIN PathHooks -> [Path -> [present: BOOLEAN, content: Seq(Data)]]]
        /\ astray \in [DOMAIN PathHooks -> SUBSET Places] /\ q \in Path
    BY PlaceFacts DEF HooksInv, HooksTypeOK
  <1>6. CASE copy'[k][q] = copy[k][q] /\ q \notin astray[k] /\ (Tells(Top, k) => Tells(c, k))
    <2>1. Copied(k, q) \/ \E i \in DOMAIN calls : calls[i].path = q /\ Tells(calls[i], k)
      BY <1>4, <1>6 DEF PlaceInOrder, CopiesCome
    <2>2. CASE Copied(k, q)
      BY <1>3, <1>6, <2>2 DEF Copied, IsFile
    <2>3. ASSUME NEW i \in DOMAIN calls, calls[i].path = q, Tells(calls[i], k)
          PROVE  t[i].path = q /\ Tells(t[i], k)
      BY <1>2, <1>6, <2>3
    <2>. QED
      BY <1>2, <2>1, <2>2, <2>3
  <1>7. CASE ToldWrite(j, q)
    <2>1. copy' = copy /\ astray' = astray /\ Top.stage = "write hooks"
      BY <1>7 DEF ToldWrite
    <2>2. Tells(Top, k) => Tells(c, k)
      BY <2>1, TellingWrite
    <2>. QED
      BY <1>6, <2>1, <2>2
  <1>8. CASE ToldPath(j, q) /\ k # j
    <2>1. copy'[k] = copy[k] /\ astray'[k] = astray[k] /\ Top.stage = "path hooks"
      BY <1>5, <1>8 DEF ToldPath
    <2>2. k \in DOMAIN PathHooks \ {j}
      BY <1>8
    <2>3. Tells(Top, k) => Tells(c, k)
      BY <2>1, <2>2, TellingPath
    <2>. QED
      BY <1>6, <2>1, <2>3
  <1>9. CASE ToldPath(j, q) /\ k = j
    <2>1. copy'[j][q] = Heard(Top) /\ Top.stage = "path hooks"
      BY <1>5, <1>9 DEF ToldPath
    <2>2. ~Top.stale
      BY <1>5, <1>9 DEF ToldPath
    <2>3. CallIsRight(calls, n, q)
      BY <1>1, <1>2, <1>4 DEF PlaceInOrder
    <2>4. (IsFile(fs, q) <=> Top.op = "write") /\ Top.content = fs[q].content
      BY <1>2, <2>1, <2>2, <2>3 DEF CallIsRight
    <2>5. Top.event # "delete" <=> Top.op = "write"
      BY DEF Telling, CallInOrder
    <2>6. Copied(j, q)'
      <3>1. PICK h : h = Heard(Top)
        OBVIOUS
      <3>2. h.present <=> Top.event # "delete"
        BY <3>1 DEF Heard
      <3>3. h.content = Top.content
        BY <3>1 DEF Heard
      <3>4. copy'[j][q] = h
        BY <2>1, <3>1
      <3>5. IsFile(fs', q) <=> h.present
        BY <1>3, <2>4, <2>5, <3>2
      <3>6. fs'[q].content = h.content
        BY <1>3, <2>4, <3>3
      <3>. QED
        BY <3>4, <3>5, <3>6 DEF Copied, IsFile
    <2>. QED
      BY <1>9, <2>6
  <1>. QED
    BY <1>7, <1>8, <1>9

\* The entry e is no newer than version v of the text that l stores.
NoNewer(e, v, l) ==
    e.present => e.version <= v /\ (e.version = v => e = l)

LEMMA FlushFacts ==
    ASSUME NEW e \in Entry, NEW c \in Call, NEW v \in Nat, NEW content \in Seq(Data),
           NEW l, l = StoredEntry(content, v), NoNewer(e, v, l),
           c.version <= v, c.version = v => c.content = content
    PROVE  /\ NoNewer(Flush(e, c), v, l)
           /\ e = l \/ c.version = v => Flush(e, c) = l
  <1>1. c.version \in Nat /\ c.content \in Seq(Data)
    BY CallFields
  <1>2. PICK w \in Nat : w = c.version
    BY <1>1
  <1>3. PICK f : f = StoredEntry(c.content, w)
    OBVIOUS
  <1>4. f.version = w
    BY <1>3 DEF StoredEntry
  <1>5. l.present /\ l.version = v
    BY DEF StoredEntry
  <1>6. w = v => f = l
    BY <1>2, <1>3
  <1>7. Flush(e, c) = IF e.present /\ e.version >= w THEN e ELSE f
    BY <1>2, <1>3 DEF Flush
  <1>8. CASE e.present /\ e.version >= w
    <2>1. Flush(e, c) = e
      BY <1>7, <1>8
    <2>2. ASSUME w = v
          PROVE  e = l
      <3>1. e.version \in Nat /\ e.version <= v /\ (e.version = v => e = l)
        BY <1>8 DEF NoNewer, Entry
      <3>2. e.version = v
        BY <1>8, <2>2, <3>1
      <3>. QED
        BY <3>1, <3>2
    <2>. QED
      BY <1>2, <2>1, <2>2
  <1>9. CASE ~(e.present /\ e.version >= w)
    <2>1. Flush(e, c) = f
      BY <1>7, <1>9
    <2>2. w <= v
      BY <1>2
    <2>3. e = l => FALSE
      BY <1>5, <1>9, <2>2
    <2>4. NoNewer(f, v, l)
      BY <1>4, <1>6, <2>2 DEF NoNewer
    <2>. QED
      BY <1>2, <1>6, <2>1, <2>3, <2>4
  <1>. QED
    BY <1>8, <1>9

\* The entry e of the write hook k for the place p is as SavedComes asks.
SavedIs(e, s, k, p) ==
    /\ IsFile(fs, p) =>
         /\ NoNewer(e, fs[p].version, Latest(p))
         /\ \/ e = Latest(p)
            \/ \E i \in DOMAIN s : /\ s[i].path = p /\ Saves(s[i], k)
                                   /\ s[i].version = fs[p].version
    /\ ~IsFile(fs, p) =>
         \/ e = NoEntry
         \/ \E i \in DOMAIN s : s[i].path = p /\ JustRemoved(s[i])

LEMMA SavedWas ==
    ASSUME NEW s, NEW p, SavedComes(s, p), FirstHears, p \notin recreated \cup unsaved,
           NEW k \in DOMAIN WriteHooks, Under(p, WriteHooks[k])
    PROVE  SavedIs(saved[k][p], s, k, p)
  BY DEF SavedComes, SavedIs, NoNewer

LEMMA SavedWillBe ==
    ASSUME NEW t, calls' = t, fs' = fs, NEW p \in Places,
           FirstHears /\ p \notin recreated' \cup unsaved' =>
               \A k \in DOMAIN WriteHooks : Under(p, WriteHooks[k]) =>
                   SavedIs(saved'[k][p], t, k, p)
    PROVE  SavedComes(calls, p)'
  <1>. SUFFICES ASSUME FirstHears, p \notin recreated' \cup unsaved',
                       NEW j \in DOMAIN WriteHooks, Under(p, WriteHooks[j])
                PROVE  IF IsFile(fs, p)
                       THEN /\ saved'[j][p].present =>
                                 /\ saved'[j][p].version <= fs[p].version
                                 /\ saved'[j][p].version = fs[p].version =>
                                      saved'[j][p] = Latest(p)
                            /\ \/ saved'[j][p] = Latest(p)
                               \/ \E i \in DOMAIN t : /\ t[i].path = p /\ Saves(t[i], j)
                                                      /\ t[i].version = fs[p].version
                       ELSE \/ saved'[j][p] = NoEntry
                            \/ \E i \in DOMAIN t : t[i].path = p /\ JustRemoved(t[i])
    BY DEF SavedComes, Latest, IsFile
  <1>1. SavedIs(saved'[j][p], t, j, p)
    OBVIOUS
  <1>. QED
    BY <1>1 DEF SavedIs, NoNewer

LEMMA TellingSavedByWrite ==
    ASSUME HooksInv, NEW c \in Call, NEW j, NEW t, NEW q \in Places, Telling(c, j, t, q),
           ToldWrite(j, q)
    PROVE  SavedComes(calls, q)'
  <1>1. PICK n : n = Len(calls) /\ n = Len(t) /\ n \in DOMAIN calls
    BY DEF OnTop, Telling
  <1>2. /\ t[n] = c /\ calls[n] = Top /\ Top.path = q /\ c.path = q
        /\ DOMAIN t = DOMAIN calls
        /\ \A i \in DOMAIN calls : i # n => t[i] = calls[i]
    BY <1>1 DEF Telling, OnTop, ToldAs
  <1>3. /\ fs' = fs /\ recreated' = recreated /\ calls' = t /\ unsaved' = unsaved
        /\ Top.stage = "write hooks" /\ Top \in Call
    BY DEF Telling, ToldWrite
  <1>4. PlaceInOrder(calls, q)
    BY DEF HooksInv
  <1>5. ASSUME FirstHears, q \notin recreated \cup unsaved,
               NEW k \in DOMAIN WriteHooks, Under(q, WriteHooks[k])
        PROVE  SavedIs(saved'[k][q], t, k, q)
    <2>1. CallIsRight(calls, n, q)
      BY <1>1, <1>2, <1>4 DEF PlaceInOrder
    <2>2. /\ IsFile(fs, q) /\ Top.version <= fs[q].version
          /\ Top.version = fs[q].version => Top.content = fs[q].content
      BY <1>2, <1>3, <1>5, <2>1 DEF CallIsRight
    <2>3. SavedIs(saved[k][q], calls, k, q)
      BY <1>4, <1>5, SavedWas DEF PlaceInOrder
    <2>4. PICK e : e = saved[k][q]
      OBVIOUS
    <2>5. PICK v \in Nat, content \in Seq(Data) : v = fs[q].version /\ content = fs[q].content
      <3>1. fs[q] \in Node
        BY CallsType, PlaceFacts DEF Tree
      <3>. QED
        BY <3>1 DEF Node
    <2>6. PICK l : l = Latest(q) /\ l = StoredEntry(content, v)
      BY <2>5 DEF Latest
    <2>7. saved \in [DOMAIN WriteHooks -> Store] /\ q \in Path
      BY PlaceFacts DEF HooksInv, HooksTypeOK
    <2>8. e \in Entry
      BY <1>5, <2>4, <2>7 DEF Store
    <2>9. /\ NoNewer(e, v, l)
          /\ \/ e = l
             \/ \E i \in DOMAIN calls : /\ calls[i].path = q /\ Saves(calls[i], k)
                                        /\ calls[i].version = v
      BY <2>2, <2>3, <2>4, <2>5, <2>6 DEF SavedIs
    <2>10. CASE k = j
      <3>1. saved'[k][q] = Flush(e, Top)
        BY <1>5, <2>4, <2>7, <2>10 DEF ToldWrite, Store
      <3>2. NoNewer(Flush(e, Top), v, l) /\ (e = l \/ Top.version = v => Flush(e, Top) = l)
        <4>1. PICK d \in Call : d = Top
          BY <1>3
        <4>2. d.version <= v /\ (d.version = v => d.content = content)
          BY <2>2, <2>5, <4>1
        <4>3. l = StoredEntry(content, v) /\ NoNewer(e, v, l)
          BY <2>6, <2>9
        <4>4. NoNewer(Flush(e, d), v, l) /\ (e = l \/ d.version = v => Flush(e, d) = l)
          BY <2>8, <4>2, <4>3, FlushFacts
        <4>. QED
          BY <4>1, <4>4
      <3>3. ASSUME NEW i \in DOMAIN calls, calls[i].path = q, Saves(calls[i], k),
                   calls[i].version = v, Top.version # v
            PROVE  t[i] = calls[i] /\ i \in DOMAIN t
        BY <1>2, <3>3
      <3>4. \/ Flush(e, Top) = l
            \/ \E i \in DOMAIN t : t[i].path = q /\ Saves(t[i], k) /\ t[i].version = v
        BY <2>9, <3>2, <3>3
      <3>. QED
        BY <2>2, <2>5, <2>6, <3>1, <3>2, <3>4 DEF SavedIs
    <2>11. CASE k # j
      <3>1. saved'[k][q] = e
        BY <1>5, <2>4, <2>7, <2>11 DEF ToldWrite
      <3>2. k \in DOMAIN WriteHooks \ {j}
        BY <1>5, <2>11
      <3>3. Saves(Top, k) => Saves(c, k) /\ c.version = Top.version
        BY <3>2, TellingSaves
      <3>4. ASSUME NEW i \in DOMAIN calls, calls[i].path = q, Saves(calls[i], k),
                   calls[i].version = v
            PROVE  /\ i \in DOMAIN t /\ t[i].path = q /\ Saves(t[i], k)
                   /\ t[i].version = v
        BY <1>2, <3>3, <3>4
      <3>5. \/ e = l
            \/ \E i \in DOMAIN t : t[i].path = q /\ Saves(t[i], k) /\ t[i].version = v
        BY <2>9, <3>4
      <3>. QED
        BY <2>2, <2>5, <2>6, <2>9, <3>1, <3>5 DEF SavedIs
    <2>. QED
      BY <2>10, <2>11
  <1>. QED
    BY <1>3, <1>5, SavedWillBe

\* The first path hook hears that a file is gone.
LEMMA ForgottenSaved ==
    ASSUME saved \in [DOMAIN WriteHooks -> Store], NEW q \in Path,
           saved' = [i \in DOMAIN saved |-> AdapterDelete(saved[i], {q})]
    PROVE  /\ saved' \in [DOMAIN WriteHooks -> Store]
           /\ \A k \in DOMAIN WriteHooks : saved'[k][q] = NoEntry
           /\ \A k \in DOMAIN WriteHooks, p \in Path \ {q} : saved'[k][p] = saved[k][p]
  <1>1. ASSUME NEW k \in DOMAIN WriteHooks
        PROVE  /\ saved'[k] \in Store /\ saved'[k][q] = NoEntry
               /\ \A p \in Path \ {q} : saved'[k][p] = saved[k][p]
    <2>1. PICK st \in Store : st = saved[k]
      OBVIOUS
    <2>2. saved'[k] = AdapterDelete(st, {q})
      BY <2>1
    <2>3. /\ AdapterDelete(st, {q}) \in Store
          /\ AdapterDelete(st, {q})[q] = NoEntry
          /\ \A p \in Path \ {q} : AdapterDelete(st, {q})[p] = st[p]
      BY DeleteFacts
    <2>. QED
      BY <2>1, <2>2, <2>3
  <1>2. DOMAIN saved' = DOMAIN WriteHooks /\ saved' = [k \in DOMAIN WriteHooks |-> saved'[k]]
    OBVIOUS
  <1>. QED
    BY <1>1, <1>2

LEMMA TellingSavedByPath ==
    ASSUME HooksInv, NEW c \in Call, NEW j, NEW t, NEW q \in Places, Telling(c, j, t, q),
           ToldPath(j, q)
    PROVE  SavedComes(calls, q)'
  <1>1. PICK n : n = Len(calls) /\ n = Len(t) /\ n \in DOMAIN calls
    BY DEF OnTop, Telling
  <1>2. /\ t[n] = c /\ calls[n] = Top /\ Top.path = q /\ c.path = q
        /\ DOMAIN t = DOMAIN calls
        /\ \A i \in DOMAIN calls : i # n => t[i] = calls[i]
    BY <1>1 DEF Telling, OnTop, ToldAs
  <1>3. /\ fs' = fs /\ recreated' = recreated /\ calls' = t
        /\ Top.stage = "path hooks" /\ Top \in Call /\ CallInOrder(Top)
    BY DEF Telling, ToldPath
  <1>4. PlaceInOrder(calls, q)
    BY DEF HooksInv
  <1>5. saved \in [DOMAIN WriteHooks -> Store] /\ q \in Path
    BY PlaceFacts DEF HooksInv, HooksTypeOK
  <1>6. CASE j = 1 /\ Top.event = "delete"
    <2>1. JustRemoved(Top)
      <3>1. Top.op = "remove"
        BY <1>3, <1>6 DEF Telling, CallInOrder
      <3>2. j > Top.hook /\ Top.hook \in Nat
        BY <1>3, CallFields DEF Telling, NextIs
      <3>3. Top.hook = 0
        BY <1>6, <3>2
      <3>. QED
        BY <3>1, <3>3 DEF JustRemoved
    <2>2. ~IsFile(fs, q)
      BY <1>1, <1>2, <1>4, <2>1 DEF PlaceInOrder, CallIsRight
    <2>3. ASSUME NEW k \in DOMAIN WriteHooks
          PROVE  SavedIs(saved'[k][q], t, k, q)
      <3>1. saved' = [i \in DOMAIN saved |-> AdapterDelete(saved[i], {q})]
        BY <1>6 DEF ToldPath
      <3>2. saved'[k][q] = NoEntry
        BY <1>5, <3>1, ForgottenSaved
      <3>. QED
        BY <2>2, <3>2 DEF SavedIs
    <2>. QED
      BY <1>3, <2>3, SavedWillBe
  <1>7. CASE ~(j = 1 /\ Top.event = "delete")
    <2>1. saved' = saved /\ unsaved' = unsaved
      BY <1>7 DEF ToldPath
    <2>2. ASSUME FirstHears, q \notin recreated \cup unsaved,
                 NEW k \in DOMAIN WriteHooks, Under(q, WriteHooks[k])
          PROVE  SavedIs(saved'[k][q], t, k, q)
      <3>1. SavedIs(saved[k][q], calls, k, q)
        BY <1>4, <2>2, SavedWas DEF PlaceInOrder
      <3>2. ~Saves(Top, k)
        BY <1>3 DEF Saves
      <3>3. \A i \in DOMAIN calls : Saves(calls[i], k) => i \in DOMAIN t /\ t[i] = calls[i]
        BY <1>2, <3>2
      <3>4. ~JustRemoved(Top)
        <4>. SUFFICES ASSUME JustRemoved(Top)
                      PROVE  FALSE
          OBVIOUS
        <4>1. Top.hook = 0 /\ Top.event = "delete"
          BY <1>3 DEF JustRemoved, CallInOrder
        <4>2. 1 \in DOMAIN PathHooks /\ Under(q, PathHooks[1])
          BY <2>2 DEF FirstHears
        <4>3. PrefixesFor(Top) = PathHooks
          BY <1>3 DEF PrefixesFor
        <4>4. 1 > Top.hook
          BY <4>1
        <4>5. 1 = j \/ 1 > j
          BY <1>2, <4>2, <4>3, <4>4 DEF Telling, NextIs
        <4>6. j \in Nat /\ j > 0
          BY DEF Telling, NextIs
        <4>7. j = 1
          BY <4>5, <4>6
        <4>. QED
          BY <1>7, <4>1, <4>7
      <3>5. \A i \in DOMAIN calls : calls[i].path = q => ~JustRemoved(calls[i])
        BY <1>1, <1>2, <3>4, JustRemovedOnTop
      <3>. QED
        BY <2>1, <3>1, <3>3, <3>5 DEF SavedIs
    <2>. QED
      BY <1>3, <2>1, <2>2, SavedWillBe
  <1>. QED
    BY <1>6, <1>7

LEMMA TellKeeps ==
    ASSUME HooksInv, TellHook
    PROVE  HooksInv'
  <1>1. PICK j : j = Sets!Min(Due(Top))
    OBVIOUS
  <1>2. /\ calls # << >> /\ ~Top.running /\ Top.op # "remove dir" /\ Due(Top) # {}
        /\ calls' = SetTop(Told(Top, j))
        /\ UNCHANGED <<fs, index, store, recreated>>
    BY <1>1 DEF TellHook, Waits, Told
  <1>3. /\ Len(calls) \in DOMAIN calls /\ Top = calls[Len(calls)] /\ Top \in Call
        /\ CallInOrder(Top) /\ Top.path \in Places
    BY <1>2, TopFacts
  <1>4. PICK q \in Places : q = Top.path
    BY <1>3
  <1>5. Top.op \in {"write", "remove"}
    BY <1>2, <1>3, CallFields
  <1>6. Top.stage \in {"write hooks", "path hooks"}
    BY <1>3, <1>5 DEF CallInOrder
  <1>7. ToldWrite(j, q) \/ ToldPath(j, q)
    <2>1. CASE Top.stage = "write hooks"
      BY <1>1, <1>4, <2>1 DEF TellHook, ToldWrite
    <2>2. CASE Top.stage = "path hooks"
      <3>1. Top.stage # "write hooks"
        BY <2>2
      <3>. QED
        BY <1>1, <1>4, <2>2, <3>1 DEF TellHook, ToldPath
    <2>. QED
      BY <1>6, <2>1, <2>2
  <1>8. NextIs(Top, j)
    BY <1>1, <1>2, <1>3, NextHook
  <1>9. PICK c \in Call : c = Told(Top, j) /\ ToldAs(Top, c, j)
    BY <1>3, <1>8, ToldFacts DEF NextIs
  <1>10. PICK t : t = SetTop(c)
    OBVIOUS
  <1>11. /\ CallInOrder(c) /\ c.op = Top.op /\ c.path = Top.path /\ c.op # "remove dir"
    BY <1>2, <1>3, <1>9 DEF ToldAs, CallInOrder
  <1>12. (q \in unsaved => q \in unsaved') \/ ~SavingWrite(q)
    BY <1>7 DEF ToldWrite, ToldPath
  <1>13. ASSUME OnTop(c, t)
         PROVE  PlaceInOrder(calls, q)'
    <2>1. Telling(c, j, t, q)
      BY <1>2, <1>3, <1>4, <1>5, <1>8, <1>9, <1>10, <1>13 DEF Telling
    <2>2. CallIsRight(t, Len(t), q)'
      BY <1>12, <2>1, TellingRight
    <2>3. calls' = t /\ fs' = fs /\ recreated' = recreated
      BY <1>2, <1>9, <1>10
    <2>4. (\A i \in DOMAIN calls : calls[i].path = q => CallIsRight(calls, i, q))'
      BY <1>12, <1>13, <2>2, <2>3, TopRight
    <2>5. Follows(q)'
      BY <1>2, TopFollows
    <2>6. CopiesCome(calls, q)'
      BY <1>7, <2>1, TellingCopies
    <2>7. SavedComes(calls, q)'
      BY <1>7, <2>1, TellingSavedByWrite, TellingSavedByPath
    <2>. QED
      BY <2>4, <2>5, <2>6, <2>7 DEF PlaceInOrder
  <1>14. /\ copy \in [DOMAIN PathHooks -> [Path -> [present: BOOLEAN, content: Seq(Data)]]]
         /\ saved \in [DOMAIN WriteHooks -> Store]
         /\ astray \in [DOMAIN PathHooks -> SUBSET Places]
         /\ unsaved \subseteq Places /\ q \in Path
    BY PlaceFacts DEF HooksInv, HooksTypeOK
  <1>15. TopTypes
    <2>1. CASE ToldWrite(j, q)
      <3>1. Flush(saved[j][q], Top) \in Entry
        <4>1. j \in DOMAIN WriteHooks
          BY <1>8, <2>1 DEF NextIs, PrefixesFor, ToldWrite
        <4>2. saved[j][q] \in Entry
          BY <1>14, <4>1 DEF Store
        <4>3. Top.content \in Seq(Data) /\ Top.version \in Nat
          BY <1>3, CallFields
        <4>4. StoredEntry(Top.content, Top.version) \in Entry
          BY <4>3 DEF StoredEntry, Entry
        <4>. QED
          BY <4>2, <4>4 DEF Flush
      <3>2. saved' \in [DOMAIN WriteHooks -> Store]
        BY <1>14, <2>1, <3>1 DEF ToldWrite, Store
      <3>. QED
        BY <1>2, <1>14, <2>1, <3>2 DEF ToldWrite, TopTypes
    <2>2. CASE ToldPath(j, q)
      <3>1. copy' \in [DOMAIN PathHooks -> [Path -> [present: BOOLEAN, content: Seq(Data)]]]
        <4>1. Heard(Top) \in [present: BOOLEAN, content: Seq(Data)]
          BY <1>3, CallFields DEF Heard
        <4>. QED
          BY <1>14, <2>2, <4>1 DEF ToldPath
      <3>2. astray' \in [DOMAIN PathHooks -> SUBSET Places]
        BY <1>14, <2>2 DEF ToldPath
      <3>3. saved' \in [DOMAIN WriteHooks -> Store]
        <4>1. CASE UNCHANGED saved
          BY <1>14, <4>1
        <4>2. CASE saved' = [i \in DOMAIN saved |-> AdapterDelete(saved[i], {q})]
          BY <1>14, <4>2, ForgottenSaved
        <4>. QED
          BY <2>2, <4>1, <4>2 DEF ToldPath
      <3>4. unsaved' \subseteq Places
        BY <1>14, <2>2 DEF ToldPath
      <3>. QED
        BY <1>2, <3>1, <3>2, <3>3, <3>4 DEF TopTypes
    <2>. QED
      BY <1>7, <2>1, <2>2
  <1>16. ASSUME NEW p \in Places \ {q}
         PROVE  Untouched(p)
    <2>0. p \in Path /\ p # q
      BY PlaceFacts
    <2>1. CASE ToldWrite(j, q)
      <3>1. \A k \in DOMAIN WriteHooks : saved'[k][p] = saved[k][p]
        BY <1>14, <2>0, <2>1 DEF ToldWrite, Store
      <3>. QED
        BY <1>2, <2>1, <3>1 DEF Untouched, ToldWrite
    <2>2. CASE ToldPath(j, q)
      <3>1. \A k \in DOMAIN WriteHooks : saved'[k][p] = saved[k][p]
        <4>1. CASE UNCHANGED saved
          BY <4>1
        <4>2. CASE saved' = [i \in DOMAIN saved |-> AdapterDelete(saved[i], {q})]
          <5>1. p \in Path \ {q}
            BY <2>0
          <5>. QED
            BY <1>14, <4>2, <5>1, ForgottenSaved
        <4>. QED
          BY <2>2, <4>1, <4>2 DEF ToldPath
      <3>2. \A k \in DOMAIN PathHooks : copy'[k][p] = copy[k][p]
        BY <1>14, <2>0, <2>2 DEF ToldPath
      <3>3. \A k \in DOMAIN PathHooks : p \in astray[k] => p \in astray'[k]
        BY <1>14, <2>0, <2>2 DEF ToldPath
      <3>4. p \in unsaved => p \in unsaved'
        BY <2>0, <2>2 DEF ToldPath
      <3>. QED
        BY <1>2, <3>1, <3>2, <3>3, <3>4 DEF Untouched
    <2>. QED
      BY <1>7, <2>1, <2>2
  <1>. QED
    BY <1>2, <1>4, <1>9, <1>10, <1>11, <1>13, <1>15, <1>16, TopKeeps

-----------------------------------------------------------------------------
(* A call ends. *)

\* The stack t is the calls under way without the top, and possibly without
\* recursive removes that it was called from.
Ended(t) ==
    /\ t \in Seq(Call) /\ StackInOrder(t) /\ Len(t) <= MaxCalls
    /\ \A i \in DOMAIN t : i \in DOMAIN calls /\ i # Len(calls) /\ t[i] = calls[i]
    /\ \A i \in DOMAIN calls :
         i \in DOMAIN t \/ i = Len(calls) \/ calls[i].op = "remove dir"

LEMMA CallsBelow ==
    ASSUME HooksInv, calls # << >>, NEW s, s = Seqs!Front(calls)
    PROVE  TopCalls(s) /\ Ended(s)
  <1>1. calls \in Seq(Call) /\ StackInOrder(calls) /\ MaxCalls \in Nat
    BY CallsType
  <1>2. Len(calls) <= MaxCalls
    BY DEF HooksInv, HooksTypeOK
  <1>3. PICK n \in Nat \ {0} : n = Len(calls)
    BY <1>1, FrontFacts
  <1>4. PICK m \in Nat : m = n - 1
    OBVIOUS
  <1>5. s = SubSeq(calls, 1, m) /\ m \in 0..Len(calls)
    BY <1>1, <1>3, <1>4, FrontFacts
  <1>6. s \in Seq(Call) /\ Len(s) = m /\ \A i \in 1..m : s[i] = calls[i]
    BY <1>1, <1>5, CutFacts
  <1>7. StackInOrder(s)
    BY <1>1, <1>5, StackCut
  <1>8. DOMAIN s = 1..m
    BY <1>6
  <1>9. DOMAIN calls = 1..n
    BY <1>1, <1>3
  <1>10. m <= MaxCalls
    BY <1>1, <1>2, <1>3, <1>4
  <1>11. \A i \in 1..m : i \in 1..n /\ i # n /\ i < n
    BY <1>4
  <1>12. \A i \in 1..n : i \in 1..m \/ i = n
    BY <1>4
  <1>13. Ended(s)
    BY <1>3, <1>6, <1>7, <1>8, <1>9, <1>10, <1>11, <1>12 DEF Ended
  <1>14. TopCalls(s)
    <2>. SUFFICES ASSUME s # << >>
                  PROVE  s[Len(s)].running \/ s[Len(s)].op = "remove dir"
      BY DEF TopCalls
    <2>1. m \in 1..m
      BY <1>6
    <2>2. m \in 1..n /\ m < n /\ s[m] = calls[m]
      BY <1>6, <1>11, <2>1
    <2>3. calls[m].running \/ calls[m].op = "remove dir"
      BY <1>1, <1>3, <1>9, <2>2 DEF StackInOrder
    <2>. QED
      BY <1>6, <2>2, <2>3
  <1>. QED
    BY <1>13, <1>14

LEMMA CallsUnwound ==
    ASSUME HooksInv, calls # << >>, NEW s, s = Seqs!Front(calls)
    PROVE  Ended(Unwound(s))
  <1>1. TopCalls(s) /\ Ended(s) /\ s \in Seq(Call) /\ StackInOrder(s) /\ Len(s) <= MaxCalls
    BY CallsBelow DEF Ended
  <1>2. PICK t : t = Unwound(s)
    OBVIOUS
  <1>3. /\ t \in Seq(Call) /\ Len(t) <= Len(s) /\ StackInOrder(t) /\ WithoutRemoves(s, t)
    BY <1>1, <1>2, UnwoundStack
  <1>4. Len(t) <= MaxCalls
    <2>1. Len(t) \in Nat /\ Len(s) \in Nat /\ MaxCalls \in Nat
      BY <1>1, <1>3, CallsType
    <2>. QED
      BY <1>1, <1>3, <2>1
  <1>5. Ended(t)
    BY <1>1, <1>3, <1>4 DEF Ended, WithoutRemoves
  <1>. QED
    BY <1>2, <1>5

\* Nobody is owed anything by the call that ends.
OwesNothing(c, q) ==
    /\ JustRemoved(c) =>
         ~(FirstHears /\ \E j \in DOMAIN WriteHooks : Under(q, WriteHooks[j]))
    /\ \A j \in DOMAIN PathHooks : Tells(c, j) => q \in astray'[j]
    /\ \A j \in DOMAIN WriteHooks : Saves(c, j) => q \in unsaved'

LEMMA EndKeeps ==
    ASSUME HooksInv, calls # << >>, NEW t, calls' = t, Ended(t),
           NEW q \in Places, q = Top.path, Top.op # "remove dir",
           TopTypes, \A p \in Places : Untouched(p), OwesNothing(Top, q)
    PROVE  HooksInv'
  <1>1. Len(calls) \in DOMAIN calls /\ Top = calls[Len(calls)] /\ calls \in Seq(Call)
    BY TopFacts, CallsType
  <1>2. t \in Seq(Call) /\ StackInOrder(t) /\ Len(t) <= MaxCalls
    BY DEF Ended
  <1>3. \A i \in DOMAIN t : i \in DOMAIN calls /\ i # Len(calls) /\ t[i] = calls[i]
    BY DEF Ended
  <1>4. HooksTypeOK'
    <2>1. /\ fs \in Tree /\ WellFormed(fs) /\ index \in [Path -> Seq(Data)]
          /\ store \in Store /\ recreated \subseteq Places
      BY DEF HooksInv, HooksTypeOK
    <2>2. fs' = fs /\ index' = index /\ store' = store /\ recreated' = recreated
      BY DEF TopTypes
    <2>3. WellFormed(fs)'
      BY <2>1, <2>2 DEF WellFormed, Exists, IsDir
    <2>. QED
      BY <1>2, <2>1, <2>2, <2>3 DEF HooksTypeOK, TopTypes
  <1>5. ASSUME NEW p \in Places
        PROVE  PlaceInOrder(calls, p)' /\ RemovalsSee(calls, p)'
    <2>1. fs' = fs /\ recreated' = recreated
      BY DEF TopTypes
    <2>2. PlaceInOrder(calls, p) /\ RemovalsSee(calls, p)
      BY DEF HooksInv
    <2>3. ASSUME NEW i \in DOMAIN t, t[i].path = p
          PROVE  /\ i \in DOMAIN calls /\ calls[i].path = p /\ AsBefore(calls[i], t[i])
                 /\ ~JustRemoved(t[i])
      <3>1. i \in DOMAIN calls /\ i # Len(calls) /\ t[i] = calls[i]
        BY <1>3
      <3>2. ~JustRemoved(t[i])
        BY <2>3, <3>1, JustRemovedOnTop
      <3>. QED
        BY <2>3, <3>1, <3>2 DEF AsBefore
    <2>4. ASSUME NEW i \in DOMAIN calls, calls[i].path = p
          PROVE  \/ i \in DOMAIN t /\ t[i].path = p /\ AsBefore(calls[i], t[i])
                 \/ OwesNothing(calls[i], p)
      <3>1. calls[i].op # "remove dir"
        BY <2>4, CallsType, RemovesOfDirs
      <3>2. i \in DOMAIN t \/ i = Len(calls)
        BY <3>1 DEF Ended
      <3>3. CASE i \in DOMAIN t
        BY <1>3, <2>4, <3>3 DEF AsBefore
      <3>4. CASE i = Len(calls)
        <4>1. calls[i] = Top /\ p = q
          BY <1>1, <2>4, <3>4
        <4>. QED
          BY <4>1
      <3>. QED
        BY <3>2, <3>3, <3>4
    <2>5. StackAsBefore(calls, t, p)
      BY <2>3, <2>4 DEF StackAsBefore, OwesNothing
    <2>6. fs'[p] = fs[p]
      BY <2>1
    <2>7. PlaceInOrder(calls, p)'
      BY <1>1, <1>2, <2>2, <2>5, <2>6, UntouchedPlace
    <2>8. (IsFile(fs', p) => IsFile(fs, p)) /\ (p \notin recreated' => p \notin recreated)
      BY <2>1 DEF IsFile
    <2>9. RemovalsSee(calls, p)'
      BY <1>1, <1>2, <1>3, <2>2, <2>8, SeenAsBefore
    <2>. QED
      BY <2>7, <2>9
  <1>6. Bare(fs)' /\ Shape(fs)'
    BY DEF HooksInv, TopTypes, Bare, Shape, IsDir, IsFile, Exists
  <1>. QED
    BY <1>2, <1>4, <1>5, <1>6 DEF HooksInv

LEMMA FirstIsLater ==
    \A h : h = 0 => 1 > h
  OBVIOUS

\* Whoever the path hooks of the call c are, none is still to be told.
LEMMA NoneDue ==
    ASSUME NEW c \in Call, NEW q \in Places, c.path = q, c.stage = "path hooks",
           Due(c) = {}, c.op # "remove dir"
    PROVE  OwesNothing(c, q)
  <1>1. PrefixesFor(c) = PathHooks
    BY DEF PrefixesFor
  <1>2. \A j \in DOMAIN PathHooks : ~(j > c.hook /\ Under(q, PathHooks[j]))
    BY <1>1 DEF Due
  <1>3. \A j \in DOMAIN PathHooks : ~Tells(c, j)
    BY <1>2 DEF Tells
  <1>4. \A j \in DOMAIN WriteHooks : ~Saves(c, j)
    BY DEF Saves
  <1>5. ASSUME JustRemoved(c), FirstHears, NEW j \in DOMAIN WriteHooks, Under(q, WriteHooks[j])
        PROVE  FALSE
    <2>1. 1 \in DOMAIN PathHooks /\ Under(q, PathHooks[1])
      BY <1>5 DEF FirstHears
    <2>2. c.hook = 0
      BY <1>5 DEF JustRemoved
    <2>3. 1 > c.hook
      BY <2>2, FirstIsLater
    <2>. QED
      BY <1>2, <2>1, <2>3
  <1>. QED
    BY <1>3, <1>4, <1>5 DEF OwesNothing

LEMMA CallReturnsKeeps ==
    ASSUME HooksInv, CallReturns
    PROVE  HooksInv'
  <1>1. /\ calls # << >> /\ Top.stage = "path hooks" /\ Due(Top) = {}
        /\ calls' = Seqs!Front(calls)
        /\ UNCHANGED <<fs, index, store, copy, saved, recreated, astray, unsaved>>
    BY DEF CallReturns, Waits
  <1>2. /\ Top \in Call /\ CallInOrder(Top) /\ (Top.op # "remove dir" => Top.path \in Places)
    BY <1>1, TopFacts
  <1>3. Top.op # "remove dir"
    BY <1>1, <1>2 DEF CallInOrder
  <1>4. PICK q \in Places : q = Top.path
    BY <1>2, <1>3
  <1>5. PICK t : t = Seqs!Front(calls)
    OBVIOUS
  <1>6. calls' = t /\ Ended(t)
    BY <1>1, <1>5, CallsBelow
  <1>7. TopTypes
    BY <1>1 DEF TopTypes, HooksInv, HooksTypeOK
  <1>8. \A p \in Places : Untouched(p)
    BY <1>1 DEF Untouched
  <1>9. OwesNothing(Top, q)
    BY <1>1, <1>2, <1>3, <1>4, NoneDue
  <1>. QED
    BY <1>1, <1>3, <1>4, <1>6, <1>7, <1>8, <1>9, EndKeeps

LEMMA RaiseKeeps ==
    ASSUME HooksInv, HookRaises
    PROVE  HooksInv'
  <1>1. /\ HookRuns /\ calls' = Unwound(Seqs!Front(calls))
        /\ UNCHANGED <<fs, index, store, copy, saved, recreated>>
        /\ astray' = [j \in DOMAIN PathHooks |->
              IF Top.stage = "write hooks" \/ j \in Due(Top)
              THEN astray[j] \cup {Top.path} ELSE astray[j]]
        /\ unsaved' = IF Top.stage = "write hooks" /\ Due(Top) # {}
                      THEN unsaved \cup {Top.path} ELSE unsaved
    BY DEF HookRaises
  <1>2. /\ calls # << >> /\ Top.op # "remove dir" /\ Top.path \in Places /\ ~JustRemoved(Top)
    BY <1>1, RunningFacts
  <1>3. Top \in Call /\ CallInOrder(Top)
    BY <1>2, TopFacts
  <1>4. PICK q \in Places : q = Top.path
    BY <1>2
  <1>5. PICK t : t = Unwound(Seqs!Front(calls))
    OBVIOUS
  <1>6. calls' = t /\ Ended(t)
    BY <1>1, <1>2, <1>5, CallsUnwound
  <1>7. TopTypes
    <2>1. astray \in [DOMAIN PathHooks -> SUBSET Places] /\ unsaved \subseteq Places
      BY DEF HooksInv, HooksTypeOK
    <2>2. astray' \in [DOMAIN PathHooks -> SUBSET Places] /\ unsaved' \subseteq Places
      BY <1>1, <1>2, <2>1
    <2>. QED
      BY <1>1, <2>2 DEF TopTypes, HooksInv, HooksTypeOK
  <1>8. \A p \in Places : Untouched(p)
    <2>1. \A p \in Places : \A j \in DOMAIN PathHooks : p \in astray[j] => p \in astray'[j]
      BY <1>1
    <2>2. \A p \in Places : p \in unsaved => p \in unsaved'
      BY <1>1
    <2>. QED
      BY <1>1, <2>1, <2>2 DEF Untouched
  <1>9. OwesNothing(Top, q)
    <2>1. ASSUME NEW j \in DOMAIN PathHooks, Tells(Top, j)
          PROVE  q \in astray'[j]
      <3>1. Top.stage = "write hooks" \/ j \in Due(Top)
        BY <2>1 DEF Tells, Due, PrefixesFor
      <3>. QED
        BY <1>1, <1>4, <3>1
    <2>2. ASSUME NEW j \in DOMAIN WriteHooks, Saves(Top, j)
          PROVE  q \in unsaved'
      <3>1. Top.stage = "write hooks" /\ j \in Due(Top)
        BY <2>2 DEF Saves, Due, PrefixesFor
      <3>. QED
        BY <1>1, <1>4, <3>1
    <2>. QED
      BY <1>2, <2>1, <2>2 DEF OwesNothing
  <1>. QED
    BY <1>2, <1>4, <1>6, <1>7, <1>8, <1>9, EndKeeps

-----------------------------------------------------------------------------
(* Every step keeps the invariant. *)

LEMMA HooksStart ==
    HooksInit => HooksInv
  <1>. SUFFICES ASSUME HooksInit
                PROVE  HooksInv
    OBVIOUS
  <1>1. /\ fs = EmptyTree /\ index = [p \in Path |-> << >>]
        /\ store = [p \in Path |-> NoEntry] /\ calls = << >>
        /\ copy = [j \in DOMAIN PathHooks |-> [p \in Path |-> Nothing]]
        /\ saved = [j \in DOMAIN WriteHooks |-> [p \in Path |-> NoEntry]]
        /\ recreated = {} /\ astray = [j \in DOMAIN PathHooks |-> {}] /\ unsaved = {}
    BY DEF HooksInit
  <1>2. << >> \in Seq(Data) /\ MaxCalls \in Nat
    BY EmptySeq, HooksAssumption
  <1>3. NoEntry \in Entry /\ Nothing \in [present: BOOLEAN, content: Seq(Data)]
    BY <1>2 DEF NoEntry, Nothing, Entry
  <1>4. fs \in Tree /\ WellFormed(fs)
    BY <1>1, EmptyTreeFacts
  <1>5. \A p \in Path : ~IsFile(fs, p) /\ (IsDir(fs, p) => p = Root)
    BY <1>1, NodeFacts DEF EmptyTree, IsFile, IsDir
  <1>6. Bare(fs) /\ Shape(fs)
    <2>1. Bare(fs)
      BY <1>1 DEF Bare, EmptyTree, Exists, NewDir
    <2>. QED
      BY <1>5, <2>1 DEF Shape
  <1>7. calls \in Seq(Call) /\ Len(calls) = 0 /\ DOMAIN calls = {}
    BY <1>1, EmptySeq
  <1>8. HooksTypeOK
    BY <1>1, <1>2, <1>3, <1>4, <1>7 DEF HooksTypeOK, Store
  <1>9. StackInOrder(calls)
    BY <1>7 DEF StackInOrder
  <1>10. ASSUME NEW p \in Places
         PROVE  PlaceInOrder(calls, p) /\ RemovalsSee(calls, p)
    <2>1. p \in Path /\ p # Root
      BY PlaceFacts
    <2>2. ~IsFile(fs, p) /\ fs[p] = Absent
      BY <1>1, <1>5, <2>1 DEF EmptyTree
    <2>3. fs[p].content = << >>
      BY <2>2 DEF Absent, NewFile, FileNode
    <2>4. Follows(p)
      BY <1>1, <2>1, <2>2, <2>3 DEF Follows
    <2>5. CopiesCome(calls, p)
      BY <1>1, <2>1, <2>2, <2>3 DEF CopiesCome, Copied, Nothing
    <2>6. SavedComes(calls, p)
      BY <1>1, <2>1, <2>2 DEF SavedComes
    <2>. QED
      BY <1>7, <2>4, <2>5, <2>6 DEF PlaceInOrder, RemovalsSee
  <1>. QED
    BY <1>6, <1>8, <1>9, <1>10 DEF HooksInv

LEMMA HooksStutter ==
    ASSUME HooksInv, UNCHANGED vars
    PROVE  HooksInv'
  <1>1. /\ fs' = fs /\ index' = index /\ store' = store /\ calls' = calls /\ copy' = copy
        /\ saved' = saved /\ recreated' = recreated /\ astray' = astray
        /\ unsaved' = unsaved
    BY DEF vars
  <1>2. HooksTypeOK'
    BY <1>1 DEF HooksInv, HooksTypeOK, WellFormed, Exists, IsDir
  <1>3. Bare(fs)' /\ Shape(fs)' /\ StackInOrder(calls)'
    BY <1>1 DEF HooksInv, Bare, Shape, IsDir, IsFile, Exists, StackInOrder
  <1>4. ASSUME NEW p \in Places
        PROVE  PlaceInOrder(calls, p)' /\ RemovalsSee(calls, p)'
    <2>1. PICK t \in Seq(Call) : t = calls
      BY CallsType
    <2>2. PlaceInOrder(t, p) /\ RemovalsSee(t, p)
      BY <2>1 DEF HooksInv
    <2>3. WithoutRemoves(t, t) /\ StackInOrder(t)
      BY <2>1 DEF WithoutRemoves, HooksInv
    <2>4. \A i \in DOMAIN t : t[i].path = p => AsBefore(t[i], t[i])
      BY DEF AsBefore
    <2>5. \A i \in DOMAIN t : t[i].path = p /\ JustRemoved(t[i]) => i = Len(t)
      BY <2>1, JustRemovedOnTop
    <2>6. StackAsBefore(t, t, p)
      BY <2>4, <2>5 DEF StackAsBefore
    <2>7. Untouched(p) /\ fs'[p] = fs[p] /\ calls' = t
      BY <1>1, <2>1 DEF Untouched
    <2>8. PlaceInOrder(calls, p)'
      BY <2>2, <2>6, <2>7, UntouchedPlace
    <2>9. RemovalsSee(calls, p)'
      BY <1>1, <2>1, <2>2 DEF RemovalsSee, IsFile
    <2>. QED
      BY <2>8, <2>9
  <1>. QED
    BY <1>2, <1>3, <1>4 DEF HooksInv

LEMMA HooksStep ==
    ASSUME HooksInv, [HooksNext]_vars
    PROVE  HooksInv'
  <1>1. ASSUME NEW p \in Places, NEW d \in Data, WriteFile(p, d)
        PROVE  HooksInv'
    BY <1>1, WriteKeeps
  <1>2. ASSUME NEW p \in Path, Remove(p)
        PROVE  HooksInv'
    BY <1>2, RemoveKeeps
  <1>3. ASSUME NEW p \in Path, VisitChild(p)
        PROVE  HooksInv'
    BY <1>3, VisitKeeps
  <1>4. CASE DropDirectory
    BY <1>4, DropKeeps
  <1>5. CASE TellHook
    BY <1>5, TellKeeps
  <1>6. CASE HookReturns
    BY <1>6, ReturnKeeps
  <1>7. CASE HookRaises
    BY <1>7, RaiseKeeps
  <1>8. CASE TurnToPathHooks
    BY <1>8, TurnKeeps
  <1>9. CASE CallReturns
    BY <1>9, CallReturnsKeeps
  <1>10. CASE UNCHANGED vars
    BY <1>10, HooksStutter
  <1>. QED
    BY <1>1, <1>2, <1>3, <1>4, <1>5, <1>6, <1>7, <1>8, <1>9, <1>10 DEF HooksNext

LEMMA HooksInvariant ==
    HooksSpec => []HooksInv
  <1>1. HooksInit => HooksInv
    BY HooksStart
  <1>2. HooksInv /\ [HooksNext]_vars => HooksInv'
    BY HooksStep
  <1>. QED
    BY <1>1, <1>2, PTL DEF HooksSpec

-----------------------------------------------------------------------------
(* What the invariant says of the properties that are checked. *)

\* The tree stays well formed, and the entries, copies and calls under way keep
\* their types and bounds, although write_file and remove are called from hooks
\* that run in the middle of them (vfs.py).
THEOREM HooksTypes ==
    HooksSpec => []HooksTypeOK
  <1>1. HooksInv => HooksTypeOK
    BY DEF HooksInv
  <1>. QED
    BY <1>1, HooksInvariant, PTL

\* Whenever a hook runs, the adapter and the index hold what the tree holds,
\* at every depth of writes and removals in one another, whichever of them
\* raised; only what was written below a directory while remove took it apart
\* is excepted.
THEOREM FollowersStay ==
    HooksSpec => []FollowersInStep
  <1>1. ASSUME HooksInv
        PROVE  FollowersInStep
    BY <1>1 DEF HooksInv, PlaceInOrder, Follows, FollowersInStep
  <1>2. HooksInv => FollowersInStep
    BY <1>1
  <1>. QED
    BY <1>2, HooksInvariant, PTL

\* A path hook that copies the texts it is given has the texts of the tree when
\* no call is under way for the file, in whatever order writes and removals in
\* one another were told to it, except for a file that it was not told of or
\* told late (_emit_path_event).
THEOREM CopiesFollow ==
    HooksSpec => []CopyFollows
  <1>1. ASSUME HooksInv
        PROVE  CopyFollows
    <2>. SUFFICES ASSUME NEW j \in DOMAIN PathHooks,
                         NEW p \in Places \ (recreated \cup astray[j]),
                         Under(p, PathHooks[j]), ~Pending(p)
                  PROVE  copy[j][p] = [present |-> IsFile(fs, p), content |-> fs[p].content]
      BY DEF CopyFollows
    <2>1. CopiesCome(calls, p)
      BY <1>1 DEF HooksInv, PlaceInOrder
    <2>2. Copied(j, p)
      BY <2>1 DEF CopiesCome, Pending
    <2>3. copy[j][p] \in [present: BOOLEAN, content: Seq(Data)]
      <3>1. p \in Path
        BY PlaceFacts
      <3>. QED
        BY <1>1, <3>1 DEF HooksInv, HooksTypeOK
    <2>4. PICK b \in BOOLEAN : b = IsFile(fs, p)
      BY DEF IsFile
    <2>5. copy[j][p].present = b
      BY <2>2, <2>3, <2>4 DEF Copied
    <2>6. copy[j][p].content = fs[p].content
      BY <2>2 DEF Copied
    <2>7. copy[j][p] = [present |-> copy[j][p].present, content |-> copy[j][p].content]
      BY <2>3
    <2>. QED
      BY <2>4, <2>5, <2>6, <2>7
  <1>2. HooksInv => CopyFollows
    BY <1>1
  <1>. QED
    BY <1>2, HooksInvariant, PTL

\* A write hook that keeps the highest version it is told of has the latest
\* text when no call is under way for the file, although a write in a hook
\* reaches the hooks after it before the write it is in does
\* (_emit_write_event); what it has of removed files is dropped by the first
\* path hook, which has to hear of the same files.
THEOREM FlushesAreLatest ==
    ASSUME FirstHears
    PROVE  HooksSpec => []FlushedIsLatest
  <1>1. ASSUME HooksInv
        PROVE  FlushedIsLatest
    <2>. SUFFICES ASSUME NEW j \in DOMAIN WriteHooks,
                         NEW p \in Places \ (recreated \cup unsaved),
                         Under(p, WriteHooks[j]), ~Pending(p)
                  PROVE  saved[j][p] = IF IsFile(fs, p) THEN Latest(p) ELSE NoEntry
      BY DEF FlushedIsLatest, Latest
    <2>1. SavedComes(calls, p)
      BY <1>1 DEF HooksInv, PlaceInOrder
    <2>2. SavedIs(saved[j][p], calls, j, p)
      BY <2>1, SavedWas
    <2>. QED
      BY <2>2 DEF SavedIs, Pending
  <1>2. HooksInv => FlushedIsLatest
    BY <1>1
  <1>. QED
    BY <1>2, HooksInvariant, PTL

-----------------------------------------------------------------------------
(* What the first path hook is told of a file: one more invariant. *)

\* A write is told of as "create" if and only if the file had no version, and a
\* call whose hook runs has called one.
KindIsRight(c) ==
    /\ c.op = "write" => c.version > 0 /\ (c.event = "create" <=> c.version = 1)
    /\ c.running => c.hook > 0

\* A write of the file at p whose path event is, or will be, about its node.
Live(c, p) ==
    /\ c.op = "write" /\ c.path = p
    /\ \/ c.stage = "write hooks" /\ c.inTree
       \/ c.stage = "path hooks" /\ ~c.stale

\* The first path hook is still to be told that the file at p was made.
ToCreate(c, p) ==
    /\ Live(c, p) /\ c.version = 1
    /\ c.stage = "path hooks" => c.hook = 0

\* Writes in one another have different versions, and none that is still to come.
VersionsAscend(s, p) ==
    \A i \in DOMAIN s : Live(s[i], p) =>
        /\ IsFile(fs, p) /\ s[i].version <= fs[p].version
        /\ \A k \in DOMAIN s : i < k /\ Live(s[k], p) => s[i].version < s[k].version

FirstTold(p) == 1 \in DOMAIN PathHooks /\ p \notin astray[1] /\ Under(p, PathHooks[1])

\* The first path hook has the file at p, unless its "create" is still to come, and
\* does not have a file that is gone, unless its "delete" is.
FirstKnows(s, p) ==
    FirstTold(p) =>
        IF IsFile(fs, p)
        THEN IF copy[1][p].present
             THEN fs[p].version = 1 => \A i \in DOMAIN s : ~ToCreate(s[i], p)
             ELSE \E i \in DOMAIN s : ToCreate(s[i], p)
        ELSE copy[1][p].present => \E i \in DOMAIN s : s[i].path = p /\ JustRemoved(s[i])

KindsInPlace(s, p) ==
    p \notin recreated =>
        /\ IsFile(fs, p) => fs[p].version > 0
        /\ VersionsAscend(s, p)
        /\ FirstKnows(s, p)

KindsHold(s) ==
    /\ \A i \in DOMAIN s : KindIsRight(s[i])
    /\ \A p \in Places : KindsInPlace(s, p)

KindsInv == KindsHold(calls)

\* A step does not change what is known of the file at p.
LeftAlone(p) ==
    /\ fs'[p] = fs[p]
    /\ p \in recreated => p \in recreated'
    /\ 1 \in DOMAIN PathHooks =>
         copy'[1][p] = copy[1][p] /\ (p \in astray[1] => p \in astray'[1])

LiveCarried(s, t, p) ==
    \A i \in DOMAIN t : Live(t[i], p) =>
        i \in DOMAIN s /\ Live(s[i], p) /\ t[i].version = s[i].version

\* The stack t is s for the file at p, but for calls that have told the first hook.
Carried(s, t, p) ==
    /\ LiveCarried(s, t, p)
    /\ \A i \in DOMAIN t : ToCreate(t[i], p) => ToCreate(s[i], p)
    /\ FirstTold(p)' => \A i \in DOMAIN s :
         /\ ToCreate(s[i], p) => i \in DOMAIN t /\ ToCreate(t[i], p)
         /\ s[i].path = p /\ JustRemoved(s[i]) =>
              i \in DOMAIN t /\ t[i].path = p /\ JustRemoved(t[i])

LEMMA CarriedVersions ==
    ASSUME NEW p, NEW s, NEW t, VersionsAscend(s, p), LiveCarried(s, t, p), fs'[p] = fs[p],
           calls' = t
    PROVE  VersionsAscend(calls, p)'
  <1>. SUFFICES ASSUME NEW i \in DOMAIN t, Live(t[i], p)
                PROVE  /\ IsFile(fs', p) /\ t[i].version <= fs'[p].version
                       /\ \A k \in DOMAIN t :
                            i < k /\ Live(t[k], p) => t[i].version < t[k].version
    BY DEF VersionsAscend
  <1>1. i \in DOMAIN s /\ Live(s[i], p) /\ t[i].version = s[i].version
    BY DEF LiveCarried
  <1>2. IsFile(fs, p) /\ s[i].version <= fs[p].version
    BY <1>1 DEF VersionsAscend
  <1>3. ASSUME NEW k \in DOMAIN t, i < k, Live(t[k], p)
        PROVE  t[i].version < t[k].version
    <2>1. k \in DOMAIN s /\ Live(s[k], p) /\ t[k].version = s[k].version
      BY <1>3 DEF LiveCarried
    <2>2. s[i].version < s[k].version
      BY <1>1, <1>3, <2>1 DEF VersionsAscend
    <2>. QED
      BY <1>1, <2>1, <2>2
  <1>. QED
    BY <1>1, <1>2, <1>3 DEF IsFile

LEMMA CarriedPlace ==
    ASSUME NEW p, NEW s, NEW t, calls' = t, KindsInPlace(s, p), LeftAlone(p),
           Carried(s, t, p)
    PROVE  KindsInPlace(calls, p)'
  <1>. SUFFICES ASSUME p \notin recreated'
                PROVE  /\ IsFile(fs', p) => fs'[p].version > 0
                       /\ VersionsAscend(calls, p)'
                       /\ FirstKnows(calls, p)'
    BY DEF KindsInPlace
  <1>1. /\ fs'[p] = fs[p] /\ (IsFile(fs', p) <=> IsFile(fs, p))
        /\ IsFile(fs, p) => fs[p].version > 0
        /\ VersionsAscend(s, p) /\ FirstKnows(s, p)
    BY DEF LeftAlone, KindsInPlace, IsFile
  <1>2. VersionsAscend(calls, p)'
    BY <1>1, CarriedVersions DEF Carried
  <1>3. FirstKnows(calls, p)'
    <2>. SUFFICES ASSUME FirstTold(p)'
                  PROVE  IF IsFile(fs', p)
                         THEN IF copy'[1][p].present
                              THEN fs'[p].version = 1 => \A i \in DOMAIN t : ~ToCreate(t[i], p)
                              ELSE \E i \in DOMAIN t : ToCreate(t[i], p)
                         ELSE copy'[1][p].present =>
                                \E i \in DOMAIN t : t[i].path = p /\ JustRemoved(t[i])
      BY DEF FirstKnows
    <2>1. FirstTold(p) /\ copy'[1][p] = copy[1][p]
      BY DEF FirstTold, LeftAlone
    <2>2. /\ \A i \in DOMAIN t : ToCreate(t[i], p) => i \in DOMAIN s /\ ToCreate(s[i], p)
          /\ \A i \in DOMAIN s : ToCreate(s[i], p) => i \in DOMAIN t /\ ToCreate(t[i], p)
          /\ \A i \in DOMAIN s : s[i].path = p /\ JustRemoved(s[i]) =>
               i \in DOMAIN t /\ t[i].path = p /\ JustRemoved(t[i])
      BY DEF Carried, LiveCarried, ToCreate
    <2>3. IF IsFile(fs, p)
          THEN IF copy[1][p].present
               THEN fs[p].version = 1 => \A i \in DOMAIN s : ~ToCreate(s[i], p)
               ELSE \E i \in DOMAIN s : ToCreate(s[i], p)
          ELSE copy[1][p].present => \E i \in DOMAIN s : s[i].path = p /\ JustRemoved(s[i])
      BY <1>1, <2>1 DEF FirstKnows
    <2>. QED
      BY <1>1, <2>1, <2>2, <2>3
  <1>. QED
    BY <1>1, <1>2, <1>3

\* Calls of other files come and go.
LEMMA CarriedSame ==
    ASSUME NEW p, NEW s, NEW t,
           \A i \in DOMAIN t : t[i].path = p => i \in DOMAIN s /\ t[i] = s[i],
           \A i \in DOMAIN s : s[i].path = p => i \in DOMAIN t /\ t[i] = s[i]
    PROVE  Carried(s, t, p)
  BY DEF Carried, LiveCarried, Live, ToCreate

\* d is the call c as far as kinds go.
SameKind(c, d) ==
    /\ d.op = c.op /\ d.event = c.event /\ d.version = c.version /\ d.hook = c.hook
    /\ d.running => c.running

LEMMA SameKindRight ==
    ASSUME NEW c, NEW d, KindIsRight(c), SameKind(c, d)
    PROVE  KindIsRight(d)
  BY DEF KindIsRight, SameKind

LEMMA KindsStep ==
    ASSUME NEW s, NEW t, calls' = t, KindsHold(s), \A i \in DOMAIN t : KindIsRight(t[i]),
           \A p \in Places : KindsInPlace(calls, p)' \/ (LeftAlone(p) /\ Carried(s, t, p))
    PROVE  KindsInv'
  <1>1. ASSUME NEW p \in Places
        PROVE  KindsInPlace(calls, p)'
    <2>1. KindsInPlace(s, p)
      BY DEF KindsHold
    <2>. QED
      BY <2>1, CarriedPlace
  <1>2. (\A i \in DOMAIN calls : KindIsRight(calls[i]))'
    BY DEF KindIsRight
  <1>. QED
    BY <1>1, <1>2 DEF KindsInv, KindsHold

\* No call of a write that waits for the first path hook is below a hook that runs.
LEMMA NoneWaits ==
    ASSUME HooksInv, KindsInv, MayCall, NEW i \in DOMAIN calls, calls[i].op = "write"
    PROVE  calls[i].running /\ calls[i].hook > 0
  <1>1. PICK n \in Nat : n = Len(calls)
    BY CallsType
  <1>2. DOMAIN calls = 1..n /\ StackInOrder(calls)
    BY <1>1, CallsType
  <1>3. n > 0 => calls[n].running
    <2>1. n > 0 => calls # << >>
      BY <1>1
    <2>. QED
      BY <1>1, <2>1, MayCallFacts
  <1>4. i \in 1..n /\ (i < n \/ (i = n /\ n > 0))
    BY <1>2
  <1>5. i < n => calls[i].running
    BY <1>1, <1>2 DEF StackInOrder
  <1>6. calls[i].running
    BY <1>3, <1>4, <1>5
  <1>. QED
    BY <1>6 DEF KindsInv, KindsHold, KindIsRight

LEMMA NewWriteKind ==
    ASSUME NEW p \in Path, NEW d \in Data, NEW n \in Nat
    PROVE  /\ KindIsRight(EventOfWrite(p, d, n)) /\ ~EventOfWrite(p, d, n).running
           /\ EventOfWrite(p, d, n).inTree
  <1>. DEFINE c == NewCall("write", p, KindOfWrite(n), "write hooks")
              c1 == [c EXCEPT !.content = <<d>>]
  <1>1. KindOfWrite(n) \in {"create", "update"} /\ (KindOfWrite(n) = "create" <=> n = 0)
    BY DEF KindOfWrite
  <1>2. c \in Call
    BY <1>1, NewCallFacts
  <1>3. c.op = "write" /\ c.event = KindOfWrite(n) /\ c.running = FALSE /\ c.inTree = TRUE
    BY DEF NewCall
  <1>. HIDE DEF c
  <1>4. <<d>> \in Seq(Data) /\ n + 1 \in Nat
    OBVIOUS
  <1>5. c1 \in Call /\ c1.op = "write" /\ c1.event = KindOfWrite(n) /\ ~c1.running /\ c1.inTree
    BY <1>2, <1>3, <1>4 DEF Call
  <1>6. EventOfWrite(p, d, n) = [c1 EXCEPT !.version = n + 1]
    BY DEF EventOfWrite, c
  <1>. HIDE DEF c1
  <1>7. LET e == [c1 EXCEPT !.version = n + 1]
        IN  /\ e.op = "write" /\ e.event = KindOfWrite(n) /\ ~e.running /\ e.inTree
            /\ e.version = n + 1
    BY <1>5 DEF Call
  <1>8. n + 1 > 0 /\ (n = 0 <=> n + 1 = 1)
    OBVIOUS
  <1>. QED
    BY <1>1, <1>6, <1>7, <1>8 DEF KindIsRight

\* The versions of the writes under way when the file at p is written.
LEMMA WrittenVersions ==
    ASSUME HooksInv, KindsInv, NEW p \in Places, NEW d \in Data, NEW n \in Nat,
           NEW s \in Seq(Call), NEW e \in Call, NEW t \in Seq(Call), calls' = t,
           WriteStack(p, s), DOMAIN s = DOMAIN calls, Pushed(s, e, t),
           EventOf(e, p, d, n), IsFile(fs, p) => n = fs[p].version,
           IsFile(fs', p), fs'[p].version = n + 1, p \notin recreated
    PROVE  VersionsAscend(calls, p)'
  <1>1. PICK m : /\ m = Len(t) /\ t[m] = e /\ \A i \in DOMAIN s : t[i] = s[i]
                 /\ DOMAIN t = DOMAIN s \cup {m}
    BY DEF Pushed
  <1>2. PICK k \in Nat : k = Len(calls)
    BY CallsType
  <1>3. calls \in Seq(Call) /\ DOMAIN calls = 1..k /\ DOMAIN s = 1..k /\ m = k + 1
    <2>1. DOMAIN calls = 1..k
      BY <1>2, CallsType
    <2>2. Len(s) = k
      BY <1>2, <2>1
    <2>. QED
      BY <1>1, <2>1, <2>2, CallsType DEF Pushed
  <1>4. VersionsAscend(calls, p)
    BY DEF KindsInv, KindsHold, KindsInPlace
  <1>5. ASSUME NEW i \in 1..k, Live(t[i], p)
        PROVE  /\ Live(calls[i], p) /\ t[i].version = calls[i].version
               /\ calls[i].version <= n /\ calls[i].version \in Nat
    <2>1. /\ SameCall(calls[i], t[i]) /\ t[i].inTree = calls[i].inTree
          /\ calls[i].path = p /\ calls[i].stage = "path hooks" => t[i].stale
      BY <1>1, <1>3 DEF WriteStack
    <2>2. Live(calls[i], p) /\ t[i].version = calls[i].version
      BY <1>5, <2>1 DEF SameCall, Live
    <2>3. IsFile(fs, p) /\ calls[i].version <= fs[p].version
      BY <1>3, <1>4, <2>2 DEF VersionsAscend
    <2>4. calls[i].version \in Nat
      <3>1. calls[i] \in Call
        BY <1>3
      <3>. QED
        BY <3>1, CallFields
    <2>. QED
      BY <2>2, <2>3, <2>4
  <1>6. t[m].version = n + 1
    BY <1>1 DEF EventOf
  <1>7. ASSUME NEW i \in DOMAIN t, Live(t[i], p)
        PROVE  /\ t[i].version <= n + 1
               /\ \A j \in DOMAIN t : i < j /\ Live(t[j], p) => t[i].version < t[j].version
    <2>1. CASE i \in 1..k
      <3>1. t[i].version <= n /\ t[i].version \in Nat /\ Live(calls[i], p)
            /\ t[i].version = calls[i].version
        BY <1>5, <1>7, <2>1
      <3>2. ASSUME NEW j \in DOMAIN t, i < j, Live(t[j], p)
            PROVE  t[i].version < t[j].version
        <4>1. CASE j \in 1..k
          <5>1. Live(calls[j], p) /\ t[j].version = calls[j].version
            BY <1>5, <3>2, <4>1
          <5>2. calls[i].version < calls[j].version
            BY <1>3, <1>4, <2>1, <3>1, <3>2, <4>1, <5>1 DEF VersionsAscend
          <5>. QED
            BY <3>1, <5>1, <5>2
        <4>2. CASE j = m
          BY <1>6, <3>1, <4>2
        <4>. QED
          BY <1>1, <1>3, <4>1, <4>2
      <3>. QED
        BY <3>1, <3>2
    <2>2. CASE i = m
      <3>1. \A j \in DOMAIN t : ~(i < j)
        BY <1>1, <1>3, <2>2
      <3>. QED
        BY <1>6, <2>2, <3>1
    <2>. QED
      BY <1>1, <1>3, <2>1, <2>2
  <1>. QED
    BY <1>7 DEF VersionsAscend, Live, IsFile

\* What the first path hook knows when the file at p is written.
LEMMA WrittenKnown ==
    ASSUME HooksInv, KindsInv, MayCall, NEW p \in Places, NEW d \in Data, NEW n \in Nat,
           NEW s \in Seq(Call), NEW e \in Call, NEW t \in Seq(Call), calls' = t,
           WriteStack(p, s), DOMAIN s = DOMAIN calls, Pushed(s, e, t),
           EventOf(e, p, d, n), e.inTree,
           IsFile(fs, p) => n = fs[p].version, ~IsFile(fs, p) => n = 0,
           IsFile(fs', p), fs'[p].version = n + 1, p \notin recreated,
           UNCHANGED <<copy, astray>>
    PROVE  FirstKnows(calls, p)'
  <1>. SUFFICES ASSUME FirstTold(p)
                PROVE  IF copy[1][p].present
                       THEN n + 1 = 1 => \A i \in DOMAIN t : ~ToCreate(t[i], p)
                       ELSE \E i \in DOMAIN t : ToCreate(t[i], p)
    BY DEF FirstKnows, FirstTold, ToCreate, Live, IsFile
  <1>1. PICK m : /\ m = Len(t) /\ t[m] = e /\ \A i \in DOMAIN s : t[i] = s[i]
                 /\ DOMAIN t = DOMAIN s \cup {m}
    BY DEF Pushed
  <1>2. FirstKnows(calls, p) /\ (IsFile(fs, p) => fs[p].version > 0)
    BY DEF KindsInv, KindsHold, KindsInPlace
  <1>3. CASE n = 0
    <2>1. ~IsFile(fs, p)
      BY <1>2, <1>3
    <2>2. ~copy[1][p].present
      BY <1>2, <2>1, MayCallFacts DEF FirstKnows
    <2>3. e.version = 1
      <3>1. e.version = n + 1
        BY DEF EventOf
      <3>. QED
        BY <1>3, <3>1
    <2>4. ToCreate(e, p)
      BY <2>3 DEF ToCreate, Live, EventOf
    <2>. QED
      BY <1>1, <2>2, <2>4
  <1>4. CASE n # 0
    <2>. SUFFICES ASSUME ~copy[1][p].present
                  PROVE  \E i \in DOMAIN t : ToCreate(t[i], p)
      BY <1>4
    <2>1. PICK i \in DOMAIN calls : ToCreate(calls[i], p)
      BY <1>2, <1>4 DEF FirstKnows
    <2>2. calls[i].op = "write"
      BY <2>1 DEF ToCreate, Live
    <2>3. calls[i].hook # 0
      BY <2>2, NoneWaits
    <2>4. calls[i].stage = "write hooks" /\ calls[i].inTree
      BY <2>1, <2>3 DEF ToCreate, Live
    <2>5. i \in DOMAIN t /\ SameCall(calls[i], t[i]) /\ t[i].inTree = calls[i].inTree
      BY <1>1 DEF WriteStack
    <2>6. ToCreate(t[i], p)
      BY <2>1, <2>4, <2>5 DEF ToCreate, Live, SameCall
    <2>. QED
      BY <2>5, <2>6
  <1>. QED
    BY <1>3, <1>4

\* A write, accepted or not, leaves the other files alone.
LEMMA WriteKinds ==
    ASSUME HooksInv, KindsInv, NEW p \in Places, NEW d \in Data, WriteFile(p, d)
    PROVE  KindsInv'
  <1>1. MayCall /\ (Refused(p, d) \/ Accepted(p, d))
    BY WriteOutcomes
  <1>2. PICK n : n = EnsureFile(fs, p)[p].version
    OBVIOUS
  <1>3. PICK s : s = Crossed(calls, p)
    OBVIOUS
  <1>4. /\ n \in Nat /\ p \in Path /\ (IsFile(fs, p) => n = fs[p].version)
        /\ (~IsFile(fs, p) => n = 0) /\ IsFile(EnsureFile(fs, p), p)
        /\ n + 1 \in Nat /\ <<d>> \in Seq(Data)
    BY <1>2, WriteFileNode, PlaceFacts
  <1>5. /\ calls \in Seq(Call) /\ s \in Seq(Call) /\ Len(s) = Len(calls)
        /\ WriteStack(p, s) /\ DOMAIN s = DOMAIN calls
    BY <1>3, CallsType, CrossedStack
  <1>10. fs \in Tree /\ WellFormed(fs) /\ Bare(fs) /\ Shape(fs)
    BY CallsType
  <1>6. \A i \in DOMAIN calls : KindIsRight(s[i])
    <2>1. \A i \in DOMAIN calls : SameKind(calls[i], s[i])
      BY <1>5 DEF WriteStack, SameCall, SameKind
    <2>. QED
      BY <2>1, SameKindRight DEF KindsInv, KindsHold
  <1>7. ASSUME NEW t, WriteStack(p, t), NEW q \in Places, q # p
        PROVE  Carried(calls, t, q)
    <2>1. \A i \in DOMAIN t : t[i].path = q => i \in DOMAIN calls /\ t[i] = calls[i]
      BY <1>7 DEF WriteStack, SameCall
    <2>2. \A i \in DOMAIN calls : calls[i].path = q => i \in DOMAIN t /\ t[i] = calls[i]
      BY <1>7 DEF WriteStack
    <2>. QED
      BY <2>1, <2>2, CarriedSame
  <1>8. CASE Refused(p, d)
    <2>1. calls' = s
      BY <1>1, <1>3, <1>8, RefusedStack
    <2>2. p \in recreated' /\ (\A q : q \in recreated => q \in recreated')
      BY <1>8, RefusedIsRecreated DEF Refused
    <2>3. \A q \in Places : q # p => fs'[q] = fs[q]
      <3>1. fs' = Rewritten(EnsureFile(fs, p), p, d)
        BY <1>8 DEF Refused
      <3>. QED
        BY <1>4, <1>10, <3>1, WrittenTree
    <2>4. KindsInPlace(calls, p)'
      BY <2>2 DEF KindsInPlace
    <2>5. \A q \in Places : q # p => LeftAlone(q)
      BY <1>8, <2>2, <2>3 DEF LeftAlone, Refused
    <2>. QED
      BY <1>5, <1>6, <1>7, <2>1, <2>4, <2>5, KindsStep DEF KindsInv
  <1>9. CASE Accepted(p, d)
    <2>1. PICK e : e = EventOfWrite(p, d, n)
      OBVIOUS
    <2>2. /\ e \in Call /\ EventOf(e, p, d, n) /\ KindIsRight(e) /\ e.inTree
      BY <1>4, <2>1, EventOfWriteFacts, NewWriteKind
    <2>3. PICK t : t = Append(s, e)
      OBVIOUS
    <2>4. calls' = t /\ fs' = Updated(EnsureFile(fs, p), p, d, n + 1)
          /\ (\A q : q \in recreated => q \in recreated') /\ UNCHANGED <<copy, astray>>
      BY <1>2, <1>3, <1>9, <2>1, <2>3 DEF Accepted
    <2>5. t \in Seq(Call) /\ Pushed(s, e, t) /\ WriteStack(p, t)
      <3>1. t \in Seq(Call) /\ Pushed(s, e, t)
        BY <1>5, <2>2, <2>3, PushedFacts
      <3>. QED
        BY <1>5, <2>2, <3>1, PushedWriteStack DEF EventOf
    <2>6. /\ IsFile(fs', p) /\ fs'[p].version = n + 1
          /\ \A q \in Places : q # p => fs'[q] = fs[q]
      BY <1>4, <1>10, <2>4, WrittenTree
    <2>7. KindsInPlace(calls, p)'
      <3>. SUFFICES ASSUME p \notin recreated
                    PROVE  KindsInPlace(calls, p)'
        BY <2>4 DEF KindsInPlace
      <3>1. VersionsAscend(calls, p)'
        BY <1>4, <1>5, <2>2, <2>4, <2>5, <2>6, WrittenVersions
      <3>2. FirstKnows(calls, p)'
        BY <1>1, <1>4, <1>5, <2>2, <2>4, <2>5, <2>6, WrittenKnown
      <3>3. fs'[p].version > 0
        BY <1>4, <2>6
      <3>. QED
        BY <3>1, <3>2, <3>3 DEF KindsInPlace
    <2>8. \A q \in Places : q # p => LeftAlone(q)
      BY <2>4, <2>6 DEF LeftAlone
    <2>9. \A i \in DOMAIN t : KindIsRight(t[i])
      <3>1. PICK m : /\ t[m] = e /\ \A i \in DOMAIN s : t[i] = s[i]
                     /\ DOMAIN t = DOMAIN s \cup {m}
        BY <2>5 DEF Pushed
      <3>. QED
        BY <1>5, <1>6, <2>2, <3>1
    <2>. QED
      BY <1>7, <2>4, <2>5, <2>7, <2>8, <2>9, KindsStep DEF KindsInv
  <1>. QED
    BY <1>1, <1>8, <1>9

\* The same stack for the file at p.
LEMMA SameKinds ==
    ASSUME NEW p, NEW s, NEW t, KindsInPlace(s, p),
           \A i \in DOMAIN t : t[i].path = p => i \in DOMAIN s /\ t[i] = s[i],
           \A i \in DOMAIN s : s[i].path = p => i \in DOMAIN t /\ t[i] = s[i]
    PROVE  KindsInPlace(t, p)
  <1>. SUFFICES ASSUME p \notin recreated
                PROVE  VersionsAscend(t, p) /\ FirstKnows(t, p)
    BY DEF KindsInPlace
  <1>1. VersionsAscend(s, p) /\ FirstKnows(s, p)
    BY DEF KindsInPlace
  <1>2. \A i : i \in DOMAIN t /\ Live(t[i], p) <=> i \in DOMAIN s /\ Live(s[i], p)
    BY DEF Live
  <1>3. \A i \in DOMAIN t : Live(t[i], p) => i \in DOMAIN s /\ t[i] = s[i]
    BY DEF Live
  <1>4. VersionsAscend(t, p)
    BY <1>1, <1>2, <1>3 DEF VersionsAscend
  <1>5. \A i : i \in DOMAIN t /\ ToCreate(t[i], p) <=> i \in DOMAIN s /\ ToCreate(s[i], p)
    BY <1>2, <1>3 DEF ToCreate
  <1>6. \A i \in DOMAIN s : s[i].path = p /\ JustRemoved(s[i]) =>
          i \in DOMAIN t /\ t[i].path = p /\ JustRemoved(t[i])
    OBVIOUS
  <1>7. FirstKnows(t, p)
    BY <1>1, <1>5, <1>6 DEF FirstKnows
  <1>. QED
    BY <1>4, <1>7

\* The call on top is replaced.
LEMMA SetOnTop ==
    ASSUME HooksInv, calls # << >>, NEW c \in Call
    PROVE  OnTop(c, SetTop(c))
  <1>1. PICK n \in Nat \ {0} : n = Len(calls)
    BY CallsType, FrontFacts
  <1>2. calls \in Seq(Call) /\ DOMAIN calls = 1..n
    BY <1>1, CallsType
  <1>3. PICK t : t = SetTop(c)
    OBVIOUS
  <1>4. /\ t \in Seq(Call) /\ Len(t) = n /\ t[n] = c
        /\ \A i \in 1..(n - 1) : t[i] = calls[i]
    BY <1>1, <1>2, <1>3, SetTopFacts
  <1>5. DOMAIN t = 1..n
    BY <1>4
  <1>6. \A i \in 1..n : i # n => i \in 1..(n - 1)
    OBVIOUS
  <1>7. OnTop(c, t)
    BY <1>1, <1>2, <1>4, <1>5, <1>6 DEF OnTop
  <1>. QED
    BY <1>3, <1>7

\* A removal that starts, from the host, a hook or a recursive remove: s is the
\* stack without the child that is removed.
LEMMA RemovalKinds ==
    ASSUME HooksInv, NEW s, NEW q \in Path, q # Root, Removing(s, q), KindsHold(s),
           RemoveFrom(s, q), UNCHANGED <<copy, saved, astray>>
    PROVE  KindsInv'
  <1>1. s \in Seq(Call) /\ StackInOrder(s) /\ TopCalls(s)
    BY DEF Removing
  <1>2. fs \in Tree /\ WellFormed(fs) /\ Bare(fs) /\ Shape(fs)
    BY CallsType
  <1>3. CASE ~Exists(fs, q) /\ calls' = Unwound(s)
             /\ UNCHANGED <<fs, index, store, recreated, unsaved>>
    <2>1. PICK t : t = Unwound(s)
      OBVIOUS
    <2>2. WithoutRemoves(s, t)
      BY <1>1, <2>1, UnwoundStack
    <2>3. ASSUME NEW p \in Places
          PROVE  LeftAlone(p) /\ Carried(s, t, p)
      <3>1. LeftAlone(p)
        BY <1>3 DEF LeftAlone
      <3>2. \A i \in DOMAIN s : s[i].path = p => i \in DOMAIN t /\ t[i] = s[i]
        BY <1>1, <2>2, RemovesOfDirs DEF WithoutRemoves
      <3>3. \A i \in DOMAIN t : i \in DOMAIN s /\ t[i] = s[i]
        BY <2>2 DEF WithoutRemoves
      <3>. QED
        BY <3>1, <3>2, <3>3, CarriedSame
    <2>4. \A i \in DOMAIN t : KindIsRight(t[i])
      BY <2>2 DEF WithoutRemoves, KindsHold
    <2>. QED
      BY <1>3, <2>1, <2>3, <2>4, KindsStep
  <1>4. CASE /\ IsFile(fs, q) /\ TakeFile(q)
             /\ calls' = Append([i \in DOMAIN s |-> Orphaned(Crossed(s, q)[i], q)],
                                NewCall("remove", q, "delete", "path hooks"))
    <2>1. q \in Places /\ Under(q, q)
      BY <1>2, <1>4, PathFacts DEF Shape
    <2>2. PICK t : t = calls'
      OBVIOUS
    <2>3. RemovedStack(s, q, t)
      <3>1. DOMAIN Crossed(s, q) = DOMAIN s
        BY DEF Crossed
      <3>. QED
        BY <1>4, <2>2, <3>1 DEF RemovedStack, OrphanedCalls
    <2>4. PICK m, e : /\ m = Len(t) /\ e = NewCall("remove", q, "delete", "path hooks")
                      /\ DOMAIN t = DOMAIN s \cup {m} /\ t[m] = e
                      /\ \A i \in DOMAIN s : Taken(s[i], t[i], q)
      BY <1>1, <1>2, <2>1, <2>3, RemovedStackFacts
    <2>5. IsFileRemoval(e, q)
      BY <2>4, RemoveFileFacts
    <2>6. /\ \A p \in Path : fs'[p] = IF Under(p, q) THEN Absent ELSE fs[p]
          /\ recreated' = recreated \ {q}
      BY <1>2, <1>4, <2>1, DetachPlaces DEF TakeFile
    <2>7. ASSUME NEW p \in Places, p # q
          PROVE  LeftAlone(p) /\ Carried(s, t, p)
      <3>1. p \in Path /\ ~Under(p, q)
        BY <2>1, <2>7, PlaceFacts
      <3>2. LeftAlone(p)
        BY <2>6, <2>7, <3>1 DEF LeftAlone
      <3>3. \A i \in DOMAIN s : s[i].path = p => i \in DOMAIN t /\ t[i] = s[i]
        BY <2>4, <3>1 DEF Taken
      <3>4. \A i \in DOMAIN t : t[i].path = p => i \in DOMAIN s /\ t[i] = s[i]
        <4>1. t[m].path # p
          BY <2>4, <2>5, <2>7 DEF IsFileRemoval
        <4>2. ASSUME NEW i \in DOMAIN s, t[i].path = p
              PROVE  t[i] = s[i]
          <5>1. Taken(s[i], t[i], q)
            BY <2>4
          <5>. QED
            BY <3>1, <4>2, <5>1 DEF Taken, SameCall
        <4>. QED
          BY <2>4, <4>1, <4>2
      <3>. QED
        BY <3>2, <3>3, <3>4, CarriedSame
    <2>8. KindsInPlace(calls, q)'
      <3>1. fs'[q] = Absent
        BY <2>1, <2>6
      <3>2. ~IsFile(fs', q)
        BY <3>1, NodeFacts DEF IsFile, Absent
      <3>3. \A i \in DOMAIN t : ~Live(t[i], q)
        <4>1. ~Live(e, q)
          BY <2>5 DEF IsFileRemoval, Live
        <4>2. ASSUME NEW i \in DOMAIN s
              PROVE  ~Live(t[i], q)
          <5>1. Taken(s[i], t[i], q)
            BY <2>4
          <5>. QED
            BY <2>1, <5>1 DEF Taken, SameCall, Live
        <4>. QED
          BY <2>4, <4>1, <4>2
      <3>4. VersionsAscend(calls, q)'
        BY <2>2, <3>3 DEF VersionsAscend, Live
      <3>5. m \in DOMAIN t /\ t[m].path = q /\ JustRemoved(t[m])
        BY <2>4, <2>5 DEF IsFileRemoval, JustRemoved
      <3>6. FirstKnows(calls, q)'
        BY <2>2, <3>2, <3>5 DEF FirstKnows, JustRemoved, IsFile
      <3>. QED
        BY <3>2, <3>4, <3>6 DEF KindsInPlace, IsFile
    <2>9. \A i \in DOMAIN t : KindIsRight(t[i])
      <3>1. KindIsRight(e)
        BY <2>5 DEF IsFileRemoval, KindIsRight
      <3>2. \A i \in DOMAIN s : SameKind(s[i], t[i])
        BY <2>4 DEF Taken, SameCall, SameKind
      <3>. QED
        BY <2>4, <3>1, <3>2, SameKindRight DEF KindsHold
    <2>. QED
      BY <2>2, <2>7, <2>8, <2>9, KindsStep
  <1>5. CASE /\ IsDir(fs, q)
             /\ calls' = Append(s, DirRemoval(q, ToVisit(fs, q)))
             /\ UNCHANGED <<fs, index, store, recreated, unsaved>>
    <2>1. PICK e : e = DirRemoval(q, ToVisit(fs, q))
      OBVIOUS
    <2>2. e \in Call /\ e.op = "remove dir" /\ e.path = q /\ ~e.running
      <3>1. ToVisit(fs, q) \in SUBSET Path
        BY DEF ToVisit, Children
      <3>2. e \in Call /\ IsDirRemoval(e, q, ToVisit(fs, q))
        BY <2>1, <3>1, RemoveDirFacts
      <3>. QED
        BY <3>2 DEF IsDirRemoval
    <2>3. PICK t : t = Append(s, e)
      OBVIOUS
    <2>4. PICK m : /\ t[m] = e /\ \A i \in DOMAIN s : t[i] = s[i]
                   /\ DOMAIN t = DOMAIN s \cup {m}
      <3>1. Pushed(s, e, t)
        BY <1>1, <2>2, <2>3, PushedFacts
      <3>2. /\ t[Len(t)] = e /\ \A i \in DOMAIN s : t[i] = s[i]
            /\ DOMAIN t = DOMAIN s \cup {Len(t)}
        BY <3>1 DEF Pushed
      <3>. QED
        BY <3>2
    <2>5. ASSUME NEW p \in Places
          PROVE  LeftAlone(p) /\ Carried(s, t, p)
      <3>1. q # p
        BY <1>2, <1>5, PlaceIsNoDir
      <3>2. LeftAlone(p)
        BY <1>5 DEF LeftAlone
      <3>3. \A i \in DOMAIN t : t[i].path = p => i \in DOMAIN s /\ t[i] = s[i]
        BY <2>2, <2>4, <3>1
      <3>4. \A i \in DOMAIN s : i \in DOMAIN t /\ t[i] = s[i]
        BY <2>4
      <3>. QED
        BY <3>2, <3>3, <3>4, CarriedSame
    <2>6. \A i \in DOMAIN t : KindIsRight(t[i])
      <3>1. KindIsRight(e)
        BY <2>2 DEF KindIsRight
      <3>. QED
        BY <2>4, <3>1 DEF KindsHold
    <2>. QED
      BY <1>5, <2>1, <2>3, <2>5, <2>6, KindsStep
  <1>. QED
    BY <1>3, <1>4, <1>5 DEF RemoveFrom, DirRemoval

LEMMA RemoveKinds ==
    ASSUME HooksInv, KindsInv, NEW p \in Path, Remove(p)
    PROVE  KindsInv'
  <1>1. /\ p # Root /\ RemoveFrom(calls, p) /\ UNCHANGED <<copy, saved, astray>>
    BY DEF Remove
  <1>2. Removing(calls, p)
    BY RemoveStarts
  <1>. QED
    BY <1>1, <1>2, RemovalKinds DEF KindsInv

LEMMA VisitKinds ==
    ASSUME HooksInv, KindsInv, NEW q \in Path, VisitChild(q)
    PROVE  KindsInv'
  <1>1. PICK s : s = SetTop(WithoutChild(Top, q))
    OBVIOUS
  <1>2. /\ Waits /\ q \in Top.rest /\ UNCHANGED <<copy, saved, astray>>
        /\ IF Exists(HomeOf(Top), q) THEN RemoveFrom(s, q)
           ELSE calls' = s /\ UNCHANGED <<fs, index, store, recreated, unsaved>>
    BY <1>1 DEF VisitChild, WithoutChild
  <1>3. /\ Removing(s, q) /\ q # Root /\ Top.op = "remove dir"
    BY <1>1, <1>2, NextChild
  <1>4. PICK c \in Call : c = WithoutChild(Top, q) /\ GoesOn(Top, c, q)
    BY <1>2, WaitsFacts, WithoutChildFacts
  <1>5. /\ calls # << >> /\ Len(calls) \in DOMAIN calls /\ Top = calls[Len(calls)]
        /\ Top.path \in Path /\ \A p \in Places : Top.path # p
    <2>1. /\ calls # << >> /\ Len(calls) \in DOMAIN calls /\ Top = calls[Len(calls)]
          /\ Top \in Call /\ StackInOrder(calls)
      BY <1>2, TopFacts, CallsType DEF Waits
    <2>. QED
      BY <1>3, <2>1, CallFields, RemovesOfDirs
  <1>6. OnTop(c, s)
    BY <1>1, <1>4, <1>5, SetOnTop
  <1>7. KindsHold(s)
    <2>1. \A i \in DOMAIN s : KindIsRight(s[i])
      <3>1. c.op = Top.op /\ (c.running => Top.running) /\ c.hook = Top.hook
        BY <1>4 DEF GoesOn
      <3>2. KindIsRight(Top)
        BY <1>5 DEF KindsInv, KindsHold
      <3>3. KindIsRight(c)
        BY <1>3, <3>1, <3>2 DEF KindIsRight
      <3>. QED
        BY <1>6, <3>3 DEF OnTop, KindsInv, KindsHold
    <2>2. ASSUME NEW p \in Places
          PROVE  KindsInPlace(s, p)
      <3>1. c.path # p /\ Top.path # p
        BY <1>4, <1>5 DEF GoesOn
      <3>2. \A i \in DOMAIN calls : calls[i].path = p => i \in DOMAIN s /\ s[i] = calls[i]
        BY <1>5, <1>6, <3>1 DEF OnTop
      <3>3. \A i \in DOMAIN s : s[i].path = p => i \in DOMAIN calls /\ s[i] = calls[i]
        BY <1>6, <3>1 DEF OnTop
      <3>4. KindsInPlace(calls, p)
        BY DEF KindsInv, KindsHold
      <3>. QED
        BY <3>2, <3>3, <3>4, SameKinds
    <2>. QED
      BY <2>1, <2>2 DEF KindsHold
  <1>8. CASE Exists(HomeOf(Top), q)
    BY <1>2, <1>3, <1>7, <1>8, RemovalKinds
  <1>9. CASE ~Exists(HomeOf(Top), q)
    <2>1. calls' = s /\ UNCHANGED <<fs, copy, astray, recreated>>
      BY <1>2, <1>9
    <2>2. ASSUME NEW p \in Places
          PROVE  LeftAlone(p) /\ Carried(s, s, p)
      BY <2>1, CarriedSame DEF LeftAlone
    <2>. QED
      BY <1>7, <2>1, <2>2, KindsStep DEF KindsHold
  <1>. QED
    BY <1>8, <1>9

-----------------------------------------------------------------------------
(* A directory is dropped. *)

\* The stack t is left when the directory d goes, with what is below it.
DroppedStack(d, t) ==
    /\ \A i \in DOMAIN t :
         /\ i \in DOMAIN calls /\ SameCall(calls[i], t[i])
         /\ t[i].stale = calls[i].stale
         /\ t[i].inTree => calls[i].inTree
         /\ ~Under(calls[i].path, d) => t[i] = calls[i]
    /\ \A i \in DOMAIN calls : i \in DOMAIN t \/ calls[i].op = "remove dir"

LEMMA FrontStack ==
    ASSUME HooksInv, calls # << >>
    PROVE  \E n \in Nat \ {0} :
             /\ n = Len(calls) /\ Top = calls[n]
             /\ DOMAIN calls = 1..n /\ DOMAIN Seqs!Front(calls) = 1..(n - 1)
  <1>1. PICK n \in Nat \ {0} : n = Len(calls)
    BY CallsType, FrontFacts
  <1>2. calls \in Seq(Call) /\ Top = calls[n] /\ DOMAIN calls = 1..n
    <2>1. Top = calls[n]
      BY <1>1, TopFacts
    <2>. QED
      BY <1>1, <2>1, CallsType
  <1>3. PICK s : s = SubSeq(calls, 1, n - 1)
    OBVIOUS
  <1>4. n - 1 \in 0..Len(calls)
    BY <1>1
  <1>5. s \in Seq(Call) /\ Len(s) = n - 1 /\ s = Seqs!Front(calls)
    BY <1>1, <1>2, <1>3, <1>4, CutFacts, FrontFacts
  <1>6. DOMAIN s = 1..(n - 1)
    BY <1>5
  <1>. QED
    BY <1>1, <1>2, <1>5, <1>6

LEMMA DroppedFacts ==
    ASSUME HooksInv, DropDirectory, NEW d \in Path,
           NEW t, t = [i \in DOMAIN Seqs!Front(calls) |-> Orphaned(calls[i], d)]
    PROVE  DroppedStack(d, t)
  <1>1. PICK n \in Nat \ {0} :
            /\ n = Len(calls) /\ Top = calls[n]
            /\ DOMAIN calls = 1..n /\ DOMAIN Seqs!Front(calls) = 1..(n - 1)
    BY FrontStack DEF DropDirectory, Waits
  <1>2. calls \in Seq(Call) /\ fs \in Tree
    BY CallsType
  <1>3. DOMAIN t = 1..(n - 1)
    BY <1>1
  <1>4. ASSUME NEW i \in DOMAIN t
        PROVE  /\ i \in DOMAIN calls /\ SameCall(calls[i], t[i])
               /\ t[i].stale = calls[i].stale
               /\ t[i].inTree => calls[i].inTree
               /\ ~Under(calls[i].path, d) => t[i] = calls[i]
    <2>1. t[i] = Orphaned(calls[i], d)
      OBVIOUS
    <2>2. i \in DOMAIN calls /\ calls[i] \in Call
      <3>1. \A k \in 1..(n - 1) : k \in 1..n
        BY <1>1
      <3>2. i \in DOMAIN calls
        BY <1>1, <1>3, <3>1
      <3>. QED
        BY <1>2, <3>2
    <2>3. PICK c \in Call : c = calls[i]
      BY <2>2
    <2>4. PICK o : o = Orphaned(c, d)
      OBVIOUS
    <2>5. /\ SameCall(c, o) /\ o.stale = c.stale /\ (o.inTree => c.inTree)
          /\ ~Under(c.path, d) => o = c
      BY <1>2, <2>4, OrphanedFacts
    <2>. QED
      BY <2>1, <2>2, <2>3, <2>4, <2>5
  <1>5. ASSUME NEW i \in DOMAIN calls, i \notin DOMAIN t
        PROVE  calls[i].op = "remove dir"
    <2>1. \A k \in 1..n : k \in 1..(n - 1) \/ k = n
      BY <1>1
    <2>2. i = n
      BY <1>1, <1>3, <1>5, <2>1
    <2>. QED
      BY <1>1, <2>2 DEF DropDirectory
  <1>. QED
    BY <1>4, <1>5 DEF DroppedStack

LEMMA DropKinds ==
    ASSUME HooksInv, KindsInv, DropDirectory
    PROVE  KindsInv'
  <1>1. /\ Waits /\ Top.op = "remove dir" /\ Top.rest = {}
        /\ UNCHANGED <<copy, recreated, astray>>
        /\ \/ ~Exists(fs, Top.path) /\ calls' = Unwound(calls) /\ UNCHANGED fs
           \/ /\ Exists(fs, Top.path)
              /\ fs' = Detach(fs, {Top.path})
              /\ calls' = [i \in DOMAIN Seqs!Front(calls) |-> Orphaned(calls[i], Top.path)]
    BY DEF DropDirectory
  <1>2. PICK n : n = Len(calls)
    OBVIOUS
  <1>3. /\ calls \in Seq(Call) /\ calls # << >> /\ n \in DOMAIN calls
        /\ Top = calls[n] /\ Top \in Call /\ CallInOrder(Top) /\ StackInOrder(calls)
        /\ fs \in Tree /\ WellFormed(fs) /\ Bare(fs) /\ Shape(fs)
    BY <1>1, <1>2, CallsType, WaitsFacts DEF Waits
  <1>4. PICK d : d = Top.path
    OBVIOUS
  <1>5. d \in Path /\ d # Root /\ \A p \in Places : d # p
    <2>1. d \in Path
      BY <1>3, <1>4, CallFields
    <2>2. d # Root
      BY <1>1, <1>3, <1>4 DEF CallInOrder
    <2>. QED
      BY <1>1, <1>3, <1>4, <2>1, <2>2, RemovesOfDirs
  <1>6. \A p \in Places : \A i \in DOMAIN calls : calls[i].path = p => ~JustRemoved(calls[i])
    BY <1>1, <1>2, <1>3, JustRemovedOnTop
  <1>7. KindsHold(calls)
    BY DEF KindsInv
  <1>8. CASE calls' = Unwound(calls) /\ UNCHANGED fs
    <2>1. TopCalls(calls)
      BY <1>1, <1>2, <1>3 DEF TopCalls
    <2>2. PICK t : t = Unwound(calls)
      OBVIOUS
    <2>3. WithoutRemoves(calls, t)
      BY <1>3, <2>1, <2>2, UnwoundStack
    <2>4. ASSUME NEW p \in Places
          PROVE  LeftAlone(p) /\ Carried(calls, t, p)
      <3>1. LeftAlone(p)
        BY <1>1, <1>8 DEF LeftAlone
      <3>2. \A i \in DOMAIN calls : calls[i].path = p => i \in DOMAIN t /\ t[i] = calls[i]
        BY <1>3, <2>3, RemovesOfDirs DEF WithoutRemoves
      <3>3. \A i \in DOMAIN t : i \in DOMAIN calls /\ t[i] = calls[i]
        BY <2>3 DEF WithoutRemoves
      <3>. QED
        BY <3>1, <3>2, <3>3, CarriedSame
    <2>5. \A i \in DOMAIN t : KindIsRight(t[i])
      BY <1>7, <2>3 DEF WithoutRemoves, KindsHold
    <2>. QED
      BY <1>7, <1>8, <2>2, <2>4, <2>5, KindsStep
  <1>9. CASE /\ fs' = Detach(fs, {d})
             /\ calls' = [i \in DOMAIN Seqs!Front(calls) |-> Orphaned(calls[i], d)]
    <2>1. PICK t : t = [i \in DOMAIN Seqs!Front(calls) |-> Orphaned(calls[i], d)]
      OBVIOUS
    <2>2. DroppedStack(d, t)
      BY <1>5, <2>1, DroppedFacts
    <2>3. \A p \in Path : fs'[p] = IF Under(p, d) THEN Absent ELSE fs[p]
      BY <1>3, <1>5, <1>9, DetachPlaces
    <2>4. \A i \in DOMAIN t : KindIsRight(t[i])
      <3>1. \A i \in DOMAIN t : i \in DOMAIN calls /\ SameKind(calls[i], t[i])
        BY <2>2 DEF DroppedStack, SameCall, SameKind
      <3>. QED
        BY <1>7, <3>1, SameKindRight DEF KindsHold
    <2>5. ASSUME NEW p \in Places
          PROVE  KindsInPlace(calls, p)' \/ (LeftAlone(p) /\ Carried(calls, t, p))
      <3>1. p \in Path
        BY PlaceFacts
      <3>2. \A i \in DOMAIN calls : calls[i].path = p => i \in DOMAIN t
        BY <1>3, <2>2, RemovesOfDirs DEF DroppedStack
      <3>3. \A i \in DOMAIN t : t[i].path = calls[i].path
        BY <2>2 DEF DroppedStack, SameCall
      <3>4. CASE ~Under(p, d)
        <4>1. fs'[p] = fs[p]
          BY <2>3, <3>1, <3>4
        <4>2. LeftAlone(p)
          BY <1>1, <4>1 DEF LeftAlone
        <4>3. \A i \in DOMAIN t : t[i].path = p => i \in DOMAIN calls /\ t[i] = calls[i]
          BY <2>2, <3>3, <3>4 DEF DroppedStack
        <4>4. \A i \in DOMAIN calls : calls[i].path = p => i \in DOMAIN t /\ t[i] = calls[i]
          BY <3>2, <3>3, <4>3
        <4>. QED
          BY <4>2, <4>3, <4>4, CarriedSame
      <3>5. CASE p \in recreated
        BY <1>1, <3>5 DEF KindsInPlace
      <3>6. CASE Under(p, d) /\ p \notin recreated
        <4>1. StrictlyUnder(p, d)
          BY <1>5, <3>6 DEF StrictlyUnder
        <4>2. RemovalsSee(calls, p) /\ KindsInPlace(calls, p)
          BY <1>7 DEF HooksInv, KindsHold
        <4>3. ~IsFile(fs, p)
          BY <1>1, <1>3, <1>4, <3>6, <4>1, <4>2 DEF RemovalsSee
        <4>4. fs'[p] = fs[p]
          BY <1>3, <2>3, <3>1, <3>6, <4>3, NoFileAtPlace
        <4>5. LeftAlone(p)
          BY <1>1, <4>4 DEF LeftAlone
        <4>6. \A i \in DOMAIN calls : ~Live(calls[i], p)
          BY <3>6, <4>2, <4>3 DEF KindsInPlace, VersionsAscend
        <4>7. \A i \in DOMAIN t : ~Live(t[i], p)
          <5>1. \A i \in DOMAIN t : Live(t[i], p) => i \in DOMAIN calls /\ Live(calls[i], p)
            BY <2>2 DEF DroppedStack, SameCall, Live
          <5>. QED
            BY <4>6, <5>1
        <4>8. Carried(calls, t, p)
          BY <1>6, <4>6, <4>7 DEF Carried, LiveCarried, ToCreate
        <4>. QED
          BY <4>5, <4>8
      <3>. QED
        BY <3>4, <3>5, <3>6
    <2>. QED
      BY <1>7, <1>9, <2>1, <2>4, <2>5, KindsStep
  <1>. QED
    BY <1>1, <1>4, <1>8, <1>9

-----------------------------------------------------------------------------
(* The call on top goes on, or ends. *)

\* The call on top, about the file at q, becomes c.
LEMMA TopCarried ==
    ASSUME HooksInv, calls # << >>, NEW c, NEW t, OnTop(c, t), NEW q,
           Live(c, q) => Live(Top, q) /\ c.version = Top.version,
           ToCreate(c, q) => ToCreate(Top, q),
           FirstTold(q)' => /\ ToCreate(Top, q) => ToCreate(c, q)
                            /\ Top.path = q /\ JustRemoved(Top) =>
                                 c.path = q /\ JustRemoved(c)
    PROVE  Carried(calls, t, q)
  <1>1. PICK n : n = Len(calls)
    OBVIOUS
  <1>2. Top = calls[n] /\ n \in DOMAIN calls
    BY <1>1, TopFacts
  <1>3. /\ DOMAIN t = DOMAIN calls /\ t[n] = c
        /\ \A i \in DOMAIN calls : i # n => t[i] = calls[i]
    BY <1>1 DEF OnTop
  <1>4. LiveCarried(calls, t, q)
    BY <1>2, <1>3 DEF LiveCarried
  <1>. QED
    BY <1>2, <1>3, <1>4 DEF Carried

LEMMA TopKinds ==
    ASSUME HooksInv, KindsInv, calls # << >>, NEW c \in Call, KindIsRight(c),
           NEW t, t = SetTop(c), calls' = t, NEW q \in Places, q = Top.path, c.path = q,
           \A p \in Places \ {q} : LeftAlone(p),
           OnTop(c, t) => KindsInPlace(calls, q)' \/ (LeftAlone(q) /\ Carried(calls, t, q))
    PROVE  KindsInv'
  <1>1. OnTop(c, t)
    BY SetOnTop
  <1>2. KindsHold(calls)
    BY DEF KindsInv
  <1>3. Top = calls[Len(calls)]
    BY TopFacts
  <1>4. \A i \in DOMAIN t : KindIsRight(t[i])
    BY <1>1, <1>2 DEF OnTop, KindsHold
  <1>5. ASSUME NEW p \in Places \ {q}
        PROVE  LeftAlone(p) /\ Carried(calls, t, p)
    <2>1. p # q
      OBVIOUS
    <2>2. \A i \in DOMAIN t : t[i].path = p => i \in DOMAIN calls /\ t[i] = calls[i]
      BY <1>1, <2>1 DEF OnTop
    <2>3. \A i \in DOMAIN calls : calls[i].path = p => i \in DOMAIN t /\ t[i] = calls[i]
      BY <1>1, <1>3, <2>1 DEF OnTop
    <2>. QED
      BY <2>2, <2>3, CarriedSame
  <1>6. \A p \in Places : KindsInPlace(calls, p)' \/ (LeftAlone(p) /\ Carried(calls, t, p))
    BY <1>1, <1>5
  <1>. QED
    BY <1>2, <1>4, <1>6, KindsStep

LEMMA ReturnKinds ==
    ASSUME HooksInv, KindsInv, HookReturns
    PROVE  KindsInv'
  <1>1. /\ HookRuns /\ calls' = SetTop(Returned(Top))
        /\ UNCHANGED <<fs, copy, recreated, astray>>
    BY DEF HookReturns, Returned
  <1>2. calls # << >> /\ Top.path \in Places
    BY <1>1, RunningFacts
  <1>3. Top = calls[Len(calls)] /\ Top \in Call /\ Len(calls) \in DOMAIN calls
    BY <1>2, TopFacts
  <1>4. PICK c \in Call : c = Returned(Top) /\ ReturnedAs(Top, c)
    BY <1>3, ReturnedFacts
  <1>5. PICK t : t = SetTop(c)
    OBVIOUS
  <1>6. PICK q \in Places : q = Top.path
    BY <1>2
  <1>7. KindIsRight(c)
    <2>1. KindIsRight(Top) /\ SameKind(Top, c)
      BY <1>3, <1>4 DEF KindsInv, KindsHold, ReturnedAs, SameKind
    <2>. QED
      BY <2>1, SameKindRight
  <1>8. c.path = q
    BY <1>4, <1>6 DEF ReturnedAs
  <1>9. \A p \in Places : LeftAlone(p)
    BY <1>1 DEF LeftAlone
  <1>10. ASSUME OnTop(c, t)
         PROVE  Carried(calls, t, q)
    <2>1. Live(c, q) <=> Live(Top, q)
      BY <1>4 DEF ReturnedAs, Live
    <2>2. ToCreate(c, q) <=> ToCreate(Top, q)
      BY <1>4, <2>1 DEF ReturnedAs, ToCreate
    <2>3. JustRemoved(c) <=> JustRemoved(Top)
      BY <1>4 DEF ReturnedAs, JustRemoved
    <2>4. c.version = Top.version
      BY <1>4 DEF ReturnedAs
    <2>. QED
      BY <1>2, <1>8, <1>10, <2>1, <2>2, <2>3, <2>4, TopCarried
  <1>. QED
    BY <1>1, <1>2, <1>4, <1>5, <1>6, <1>7, <1>8, <1>9, <1>10, TopKinds

LEMMA TurnedVersion ==
    ASSUME fs \in Tree, NEW c \in Call
    PROVE  PathEvent(c).version = c.version /\ PathEvent(c).stale = ~c.inTree
  <1>1. PathEvent(c).stale = ~c.inTree
    BY PathEventFacts
  <1>2. PathEvent(c).version = c.version
    BY DEF PathEvent, FreshEvent, Call
  <1>. QED
    BY <1>1, <1>2

LEMMA TurnKinds ==
    ASSUME HooksInv, KindsInv, TurnToPathHooks
    PROVE  KindsInv'
  <1>1. /\ calls # << >> /\ ~Top.running /\ Top.stage = "write hooks"
        /\ calls' = SetTop(PathEvent(Top))
        /\ UNCHANGED <<fs, copy, recreated, astray>>
    BY DEF TurnToPathHooks, PathEvent, Waits
  <1>2. /\ Len(calls) \in DOMAIN calls /\ Top = calls[Len(calls)] /\ Top \in Call
        /\ CallInOrder(Top) /\ (Top.op # "remove dir" => Top.path \in Places)
    BY <1>1, TopFacts
  <1>3. Top.op = "write" /\ Top.path \in Places
    BY <1>1, <1>2, CallFields DEF CallInOrder
  <1>4. PICK c \in Call : c = PathEvent(Top) /\ TurnedAs(Top, c)
    BY <1>2, TurnedFacts, CallsType
  <1>5. /\ c.op = "write" /\ c.path = Top.path /\ c.stage = "path hooks" /\ c.hook = 0
        /\ c.event = Top.event /\ ~c.running
    BY <1>1, <1>3, <1>4 DEF TurnedAs
  <1>6. c.version = Top.version /\ (~c.stale <=> Top.inTree)
    BY <1>2, <1>4, TurnedVersion, CallsType
  <1>7. PICK t : t = SetTop(c)
    OBVIOUS
  <1>8. PICK q \in Places : q = Top.path
    BY <1>3
  <1>9. KindIsRight(c)
    <2>1. KindIsRight(Top)
      BY <1>2 DEF KindsInv, KindsHold
    <2>. QED
      BY <1>3, <1>5, <1>6, <2>1 DEF KindIsRight
  <1>10. \A p \in Places : LeftAlone(p)
    BY <1>1 DEF LeftAlone
  <1>11. ASSUME OnTop(c, t)
         PROVE  Carried(calls, t, q)
    <2>1. Live(c, q) <=> Live(Top, q)
      BY <1>1, <1>3, <1>5, <1>6 DEF Live
    <2>2. ToCreate(c, q) <=> ToCreate(Top, q)
      BY <1>1, <1>5, <1>6, <2>1 DEF ToCreate
    <2>3. ~JustRemoved(Top)
      BY <1>3 DEF JustRemoved
    <2>. QED
      BY <1>1, <1>6, <1>11, <2>1, <2>2, <2>3, TopCarried
  <1>. QED
    BY <1>1, <1>4, <1>5, <1>7, <1>8, <1>9, <1>10, <1>11, TopKinds

LEMMA EndKinds ==
    ASSUME HooksInv, KindsInv, calls # << >>, NEW t, calls' = t, Ended(t),
           NEW q \in Places, q = Top.path, \A p \in Places : LeftAlone(p),
           FirstTold(q)' => ~ToCreate(Top, q) /\ ~JustRemoved(Top)
    PROVE  KindsInv'
  <1>1. PICK n : n = Len(calls)
    OBVIOUS
  <1>2. Top = calls[n] /\ StackInOrder(calls)
    BY <1>1, TopFacts, CallsType
  <1>3. \A i \in DOMAIN t : i \in DOMAIN calls /\ i # n /\ t[i] = calls[i]
    BY <1>1 DEF Ended
  <1>4. KindsHold(calls)
    BY DEF KindsInv
  <1>5. \A i \in DOMAIN t : KindIsRight(t[i])
    BY <1>3, <1>4 DEF KindsHold
  <1>6. ASSUME NEW p \in Places
        PROVE  Carried(calls, t, p)
    <2>1. \A i \in DOMAIN calls : calls[i].path = p => i \in DOMAIN t \/ i = n
      BY <1>1, <1>2, RemovesOfDirs DEF Ended
    <2>2. LiveCarried(calls, t, p) /\ \A i \in DOMAIN t : ToCreate(t[i], p) => ToCreate(calls[i], p)
      BY <1>3 DEF LiveCarried
    <2>3. ASSUME FirstTold(p)', NEW i \in DOMAIN calls, calls[i].path = p,
                 ToCreate(calls[i], p) \/ JustRemoved(calls[i])
          PROVE  i \in DOMAIN t /\ t[i] = calls[i]
      <3>1. CASE i = n
        <4>1. calls[i] = Top /\ p = q
          BY <1>2, <2>3, <3>1
        <4>. QED
          BY <2>3, <4>1
      <3>. QED
        BY <1>3, <2>1, <2>3, <3>1
    <2>4. \A i \in DOMAIN calls : ToCreate(calls[i], p) => calls[i].path = p
      BY DEF ToCreate, Live
    <2>. QED
      BY <2>2, <2>3, <2>4 DEF Carried
  <1>. QED
    BY <1>4, <1>5, <1>6, KindsStep

LEMMA RaiseKinds ==
    ASSUME HooksInv, KindsInv, HookRaises
    PROVE  KindsInv'
  <1>1. /\ HookRuns /\ calls' = Unwound(Seqs!Front(calls))
        /\ UNCHANGED <<fs, copy, recreated>>
        /\ astray' = [j \in DOMAIN PathHooks |->
              IF Top.stage = "write hooks" \/ j \in Due(Top)
              THEN astray[j] \cup {Top.path} ELSE astray[j]]
    BY DEF HookRaises
  <1>2. /\ calls # << >> /\ Top.running /\ Top.path \in Places /\ ~JustRemoved(Top)
    BY <1>1, RunningFacts
  <1>3. Top = calls[Len(calls)] /\ Len(calls) \in DOMAIN calls /\ Top \in Call
    BY <1>2, TopFacts
  <1>4. PICK q \in Places : q = Top.path
    BY <1>2
  <1>5. PICK t : t = Unwound(Seqs!Front(calls))
    OBVIOUS
  <1>6. calls' = t /\ Ended(t)
    BY <1>1, <1>2, <1>5, CallsUnwound
  <1>7. ASSUME NEW p \in Places
        PROVE  LeftAlone(p)
    <2>1. \A j \in DOMAIN PathHooks : p \in astray[j] => p \in astray'[j]
      BY <1>1
    <2>. QED
      BY <1>1, <2>1 DEF LeftAlone
  <1>8. ASSUME FirstTold(q)', ToCreate(Top, q)
        PROVE  FALSE
    <2>1. Top.hook > 0
      BY <1>2, <1>3 DEF KindsInv, KindsHold, KindIsRight
    <2>2. Top.stage = "write hooks"
      <3>1. Top.stage = "path hooks" => Top.hook = 0
        BY <1>8 DEF ToCreate
      <3>2. Top.stage \in {"write hooks", "path hooks"}
        BY <1>8 DEF ToCreate, Live
      <3>3. Top.hook # 0
        <4>1. PICK h \in Nat : h = Top.hook
          BY <1>3, CallFields
        <4>2. h > 0
          BY <2>1, <4>1
        <4>3. h # 0
          BY <4>2
        <4>. QED
          BY <4>1, <4>3
      <3>. QED
        BY <3>1, <3>2, <3>3
    <2>3. 1 \in DOMAIN PathHooks /\ q \notin astray'[1]
      BY <1>8 DEF FirstTold
    <2>. QED
      BY <1>1, <1>4, <2>2, <2>3
  <1>. QED
    BY <1>2, <1>4, <1>6, <1>7, <1>8, EndKinds

LEMMA CallReturnsKinds ==
    ASSUME HooksInv, KindsInv, CallReturns
    PROVE  KindsInv'
  <1>1. /\ calls # << >> /\ Top.stage = "path hooks" /\ Due(Top) = {}
        /\ calls' = Seqs!Front(calls)
        /\ UNCHANGED <<fs, copy, recreated, astray>>
    BY DEF CallReturns, Waits
  <1>2. /\ Top \in Call /\ CallInOrder(Top) /\ (Top.op # "remove dir" => Top.path \in Places)
    BY <1>1, TopFacts
  <1>3. Top.op # "remove dir"
    BY <1>1, <1>2 DEF CallInOrder
  <1>4. PICK q \in Places : q = Top.path
    BY <1>2, <1>3
  <1>5. PICK t : t = Seqs!Front(calls)
    OBVIOUS
  <1>6. calls' = t /\ Ended(t)
    BY <1>1, <1>5, CallsBelow
  <1>7. \A p \in Places : LeftAlone(p)
    BY <1>1 DEF LeftAlone
  <1>8. ASSUME FirstTold(q)', Top.hook = 0
        PROVE  FALSE
    <2>1. 1 \in DOMAIN PathHooks /\ Under(q, PathHooks[1]) /\ 1 > Top.hook
      BY <1>8, FirstIsLater DEF FirstTold
    <2>2. 1 \in Due(Top)
      BY <1>1, <1>4, <2>1 DEF Due, PrefixesFor
    <2>. QED
      BY <1>1, <2>2
  <1>. QED
    BY <1>1, <1>4, <1>6, <1>7, <1>8, EndKinds DEF ToCreate, JustRemoved

-----------------------------------------------------------------------------
(* A hook is told. *)

\* The write hooks do not change what the path hooks know.
LEMMA WriteToldKinds ==
    ASSUME HooksInv, calls # << >>, CallInOrder(Top), NEW q \in Places,
           NEW j \in Nat, NEW c, ToldAs(Top, c, j), NEW t, OnTop(c, t),
           Top.stage = "write hooks"
    PROVE  Carried(calls, t, q)
  <1>1. Live(c, q) <=> Live(Top, q)
    BY DEF ToldAs, Live
  <1>2. ToCreate(c, q) <=> ToCreate(Top, q)
    BY <1>1 DEF ToldAs, ToCreate
  <1>3. ~JustRemoved(Top)
    BY DEF JustRemoved, CallInOrder
  <1>4. c.version = Top.version
    BY DEF ToldAs
  <1>. QED
    BY <1>1, <1>2, <1>3, <1>4, TopCarried

\* A hook after the first is told: the first has been, or is not to be.
LEMMA LaterToldKinds ==
    ASSUME HooksInv, calls # << >>, NEW q \in Places, q = Top.path,
           NEW j \in Nat, NEW c, ToldAs(Top, c, j), NEW t, OnTop(c, t),
           ToldPath(j, q), NextIs(Top, j), j # 1
    PROVE  Carried(calls, t, q)
  <1>1. Live(c, q) <=> Live(Top, q)
    BY DEF ToldAs, Live
  <1>2. c.hook = j /\ c.stage = "path hooks" /\ c.version = Top.version
    BY DEF ToldAs, ToldPath
  <1>3. j # 0
    <2>1. j > 0
      BY DEF NextIs
    <2>. QED
      BY <2>1
  <1>4. ~ToCreate(c, q)
    BY <1>2, <1>3 DEF ToCreate
  <1>5. Top.stage = "path hooks"
    BY DEF ToldPath
  <1>6. ASSUME FirstTold(q)', Top.hook = 0
        PROVE  FALSE
    <2>1. 1 \in DOMAIN PathHooks /\ Under(q, PathHooks[1]) /\ 1 > Top.hook
      BY <1>6, FirstIsLater DEF FirstTold
    <2>2. 1 = j \/ 1 > j
      BY <1>5, <2>1 DEF NextIs, PrefixesFor
    <2>3. 1 > j
      BY <2>2
    <2>. QED
      BY <1>3, <2>3
  <1>. QED
    BY <1>1, <1>2, <1>4, <1>5, <1>6, TopCarried DEF ToCreate, JustRemoved

\* The first path hook is told: of a write, and the file is there and no other
\* write is still to tell of its creation; of a removal, and it is gone.
LEMMA FirstToldKinds ==
    ASSUME HooksInv, KindsInv, calls # << >>, NEW q \in Places, q = Top.path,
           Top.op \in {"write", "remove"}, NEW c, ToldAs(Top, c, 1), NEW t, OnTop(c, t),
           ToldPath(1, q), 1 \in DOMAIN PathHooks,
           calls' = t, fs' = fs, recreated' = recreated
    PROVE  KindsInPlace(calls, q)'
  <1>. SUFFICES ASSUME q \notin recreated
                PROVE  KindsInPlace(calls, q)'
    BY DEF KindsInPlace
  <1>1. PICK n : n = Len(calls)
    OBVIOUS
  <1>2. Top = calls[n] /\ n \in DOMAIN calls /\ CallInOrder(Top) /\ Top \in Call
    BY <1>1, TopFacts
  <1>3. /\ DOMAIN t = DOMAIN calls /\ t[n] = c
        /\ \A i \in DOMAIN calls : i # n => t[i] = calls[i]
    BY <1>1 DEF OnTop
  <1>4. /\ IsFile(fs, q) => fs[q].version > 0
        /\ VersionsAscend(calls, q)
    BY DEF KindsInv, KindsHold, KindsInPlace
  <1>5. Live(c, q) <=> Live(Top, q)
    BY DEF ToldAs, Live
  <1>6. LiveCarried(calls, t, q)
    BY <1>2, <1>3, <1>5 DEF LiveCarried, ToldAs
  <1>7. VersionsAscend(calls, q)'
    BY <1>4, <1>6, CarriedVersions
  <1>8. FirstKnows(calls, q)'
    <2>. SUFFICES ASSUME q \notin astray'[1]
                  PROVE  IF IsFile(fs, q)
                         THEN /\ copy'[1][q].present
                              /\ fs[q].version = 1 => \A i \in DOMAIN t : ~ToCreate(t[i], q)
                         ELSE ~copy'[1][q].present
      BY DEF FirstKnows, FirstTold, IsFile, ToCreate, Live
    <2>1. /\ copy \in [DOMAIN PathHooks -> [Path -> [present: BOOLEAN, content: Seq(Data)]]]
          /\ astray \in [DOMAIN PathHooks -> SUBSET Places] /\ q \in Path
      BY PlaceFacts DEF HooksInv, HooksTypeOK
    <2>2. ~Top.stale
      <3>1. astray'[1] = IF Top.stale THEN astray[1] \cup {q} ELSE astray[1] \ {q}
        BY <2>1 DEF ToldPath
      <3>. QED
        BY <3>1
    <2>3. copy'[1][q] = Heard(Top)
      BY <2>1 DEF ToldPath
    <2>4. copy'[1][q].present <=> Top.op = "write"
      <3>1. Top.event # "delete" <=> Top.op = "write"
        BY <1>2 DEF CallInOrder
      <3>2. Heard(Top).present = (Top.event # "delete")
        BY DEF Heard
      <3>. QED
        BY <2>3, <3>1, <3>2
    <2>5. IsFile(fs, q) <=> Top.op = "write"
      <3>1. CallIsRight(calls, n, q)
        BY <1>2 DEF HooksInv, PlaceInOrder
      <3>. QED
        BY <1>2, <2>2, <3>1 DEF CallIsRight, ToldPath
    <2>6. Top.op = "write" => Live(Top, q)
      BY <2>2 DEF Live, ToldPath
    <2>7. ASSUME fs[q].version = 1, Live(Top, q), NEW i \in DOMAIN t, ToCreate(t[i], q)
          PROVE  FALSE
      <3>1. ~ToCreate(c, q)
        <4>1. c.hook = 1 /\ c.stage = "path hooks"
          BY DEF ToldAs, ToldPath
        <4>2. 1 # 0
          OBVIOUS
        <4>. QED
          BY <4>1, <4>2 DEF ToCreate
      <3>2. i # n /\ i \in DOMAIN calls /\ t[i] = calls[i]
        BY <1>3, <2>7, <3>1
      <3>3. Live(calls[i], q) /\ calls[i].version = 1
        BY <2>7, <3>2 DEF ToCreate
      <3>4. i < n
        <4>1. PICK m \in Nat : m = Len(calls)
          BY CallsType
        <4>2. DOMAIN calls = 1..m
          BY <4>1, CallsType
        <4>3. \A k \in 1..m : k # m => k < m
          BY <4>1
        <4>. QED
          BY <1>1, <3>2, <4>1, <4>2, <4>3
      <3>5. 1 < Top.version /\ Top.version <= 1
        BY <1>2, <1>4, <2>7, <3>2, <3>3, <3>4 DEF VersionsAscend
      <3>6. PICK v \in Nat : v = Top.version
        BY <1>2, CallFields
      <3>7. 1 < v /\ v <= 1
        BY <3>5, <3>6
      <3>. QED
        BY <3>7
    <2>. QED
      BY <2>4, <2>5, <2>6, <2>7
  <1>. QED
    BY <1>4, <1>7, <1>8 DEF KindsInPlace, IsFile

LEMMA TellKinds ==
    ASSUME HooksInv, KindsInv, TellHook
    PROVE  KindsInv'
  <1>1. PICK j : j = Sets!Min(Due(Top))
    OBVIOUS
  <1>2. /\ calls # << >> /\ ~Top.running /\ Top.op # "remove dir" /\ Due(Top) # {}
        /\ calls' = SetTop(Told(Top, j))
        /\ UNCHANGED <<fs, index, store, recreated>>
    BY <1>1 DEF TellHook, Waits, Told
  <1>3. /\ Len(calls) \in DOMAIN calls /\ Top = calls[Len(calls)] /\ Top \in Call
        /\ CallInOrder(Top) /\ Top.path \in Places
    BY <1>2, TopFacts
  <1>4. PICK q \in Places : q = Top.path
    BY <1>3
  <1>5. Top.op \in {"write", "remove"}
    BY <1>2, <1>3, CallFields
  <1>6. Top.stage \in {"write hooks", "path hooks"}
    BY <1>3, <1>5 DEF CallInOrder
  <1>7. ToldWrite(j, q) \/ ToldPath(j, q)
    <2>1. CASE Top.stage = "write hooks"
      BY <1>1, <1>4, <2>1 DEF TellHook, ToldWrite
    <2>2. CASE Top.stage = "path hooks"
      <3>1. Top.stage # "write hooks"
        BY <2>2
      <3>. QED
        BY <1>1, <1>4, <2>2, <3>1 DEF TellHook, ToldPath
    <2>. QED
      BY <1>6, <2>1, <2>2
  <1>8. NextIs(Top, j) /\ j \in Nat /\ j > 0
    BY <1>1, <1>2, <1>3, NextHook DEF NextIs
  <1>9. PICK c \in Call : c = Told(Top, j) /\ ToldAs(Top, c, j)
    BY <1>3, <1>8, ToldFacts
  <1>10. PICK t : t = SetTop(c)
    OBVIOUS
  <1>11. KindIsRight(c)
    <2>1. KindIsRight(Top)
      BY <1>3 DEF KindsInv, KindsHold
    <2>. QED
      BY <1>8, <1>9, <2>1 DEF KindIsRight, ToldAs
  <1>12. c.path = q
    BY <1>4, <1>9 DEF ToldAs
  <1>13. /\ copy \in [DOMAIN PathHooks -> [Path -> [present: BOOLEAN, content: Seq(Data)]]]
         /\ astray \in [DOMAIN PathHooks -> SUBSET Places]
    BY DEF HooksInv, HooksTypeOK
  <1>14. ASSUME NEW p \in Places \ {q}
         PROVE  LeftAlone(p)
    <2>1. p \in Path /\ p # q
      BY PlaceFacts
    <2>2. CASE ToldWrite(j, q)
      BY <1>2, <2>2 DEF LeftAlone, ToldWrite
    <2>3. CASE ToldPath(j, q)
      <3>1. \A k \in DOMAIN PathHooks : copy'[k][p] = copy[k][p]
        BY <1>13, <2>1, <2>3 DEF ToldPath
      <3>2. \A k \in DOMAIN PathHooks : p \in astray[k] => p \in astray'[k]
        BY <1>13, <2>1, <2>3 DEF ToldPath
      <3>. QED
        BY <1>2, <3>1, <3>2 DEF LeftAlone
    <2>. QED
      BY <1>7, <2>2, <2>3
  <1>15. ASSUME OnTop(c, t)
         PROVE  KindsInPlace(calls, q)' \/ (LeftAlone(q) /\ Carried(calls, t, q))
    <2>1. CASE ToldWrite(j, q)
      <3>1. Carried(calls, t, q)
        BY <1>2, <1>3, <1>8, <1>9, <1>15, <2>1, WriteToldKinds DEF ToldWrite
      <3>2. LeftAlone(q)
        BY <1>2, <2>1 DEF LeftAlone, ToldWrite
      <3>. QED
        BY <3>1, <3>2
    <2>2. CASE ToldPath(j, q) /\ j # 1
      <3>1. Carried(calls, t, q)
        BY <1>2, <1>4, <1>8, <1>9, <1>15, <2>2, LaterToldKinds DEF ToldPath
      <3>2. 1 \in DOMAIN PathHooks => copy'[1] = copy[1] /\ astray'[1] = astray[1]
        BY <1>13, <2>2 DEF ToldPath
      <3>3. LeftAlone(q)
        BY <1>2, <3>2 DEF LeftAlone
      <3>. QED
        BY <3>1, <3>3
    <2>3. CASE ToldPath(j, q) /\ j = 1
      <3>1. 1 \in DOMAIN PathHooks
        BY <1>8, <2>3 DEF NextIs, PrefixesFor, ToldPath
      <3>2. calls' = t /\ fs' = fs /\ recreated' = recreated
        BY <1>2, <1>9, <1>10
      <3>. QED
        BY <1>2, <1>4, <1>5, <1>9, <1>15, <2>3, <3>1, <3>2, FirstToldKinds
    <2>. QED
      BY <1>7, <2>1, <2>2, <2>3
  <1>. QED
    BY <1>2, <1>4, <1>9, <1>10, <1>11, <1>12, <1>14, <1>15, TopKinds

-----------------------------------------------------------------------------
(* Every step keeps what the first path hook knows. *)

LEMMA KindsStart ==
    HooksInit => KindsInv
  <1>. SUFFICES ASSUME HooksInit
                PROVE  KindsInv
    OBVIOUS
  <1>1. /\ fs = EmptyTree /\ calls = << >>
        /\ copy = [j \in DOMAIN PathHooks |-> [p \in Path |-> Nothing]]
    BY DEF HooksInit
  <1>2. DOMAIN calls = {}
    BY <1>1, EmptySeq
  <1>3. ASSUME NEW p \in Places
        PROVE  KindsInPlace(calls, p)
    <2>1. p \in Path /\ p # Root
      BY PlaceFacts
    <2>2. ~IsFile(fs, p)
      BY <1>1, <2>1, NodeFacts DEF EmptyTree, IsFile
    <2>3. 1 \in DOMAIN PathHooks => ~copy[1][p].present
      BY <1>1, <2>1 DEF Nothing
    <2>4. FirstKnows(calls, p)
      BY <2>2, <2>3 DEF FirstKnows, FirstTold
    <2>. QED
      BY <1>2, <2>2, <2>4 DEF KindsInPlace, VersionsAscend
  <1>. QED
    BY <1>2, <1>3 DEF KindsInv, KindsHold

LEMMA KindsStutter ==
    ASSUME HooksInv, KindsInv, UNCHANGED vars
    PROVE  KindsInv'
  <1>1. UNCHANGED <<fs, calls, copy, recreated, astray>>
    BY DEF vars
  <1>2. PICK t : t = calls
    OBVIOUS
  <1>3. KindsHold(t) /\ \A i \in DOMAIN t : KindIsRight(t[i])
    BY <1>2 DEF KindsInv, KindsHold
  <1>4. \A p \in Places : LeftAlone(p) /\ Carried(t, t, p)
    BY <1>1, CarriedSame DEF LeftAlone
  <1>. QED
    BY <1>1, <1>2, <1>3, <1>4, KindsStep

LEMMA KindsNext ==
    ASSUME HooksInv, KindsInv, [HooksNext]_vars
    PROVE  KindsInv'
  <1>1. ASSUME NEW p \in Places, NEW d \in Data, WriteFile(p, d)
        PROVE  KindsInv'
    BY <1>1, WriteKinds
  <1>2. ASSUME NEW p \in Path, Remove(p)
        PROVE  KindsInv'
    BY <1>2, RemoveKinds
  <1>3. ASSUME NEW p \in Path, VisitChild(p)
        PROVE  KindsInv'
    BY <1>3, VisitKinds
  <1>4. CASE DropDirectory
    BY <1>4, DropKinds
  <1>5. CASE TellHook
    BY <1>5, TellKinds
  <1>6. CASE HookReturns
    BY <1>6, ReturnKinds
  <1>7. CASE HookRaises
    BY <1>7, RaiseKinds
  <1>8. CASE TurnToPathHooks
    BY <1>8, TurnKinds
  <1>9. CASE CallReturns
    BY <1>9, CallReturnsKinds
  <1>10. CASE UNCHANGED vars
    BY <1>10, KindsStutter
  <1>. QED
    BY <1>1, <1>2, <1>3, <1>4, <1>5, <1>6, <1>7, <1>8, <1>9, <1>10 DEF HooksNext

LEMMA KindsInvariant ==
    HooksSpec => []KindsInv
  <1>1. HooksInit => KindsInv
    BY KindsStart
  <1>2. HooksInv /\ KindsInv /\ [HooksNext]_vars => KindsInv'
    BY KindsNext
  <1>. QED
    BY <1>1, <1>2, HooksInvariant, PTL DEF HooksSpec

LEMMA FirstOnly ==
    \A h \in Nat : 1 > h => h = 0
  OBVIOUS

LEMMA ZeroIsFirst ==
    \A h : h = 0 => ~(h > 0)
  OBVIOUS

\* A write below the top has called a hook.
LEMMA BelowCalled ==
    ASSUME HooksInv, KindsInv, NEW i \in DOMAIN calls, i # Len(calls),
           calls[i].op = "write"
    PROVE  calls[i].hook > 0
  <1>1. \A k \in DOMAIN calls : k # Len(calls) => k < Len(calls)
    <2>1. PICK n \in Nat : n = Len(calls)
      BY CallsType
    <2>2. DOMAIN calls = 1..n
      BY <2>1, CallsType
    <2>3. \A k \in 1..n : k # n => k < n
      BY <2>1
    <2>. QED
      BY <2>1, <2>2, <2>3
  <1>2. calls[i].running
    BY <1>1, CallsType DEF StackInOrder
  <1>. QED
    BY <1>2 DEF KindsInv, KindsHold, KindIsRight

\* The first path hook hears "create" of a file that it does not have and
\* "update" of one that it has, for every depth of writes and removals in one
\* another: the kind that write_file decides on before the write hooks run still
\* holds when the path hooks are told, unless a call in a hook has changed the
\* file in between (_emit_write_event).
THEOREM KindsAreRight ==
    HooksSpec => KindsAlternate
  <1>1. ASSUME HooksInv, KindsInv, TellHook, Top.op = "write", Top.stage = "path hooks",
               1 \in Due(Top), ~Top.stale, Top.path \notin recreated \cup astray[1],
               Top.version = fs[Top.path].version, ~SavingWrite(Top.path)
        PROVE  Top.event = IF copy[1][Top.path].present THEN "update" ELSE "create"
    <2>1. PICK n : n = Len(calls)
      OBVIOUS
    <2>2. Top = calls[n] /\ n \in DOMAIN calls /\ CallInOrder(Top) /\ Top \in Call
      BY <1>1, <2>1, WaitsFacts DEF TellHook
    <2>3. PICK p \in Places : p = Top.path
      BY <1>1, <2>2 DEF CallInOrder
    <2>4. FirstTold(p) /\ 1 > Top.hook
      BY <1>1, <2>3 DEF FirstTold, Due, PrefixesFor
    <2>5. Top.hook = 0
      <3>1. \A h \in Nat : 1 > h => h = 0
        BY FirstOnly
      <3>. QED
        BY <2>2, <2>4, <3>1, CallFields
    <2>6. Live(Top, p)
      BY <1>1, <2>3 DEF Live
    <2>7. VersionsAscend(calls, p) /\ FirstKnows(calls, p)
      BY <1>1, <2>3 DEF KindsInv, KindsHold, KindsInPlace
    <2>8. IsFile(fs, p)
      BY <2>2, <2>6, <2>7 DEF VersionsAscend
    <2>9. Top.event \in {"create", "update"} /\ (Top.event = "create" <=> Top.version = 1)
      BY <1>1, <2>2 DEF CallInOrder, KindsInv, KindsHold, KindIsRight
    <2>10. CASE copy[1][p].present
      <3>1. Top.version = 1 => ToCreate(Top, p)
        BY <2>5, <2>6 DEF ToCreate
      <3>2. Top.version = 1 => ~ToCreate(Top, p)
        BY <1>1, <2>2, <2>3, <2>4, <2>7, <2>8, <2>10 DEF FirstKnows
      <3>. QED
        BY <2>3, <2>9, <2>10, <3>1, <3>2
    <2>11. CASE ~copy[1][p].present
      <3>1. PICK i \in DOMAIN calls : ToCreate(calls[i], p)
        BY <2>4, <2>7, <2>8, <2>11 DEF FirstKnows
      <3>2. calls[i].op = "write" /\ calls[i].path = p /\ calls[i].version = 1
        BY <3>1 DEF ToCreate, Live
      <3>3. calls[i].stage # "write hooks"
        BY <1>1, <2>3, <3>2 DEF SavingWrite
      <3>4. calls[i].hook = 0
        BY <3>1, <3>3 DEF ToCreate, Live
      <3>5. i = n
        <4>1. ~(calls[i].hook > 0)
          BY <3>4, ZeroIsFirst
        <4>. QED
          BY <1>1, <2>1, <3>2, <4>1, BelowCalled
      <3>. QED
        BY <2>2, <2>3, <2>9, <2>11, <3>2, <3>5
    <2>. QED
      BY <2>10, <2>11
  <1>2. HooksInv /\ KindsInv =>
          [ TellHook /\ Top.op = "write" /\ Top.stage = "path hooks" /\ 1 \in Due(Top)
              /\ ~Top.stale /\ Top.path \notin recreated \cup astray[1]
              /\ Top.version = fs[Top.path].version /\ ~SavingWrite(Top.path)
            => Top.event = IF copy[1][Top.path].present THEN "update" ELSE "create" ]_vars
    BY <1>1
  <1>. QED
    BY <1>2, HooksInvariant, KindsInvariant, PTL DEF KindsAlternate
=============================================================================
