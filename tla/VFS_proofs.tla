----------------------------- MODULE VFS_proofs -----------------------------
(***************************************************************************)
(* The invariants of VFS and the promises of VFSProperties, for every      *)
(* universe of paths, every policy the host may give, every set of mounts  *)
(* and whatever other clients write to the adapters.  The two conjuncts of *)
(* Inv are inductive only together: a handler leaves a tree behind only if *)
(* it found a well-formed one of the right type.  The claims of            *)
(* TreeAlgorithms follow at the end.                                       *)
(***************************************************************************)
EXTENDS VFSProperties, TreeAlgorithms, FileTree_proofs, FiniteSetTheorems

Inv == TypeOK /\ TreeIsWellFormed

-----------------------------------------------------------------------------
(* The parts of a step that several handlers share. *)

\* The working directory after the subtrees at tops have gone.
LEMMA CwdFacts ==
    ASSUME Inv, NEW g \in Tree, NEW tops \in SUBSET Path, Root \notin tops,
           \A t, u \in tops : ~StrictlyUnder(t, u),
           \A q \in Path : IsDir(fs, q) /\ (\A t \in tops : ~Under(q, t)) => IsDir(g, q)
    PROVE  CwdWithout(tops) \in Location /\ IsDir(g, CwdWithout(tops).at)
  <1>1. /\ cwd \in Location /\ cwd.at \in Path /\ cwd.gone \in Seq(Name)
        /\ IsDir(fs, cwd.at) /\ WellFormed(fs)
    BY DEF Inv, TypeOK, TreeIsWellFormed, Location
  <1>2. CASE \E t \in tops : Under(cwd.at, t)
    <2>. DEFINE t == CHOOSE t \in tops : Under(cwd.at, t)
                tail == SubSeq(cwd.at, Len(t), Len(cwd.at))
    <2>1. t \in tops /\ t \in Path /\ Under(cwd.at, t)
      BY <1>2
    <2>2. CwdWithout(tops) = [at |-> Parent(t), gone |-> tail \o cwd.gone]
      BY <1>2 DEF CwdWithout
    <2>. HIDE DEF t
    <2>3. /\ t # Root /\ Parent(t) \in Path /\ StrictlyUnder(t, Parent(t))
          /\ Len(t) \in Nat \ {0}
      BY <2>1, ParentFacts
    <2>4. tail \in Seq(Name)
      <3>1. cwd.at \in Seq(Name) /\ Len(cwd.at) \in Nat
        BY <1>1, PathFacts
      <3>. QED
        BY <2>3, <3>1
    <2>5. IsDir(fs, Parent(t))
      <3>1. Under(cwd.at, Parent(t))
        BY <1>1, <2>1, <2>3, UnderTransitive DEF StrictlyUnder
      <3>. QED
        BY <1>1, <2>3, <3>1, AboveIsDir DEF IsDir, Exists, Inv, TypeOK
    <2>6. \A u \in tops : ~Under(Parent(t), u)
      <3>1. SUFFICES ASSUME NEW u \in tops, Under(Parent(t), u)
                     PROVE  FALSE
        OBVIOUS
      <3>2. Under(t, u) /\ t # u
        BY <2>1, <2>3, <3>1, UnderTransitive, UnderAntisymmetric DEF StrictlyUnder
      <3>. QED
        BY <2>1, <3>2 DEF StrictlyUnder
    <2>7. IsDir(g, Parent(t))
      BY <2>3, <2>5, <2>6
    <2>8. tail \o cwd.gone \in Seq(Name)
      BY <1>1, <2>4
    <2>. QED
      BY <2>2, <2>3, <2>7, <2>8 DEF Location
  <1>3. CASE ~\E t \in tops : Under(cwd.at, t)
    BY <1>1, <1>3 DEF CwdWithout
  <1>. QED
    BY <1>2, <1>3

LEMMA TextsFacts ==
    ASSUME NEW f \in Tree
    PROVE  Texts(f) \in [Path -> Seq(Data)] /\ NoText \in [Path -> Seq(Data)]
  BY EmptySeq DEF Texts, NoText, IsFile, Tree, Node

\* A step that changes the tree, the working directory and the index only.
LEMMA TreeStep ==
    ASSUME Inv, NEW f \in Tree, WellFormed(f), fs' = f,
           cwd' \in Location, IsDir(f, cwd'.at),
           index' \in [Path -> Seq(Data)], indexOn' \in BOOLEAN,
           mounted' \subseteq MountPoints,
           store' \in [MountPoints -> Store],
           mirror' \in [Path -> [present: BOOLEAN, content: Seq(Data)]],
           UNCHANGED snap, res' \in {"ok", "error", "conflict"}
    PROVE  Inv'
  BY DEF Inv, TypeOK, TreeIsWellFormed

\* A step that changes nothing but the tree, and removes no directory.
LEMMA TreeOnlyStep ==
    ASSUME Inv, NEW f \in Tree, WellFormed(f), TreeOnly(f),
           \A q \in Path : IsDir(fs, q) => IsDir(f, q),
           res' \in {"ok", "error", "conflict"}
    PROVE  Inv'
  BY DEF Inv, TypeOK, TreeIsWellFormed, TreeOnly, Location

LEMMA RaiseStep ==
    ASSUME Inv, Raise
    PROVE  Inv'
  BY DEF Inv, TypeOK, TreeIsWellFormed, Raise, Return

-----------------------------------------------------------------------------
LEMMA InitInv ==
    Init => Inv
  <1>. SUFFICES ASSUME Init
                PROVE  Inv
    OBVIOUS
  <1>1. EmptyTree \in Tree /\ WellFormed(EmptyTree) /\ IsDir(EmptyTree, Root)
    BY EmptyTreeFacts DEF WellFormed
  <1>2. cwd \in Location /\ cwd.at = Root
    BY RootFacts, EmptySeq DEF Init, Location
  <1>3. NoText \in [Path -> Seq(Data)]
    BY EmptySeq DEF NoText
  <1>4. [p \in Path |-> Unmirrored] \in [Path -> [present: BOOLEAN, content: Seq(Data)]]
    BY EmptySeq DEF Unmirrored
  <1>5. NoSnapshot \in [taken: BOOLEAN, fs: Tree, pwd: Seq(Name),
                        mounted: SUBSET MountPoints] /\ NoSnapshot.taken = FALSE
    BY <1>1, EmptySeq DEF NoSnapshot, Root
  <1>6. TypeOK
    BY <1>1, <1>2, <1>3, <1>4, <1>5, ConstantAssumption DEF Init, TypeOK
  <1>7. TreeIsWellFormed
    BY <1>1, <1>2, <1>5 DEF Init, TreeIsWellFormed
  <1>. QED
    BY <1>6, <1>7 DEF Inv

\* mkdir meets no file on its way when it is allowed, with or without parents.
LEMMA MkdirMeetsNoFile ==
    ASSUME Inv, NEW p \in Path, NEW parents \in BOOLEAN, NEW exist_ok \in BOOLEAN,
           MkdirAllowed(p, parents, exist_ok)
    PROVE  CanMakeDirs(fs, p)
  <1>1. fs \in Tree /\ WellFormed(fs)
    BY DEF Inv, TypeOK, TreeIsWellFormed
  <1>2. CASE p = Root
    <2>1. IsDir(fs, p)
      BY <1>1, <1>2 DEF WellFormed
    <2>2. \A q \in Path : Under(p, q) => IsDir(fs, q)
      BY <1>1, <2>1, AboveIsDir DEF IsDir, Exists
    <2>. QED
      BY <2>2 DEF CanMakeDirs, IsDir, IsFile
  <1>3. CASE p # Root
    <2>1. Parent(p) \in Path /\ StrictlyUnder(p, Parent(p))
      BY <1>3, ParentFacts
    <2>2. /\ IF parents THEN CanMakeDirs(fs, Parent(p)) ELSE IsDir(fs, Parent(p))
          /\ ~IsFile(fs, p)
      BY <1>3 DEF MkdirAllowed
    <2>3. CanMakeDirs(fs, Parent(p))
      <3>1. CASE IsDir(fs, Parent(p))
        <4>1. \A q \in Path : Under(Parent(p), q) => IsDir(fs, q)
          BY <1>1, <2>1, <3>1, AboveIsDir DEF IsDir, Exists
        <4>. QED
          BY <4>1 DEF CanMakeDirs, IsDir, IsFile
      <3>. QED
        BY <2>2, <3>1
    <2>4. ASSUME NEW q \in Path, Under(p, q)
          PROVE  ~IsFile(fs, q)
      <3>1. CASE q = p
        BY <2>2, <3>1
      <3>2. CASE q # p
        <4>1. Under(Parent(p), q)
          BY <2>4, <3>2, UnderParent DEF StrictlyUnder
        <4>. QED
          BY <2>3, <4>1 DEF CanMakeDirs
      <3>. QED
        BY <3>1, <3>2
    <2>. QED
      BY <2>4 DEF CanMakeDirs
  <1>. QED
    BY <1>2, <1>3

LEMMA MkdirInv ==
    ASSUME Inv, NEW p \in Path, NEW parents \in BOOLEAN, NEW exist_ok \in BOOLEAN,
           Mkdir(p, parents, exist_ok)
    PROVE  Inv'
  <1>1. fs \in Tree /\ WellFormed(fs)
    BY DEF Inv, TypeOK, TreeIsWellFormed
  <1>2. CASE Raise
    BY <1>2, RaiseStep
  <1>3. CASE /\ MkdirAllowed(p, parents, exist_ok)
             /\ Return("ok") /\ TreeOnly(MakeDirs(fs, p))
    <2>1. CanMakeDirs(fs, p)
      BY <1>3, MkdirMeetsNoFile
    <2>2. /\ MakeDirs(fs, p) \in Tree /\ WellFormed(MakeDirs(fs, p))
          /\ \A q \in Path : IsDir(fs, q) => IsDir(MakeDirs(fs, p), q)
      BY <1>1, <2>1, MakeDirsFacts
    <2>. QED
      BY <1>3, <2>2, TreeOnlyStep DEF Return
  <1>. QED
    BY <1>2, <1>3 DEF Mkdir

LEMMA TextIsSeq ==
    ASSUME NEW d \in Text
    PROVE  d \in Seq(Data)
  <1>1. PICK x \in Data : d = <<x>>
    BY DEF Text
  <1>2. <<x>> \in Seq(Data)
    OBVIOUS
  <1>. QED
    BY <1>1, <1>2

\* Replacing a file by a file leaves a well-formed tree well-formed.
LEMMA FileUpdateFacts ==
    ASSUME NEW f \in Tree, WellFormed(f), NEW p \in Path, IsFile(f, p),
           NEW node \in Node, node.kind = "file"
    PROVE  /\ [f EXCEPT ![p] = node] \in Tree
           /\ WellFormed([f EXCEPT ![p] = node])
           /\ \A q \in Path : IsDir(f, q) => IsDir([f EXCEPT ![p] = node], q)
  <1>. DEFINE g == [f EXCEPT ![p] = node]
  <1>1. g \in Tree
    BY DEF Tree
  <1>2. \A q \in Path : g[q].kind = f[q].kind
    BY DEF Tree, IsFile
  <1>. HIDE DEF g
  <1>3. WellFormed(g) /\ \A q \in Path : IsDir(f, q) => IsDir(g, q)
    BY <1>2 DEF WellFormed, IsDir, Exists
  <1>. QED
    BY <1>1, <1>3 DEF g

LEMMA StoreFacts ==
    ASSUME NEW st \in Store, NEW p \in Path, NEW content \in Seq(Data), NEW v \in Nat
    PROVE  AdapterWrite(st, p, content, v) \in Store
  BY DEF AdapterWrite, StoredEntry, Store, Entry

LEMMA DeleteFacts ==
    ASSUME NEW st \in Store, NEW P
    PROVE  AdapterDelete(st, P) \in Store
  <1>1. NoEntry \in Entry
    BY EmptySeq DEF NoEntry, Entry
  <1>. QED
    BY <1>1 DEF AdapterDelete, Store

LEMMA MirrorFacts ==
    ASSUME Inv, NEW P, NEW entry \in [present: BOOLEAN, content: Seq(Data)]
    PROVE  MirrorWith(P, entry) \in [Path -> [present: BOOLEAN, content: Seq(Data)]]
  BY DEF MirrorWith, Inv, TypeOK

LEMMA IndexedFacts ==
    ASSUME Inv, NEW p \in Path, NEW text \in Seq(Data)
    PROVE  Indexed(p, text) \in [Path -> Seq(Data)]
  BY DEF Indexed, Inv, TypeOK

LEMMA PersistInv ==
    ASSUME Inv, NEW f \in Tree, WellFormed(f), NEW p \in Path, IsFile(f, p),
           \A q \in Path : IsDir(fs, q) => IsDir(f, q),
           NEW node \in Node, node.kind = "file",
           PersistAndPublish(f, p, node)
    PROVE  Inv'
  <1>. DEFINE m == MountOf(p)
  <1>1. CASE Return("conflict") /\ TreeOnly([f EXCEPT ![p].content = node.content])
    <2>. DEFINE new == [f[p] EXCEPT !.content = node.content]
    <2>1. new \in Node /\ new.kind = "file"
      BY DEF Tree, Node, IsFile
    <2>2. [f EXCEPT ![p].content = node.content] = [f EXCEPT ![p] = new]
      OBVIOUS
    <2>. QED
      BY <1>1, <2>1, <2>2, FileUpdateFacts, TreeOnlyStep DEF Return
  <1>2. CASE /\ Return("ok")
             /\ fs' = [f EXCEPT ![p] = node]
             /\ store' = IF MountsOver(p) = {} THEN store
                         ELSE [store EXCEPT ![m] =
                                 AdapterWrite(store[m], p, node.content, f[p].version)]
             /\ index' = Indexed(p, node.content)
             /\ mirror' = MirrorWith({p}, [present |-> TRUE, content |-> node.content])
             /\ UNCHANGED <<cwd, indexOn, mounted, snap>>
    <2>1. /\ fs' \in Tree /\ WellFormed(fs')
          /\ \A q \in Path : IsDir(fs, q) => IsDir(fs', q)
      BY <1>2, FileUpdateFacts
    <2>2. node.content \in Seq(Data) /\ f[p].version \in Nat
      BY DEF Node, Tree
    <2>3. store' \in [MountPoints -> Store]
      <3>1. store \in [MountPoints -> Store]
        BY DEF Inv, TypeOK
      <3>2. m \in MountPoints =>
              AdapterWrite(store[m], p, node.content, f[p].version) \in Store
        BY <2>2, <3>1, StoreFacts
      <3>. QED
        BY <1>2, <3>1, <3>2
    <2>4. index' \in [Path -> Seq(Data)]
      BY <1>2, <2>2, IndexedFacts
    <2>5. mirror' \in [Path -> [present: BOOLEAN, content: Seq(Data)]]
      BY <1>2, <2>2, MirrorFacts
    <2>6. cwd' \in Location /\ IsDir(fs', cwd'.at)
      BY <1>2, <2>1 DEF Inv, TypeOK, TreeIsWellFormed, Location
    <2>. QED
      BY <1>2, <2>1, <2>3, <2>4, <2>5, <2>6, TreeStep DEF Return, Inv, TypeOK
  <1>. QED
    BY <1>1, <1>2 DEF PersistAndPublish, AfterConflict

LEMMA WriteFileInv ==
    ASSUME Inv, NEW p \in Path, NEW d \in Seq(Data), NEW append \in BOOLEAN, NEW expected,
           WriteFile(p, d, append, expected)
    PROVE  Inv'
  <1>. DEFINE f == EnsureFile(fs, p)
              node == Written(f[p], d, append)
  <1>1. CASE Raise
    BY <1>1, RaiseStep
  <1>2. CASE CanEnsureFile(fs, p)
    <2>1. /\ f \in Tree /\ WellFormed(f) /\ IsFile(f, p)
          /\ \A q \in Path : IsDir(fs, q) => IsDir(f, q)
      BY <1>2, EnsureFileFacts DEF Inv, TypeOK, TreeIsWellFormed
    <2>. HIDE DEF f
    <2>2. CASE Return("error") /\ TreeOnly(f)
      BY <2>1, <2>2, TreeOnlyStep DEF Return
    <2>3. CASE PersistAndPublish(f, p, node)
      <3>1. f[p] \in Node /\ f[p].kind = "file" /\ d \in Seq(Data)
        BY <2>1 DEF Tree, IsFile
      <3>. DEFINE content == IF append THEN f[p].content \o d ELSE d
      <3>2. node \in Node /\ node.kind = "file"
        <4>1. node = [f[p] EXCEPT !.content = content, !.version = f[p].version + 1]
          BY DEF Written
        <4>2. content \in Seq(Data)
          BY <3>1, ConcatProperties DEF Node
        <4>3. f[p].version + 1 \in Nat
          BY <3>1 DEF Node
        <4>. HIDE DEF content
        <4>. QED
          BY <3>1, <4>1, <4>2, <4>3 DEF Node
      <3>. QED
        BY <2>1, <2>3, <3>2, PersistInv
    <2>. QED
      BY <1>1, <1>2, <2>2, <2>3 DEF WriteFile, f
  <1>. QED
    BY <1>1, <1>2 DEF WriteFile

LEMMA TouchInv ==
    ASSUME Inv, NEW p \in Path, Touch(p)
    PROVE  Inv'
  <1>1. CASE Raise
    BY <1>1, RaiseStep
  <1>2. CASE /\ CanEnsureFile(fs, p)
             /\ res' \in {"ok", "error"} /\ TreeOnly(EnsureFile(fs, p))
    BY <1>2, EnsureFileFacts, TreeOnlyStep DEF Inv, TypeOK, TreeIsWellFormed
  <1>. QED
    BY <1>1, <1>2 DEF Touch, Return

LEMMA RemoveInv ==
    ASSUME Inv, NEW p \in Path, NEW recursive \in BOOLEAN, Remove(p, recursive)
    PROVE  Inv'
  <1>1. CASE Raise
    BY <1>1, RaiseStep
  <1>2. ASSUME p # Root, NEW tops \in RemovalOutcomes(fs, p), TakeOut(tops),
               res' \in {"ok", "error"}
        PROVE  Inv'
    <2>. DEFINE g == Detach(fs, tops)
    <2>1. /\ tops \in SUBSET Path /\ Root \notin tops
          /\ \A t, u \in tops : ~StrictlyUnder(t, u)
      BY <1>2, RemovalFacts DEF Inv, TypeOK
    <2>2. /\ g \in Tree /\ WellFormed(g)
          /\ \A q \in Path : (\A t \in tops : ~Under(q, t)) => g[q] = fs[q]
      BY <2>1, DetachFacts DEF Inv, TypeOK, TreeIsWellFormed
    <2>. HIDE DEF g
    <2>3. CwdWithout(tops) \in Location /\ IsDir(g, CwdWithout(tops).at)
      BY <2>1, <2>2, CwdFacts DEF IsDir
    <2>4. index' \in [Path -> Seq(Data)]
      BY <1>2, EmptySeq DEF TakeOut, IndexWithout, Inv, TypeOK
    <2>5. store' \in [MountPoints -> Store]
      BY <1>2, DeleteFacts DEF TakeOut, Inv, TypeOK
    <2>6. mirror' \in [Path -> [present: BOOLEAN, content: Seq(Data)]]
      BY <1>2, MirrorFacts, EmptySeq DEF TakeOut, Unmirrored
    <2>7. fs' = g /\ cwd' = CwdWithout(tops) /\ UNCHANGED <<indexOn, mounted, snap>>
      BY <1>2 DEF TakeOut, DetachCwd, g
    <2>. QED
      BY <1>2, <2>2, <2>3, <2>4, <2>5, <2>6, <2>7, TreeStep DEF Inv, TypeOK
  <1>. QED
    BY <1>1, <1>2 DEF Remove, Return

\* Putting a subtree in takes no directory away where there was no node.
LEMMA GraftedStep ==
    ASSUME NEW f \in Tree, WellFormed(f), NEW g \in Tree, WellFormed(g),
           NEW src \in Path, NEW to \in Path, to # Root,
           IsDir(f, Parent(to)), ~Exists(f, to)
    PROVE  /\ Graft(f, g, src, to) \in Tree
           /\ WellFormed(Graft(f, g, src, to))
           /\ \A q \in Path : IsDir(f, q) => IsDir(Graft(f, g, src, to), q)
  <1>1. ASSUME NEW q \in Path, IsDir(f, q)
        PROVE  ~Under(q, to)
    BY <1>1, AboveIsDir DEF IsDir, Exists
  <1>2. /\ Graft(f, g, src, to) \in Tree
        /\ WellFormed(Graft(f, g, src, to))
        /\ \A q \in Path : ~Under(q, to) => Graft(f, g, src, to)[q] = f[q]
    BY GraftFacts
  <1>3. ASSUME NEW q \in Path, IsDir(f, q)
        PROVE  IsDir(Graft(f, g, src, to), q)
    <2>1. Graft(f, g, src, to)[q] = f[q]
      BY <1>1, <1>2, <1>3
    <2>. QED
      BY <1>3, <2>1 DEF IsDir
  <1>. QED
    BY <1>2, <1>3

\* A subtree that finds its place has a place for its top.
LEMMA FitsFacts ==
    ASSUME NEW f \in Tree, NEW src \in Path, Exists(f, src),
           NEW to \in Seq(Name), Fits(f, src, to)
    PROVE  to \in Path
  BY PathFacts, RebaseSelf DEF Fits, Subtree

LEMMA DestinationIsSeq ==
    ASSUME NEW f \in Tree, NEW src \in Path, NEW dst \in Path
    PROVE  Destination(f, src, dst) \in Seq(Name)
  <1>1. dst \in Seq(Name) /\ src \in Seq(Name)
    BY PathFacts
  <1>2. ASSUME src # Root
        PROVE  Append(dst, BaseName(src)) \in Seq(Name)
    <2>1. Len(src) \in Nat \ {0}
      BY <1>2, ParentFacts
    <2>2. BaseName(src) \in Name
      BY <1>1, <2>1, ElementOfSeq DEF BaseName
    <2>. QED
      BY <1>1, <2>2
  <1>. QED
    BY <1>1, <1>2 DEF Destination

LEMMA MoveInv ==
    ASSUME Inv, NEW src \in Path, NEW dst \in Path, Move(src, dst)
    PROVE  Inv'
  <1>. DEFINE to == Destination(fs, src, dst)
              without == Detach(fs, {src})
              f == Graft(without, fs, src, to)
  <1>1. CASE Raise
    BY <1>1, RaiseStep
  <1>2. CASE ~MoveRefused(src, dst)
    <2>1. /\ src # Root /\ Exists(fs, src)
          /\ IsDir(fs, DestinationDir(fs, dst))
          /\ IsDir(fs, src) => ~Under(DestinationDir(fs, dst), src)
      BY <1>2 DEF MoveRefused
    <2>2. /\ fs \in Tree /\ WellFormed(fs) /\ cwd \in Location
          /\ cwd.at \in Path /\ cwd.gone \in Seq(Name) /\ IsDir(fs, cwd.at)
      BY DEF Inv, TypeOK, TreeIsWellFormed, Location
    <2>3. /\ without \in Tree /\ WellFormed(without)
          /\ \A q \in Path : ~Under(q, src) => without[q] = fs[q]
      BY <2>1, <2>2, DetachFacts
    <2>4. to \in Seq(Name)
      BY <2>2, DestinationIsSeq
    <2>. HIDE DEF without, to
    <2>5. CASE Return("ok") /\ TreeOnly(fs)
      BY <2>2, <2>5, TreeOnlyStep DEF Return
    <2>6. CASE /\ Return("error") /\ fs' = without /\ DetachCwd({src})
               /\ UNCHANGED <<index, indexOn, mounted, store, mirror, snap>>
      <3>1. cwd' \in Location /\ IsDir(without, cwd'.at)
        BY <2>1, <2>3, <2>6, CwdFacts DEF DetachCwd, IsDir, StrictlyUnder
      <3>. QED
        BY <2>3, <2>6, <3>1, TreeStep DEF Return, Inv, TypeOK
    <2>7. CASE /\ ~Exists(fs, to)
               /\ Fits(fs, src, to)
               /\ fs' = f
               /\ cwd' = IF Under(cwd.at, src)
                         THEN [cwd EXCEPT !.at = Rebase(cwd.at, src, to)]
                         ELSE cwd
               /\ IF IsFile(fs, src)
                  THEN index' = IF indexOn
                                THEN [index EXCEPT ![src] = << >>, ![to] = f[to].content]
                                ELSE index
                  ELSE RebuildIndex(f)
               /\ res' \in {"ok", "error"}
               /\ UNCHANGED <<indexOn, mounted, store, mirror, snap>>
      <3>1. to \in Path
        BY <2>1, <2>2, <2>4, <2>7, FitsFacts
      <3>2. to # Root /\ Parent(to) = DestinationDir(fs, dst) /\ Parent(to) \in Path
        BY <2>1, <2>2, <3>1, DestinationFacts, ParentFacts DEF to
      <3>3. ~Under(Parent(to), src)
        BY <2>1, <2>2, <3>2, AboveIsDir DEF IsDir, Exists
      <3>4. IsDir(without, Parent(to)) /\ ~Exists(without, to)
        <4>1. IsDir(without, Parent(to))
          BY <2>1, <2>3, <3>2, <3>3 DEF IsDir
        <4>2. without[to] = fs[to] \/ without[to] = Absent
          BY <3>1 DEF without, Detach
        <4>. QED
          BY <2>7, <3>1, <4>1, <4>2, NodeFacts DEF Exists
      <3>5. /\ f \in Tree /\ WellFormed(f)
            /\ \A q \in Path : IsDir(without, q) => IsDir(f, q)
        BY <2>2, <2>3, <3>1, <3>2, <3>4, GraftedStep
      <3>6. cwd' \in Location /\ IsDir(f, cwd'.at)
        <4>1. CASE Under(cwd.at, src)
          <5>. DEFINE at == Rebase(cwd.at, src, to)
          <5>1. Under(at, to) /\ Rebase(at, to, src) = cwd.at
            BY <2>2, <3>1, <4>1, RebaseInverse
          <5>2. at \in Path
            BY <2>2, <2>7, <4>1 DEF Fits, Subtree, IsDir, Exists
          <5>. HIDE DEF at
          <5>3. f[at] = fs[cwd.at]
            <6>1. \A q \in Path : Under(q, to) /\ Rebase(q, to, src) \in Path =>
                      f[q] = fs[Rebase(q, to, src)]
              BY <2>2, <2>3, <3>1, <3>2, <3>4, GraftFacts
            <6>. HIDE DEF f
            <6>. QED
              BY <2>2, <5>1, <5>2, <6>1
          <5>4. cwd' = [cwd EXCEPT !.at = at]
            BY <2>7, <4>1 DEF at
          <5>. HIDE DEF f
          <5>. QED
            BY <2>2, <5>2, <5>3, <5>4 DEF Location, IsDir
        <4>2. CASE ~Under(cwd.at, src)
          <5>1. IsDir(without, cwd.at)
            BY <2>2, <2>3, <4>2 DEF IsDir
          <5>. QED
            BY <2>2, <2>7, <3>5, <4>2, <5>1
        <4>. QED
          BY <4>1, <4>2
      <3>7. index' \in [Path -> Seq(Data)]
        <4>1. f[to].content \in Seq(Data) /\ << >> \in Seq(Data)
          BY <3>1, <3>5 DEF Tree, Node
        <4>2. index \in [Path -> Seq(Data)] /\ Texts(f) \in [Path -> Seq(Data)]
          BY <3>5, TextsFacts DEF Inv, TypeOK
        <4>. HIDE DEF f
        <4>. QED
          BY <2>7, <4>1, <4>2 DEF RebuildIndex
      <3>. HIDE DEF f
      <3>. QED
        BY <2>7, <3>5, <3>6, <3>7, TreeStep DEF Inv, TypeOK
    <2>. QED
      BY <1>2, <2>5, <2>6, <2>7 DEF Move, Return, without, to
  <1>. QED
    BY <1>1, <1>2 DEF Move

LEMMA CopyInv ==
    ASSUME Inv, NEW src \in Path, NEW dst \in Path, NEW recursive \in BOOLEAN,
           Copy(src, dst, recursive)
    PROVE  Inv'
  <1>. DEFINE to == Destination(fs, src, dst)
              cleared == IF IsFile(fs, dst) THEN Detach(fs, {dst}) ELSE fs
              f == Graft(cleared, Clone(fs), src, to)
  <1>1. CASE Raise
    BY <1>1, RaiseStep
  <1>2. CASE ~CopyRefused(src, dst, recursive)
    <2>1. Exists(fs, src) /\ IsDir(fs, DestinationDir(fs, dst))
      BY <1>2 DEF CopyRefused
    <2>2. fs \in Tree /\ WellFormed(fs) /\ cwd.at \in Path /\ IsDir(fs, cwd.at)
      BY DEF Inv, TypeOK, TreeIsWellFormed, Location
    <2>3. /\ cleared \in Tree /\ WellFormed(cleared)
          /\ \A q \in Path : IsDir(fs, q) => IsDir(cleared, q)
      <3>1. CASE IsFile(fs, dst)
        <4>1. dst # Root
          BY <2>2, <3>1 DEF WellFormed, IsDir, IsFile
        <4>2. ASSUME NEW q \in Path, IsDir(fs, q)
              PROVE  ~Under(q, dst)
          BY <2>2, <3>1, <4>2, AboveIsDir DEF IsDir, IsFile, Exists
        <4>. QED
          BY <2>2, <3>1, <4>1, <4>2, DetachFacts DEF IsDir
      <3>2. CASE ~IsFile(fs, dst)
        BY <2>2, <3>2
      <3>. QED
        BY <3>1, <3>2
    <2>. HIDE DEF cleared, to
    <2>4. CASE Return("error") /\ TreeOnly(cleared)
      BY <2>3, <2>4, TreeOnlyStep DEF Return
    <2>5. CASE /\ ~(IsDir(fs, src) /\ Under(to, src)) /\ ~Exists(cleared, to)
               /\ Fits(fs, src, to)
               /\ fs' = f
               /\ IF IsFile(fs, src) THEN index' = Indexed(to, f[to].content)
                                     ELSE RebuildIndex(f)
               /\ res' \in {"ok", "error"}
               /\ UNCHANGED <<cwd, indexOn, mounted, store, mirror, snap>>
      <3>1. to \in Path
        BY <2>1, <2>2, <2>5, FitsFacts, DestinationIsSeq DEF to
      <3>2. src # Root
        BY <2>2, <2>5, <3>1, PathFacts DEF WellFormed
      <3>3. to # Root /\ Parent(to) = DestinationDir(fs, dst) /\ Parent(to) \in Path
        BY <2>1, <2>2, <3>1, <3>2, DestinationFacts, ParentFacts DEF to
      <3>4. Clone(fs) \in Tree /\ WellFormed(Clone(fs))
        BY <2>2, CloneFacts
      <3>5. /\ f \in Tree /\ WellFormed(f)
            /\ \A q \in Path : IsDir(cleared, q) => IsDir(f, q)
        BY <2>1, <2>3, <2>5, <3>1, <3>3, <3>4, GraftedStep
      <3>6. index' \in [Path -> Seq(Data)]
        <4>1. f[to].content \in Seq(Data) /\ Texts(f) \in [Path -> Seq(Data)]
          BY <3>1, <3>5, TextsFacts DEF Tree, Node
        <4>2. Indexed(to, f[to].content) \in [Path -> Seq(Data)]
          BY <3>1, <4>1, IndexedFacts
        <4>. HIDE DEF f
        <4>. QED
          BY <2>5, <4>1, <4>2 DEF RebuildIndex, Inv, TypeOK
      <3>7. cwd' \in Location /\ IsDir(f, cwd'.at)
        BY <2>2, <2>3, <2>5, <3>5 DEF Inv, TypeOK
      <3>. HIDE DEF f
      <3>. QED
        BY <2>5, <3>5, <3>6, <3>7, TreeStep DEF Inv, TypeOK
    <2>. QED
      BY <1>1, <1>2, <2>4, <2>5 DEF Copy, Return, cleared, to
  <1>. QED
    BY <1>1, <1>2 DEF Copy

LEMMA CdInv ==
    ASSUME Inv, NEW p \in Path, Cd(p)
    PROVE  Inv'
  <1>1. CASE Raise
    BY <1>1, RaiseStep
  <1>2. CASE /\ IsDir(fs, p)
             /\ cwd' = [at |-> p, gone |-> << >>]
             /\ Return("ok")
             /\ UNCHANGED <<fs, index, indexOn, mounted, store, mirror, snap>>
    <2>1. cwd' \in Location /\ IsDir(fs, cwd'.at)
      BY <1>2, EmptySeq DEF Location
    <2>. QED
      BY <1>2, <2>1, TreeStep DEF Return, Inv, TypeOK, TreeIsWellFormed
  <1>. QED
    BY <1>1, <1>2 DEF Cd

LEMMA SetPolicyInv ==
    ASSUME Inv, NEW p \in Path, NEW policy \in Policy, SetPolicy(p, policy)
    PROVE  Inv'
  <1>1. CASE Raise
    BY <1>1, RaiseStep
  <1>2. CASE Return("ok") /\ TreeOnly(WithPolicy(fs, p, policy))
    <2>. DEFINE f == WithPolicy(fs, p, policy)
    <2>1. f \in Tree /\ WellFormed(f) /\ \A q \in Path : f[q].kind = fs[q].kind
      BY WithPolicyFacts DEF Inv, TypeOK, TreeIsWellFormed
    <2>. HIDE DEF f
    <2>2. \A q \in Path : IsDir(fs, q) => IsDir(f, q)
      BY <2>1 DEF IsDir
    <2>. QED
      BY <1>2, <2>1, <2>2, TreeOnlyStep DEF Return, f
  <1>. QED
    BY <1>1, <1>2 DEF SetPolicy

LEMMA EnableIndexInv ==
    ASSUME Inv, EnableIndex
    PROVE  Inv'
  <1>1. index' \in [Path -> Seq(Data)]
    BY TextsFacts DEF EnableIndex, Inv, TypeOK
  <1>. QED
    BY <1>1, TreeStep DEF EnableIndex, Return, Inv, TypeOK, TreeIsWellFormed

\* A load into a tree that is fs with, perhaps, the directory m made.
LEMMA LoadMountInv ==
    ASSUME Inv, NEW f \in Tree, WellFormed(f), NEW m \in MountPoints, IsDir(f, m),
           \A q \in Path : IsDir(fs, q) => IsDir(f, q),
           LoadMount(f, m), mounted' \subseteq MountPoints
    PROVE  Inv'
  <1>. DEFINE tops == Children(fs, m)
  <1>1. m \in Path /\ store[m] \in Store
    BY ConstantAssumption DEF Inv, TypeOK
  <1>2. PICK E \in LoadOutcomes(m, Entries(store[m])) :
          /\ fs' = Load(f, m, E, store[m])
          /\ DetachCwd(tops)
          /\ index' = index \/ RebuildIndex(Load(f, m, E, store[m]))
          /\ res' \in {"ok", "error"}
          /\ UNCHANGED <<indexOn, store, mirror, snap>>
    BY DEF LoadMount, Return
  <1>. DEFINE g == Load(f, m, E, store[m])
  <1>3. /\ g \in Tree /\ WellFormed(g)
        /\ \A q \in Path : ~StrictlyUnder(q, m) => g[q] = f[q]
    BY <1>1, LoadFacts
  <1>4. fs \in Tree /\ WellFormed(fs)
    BY DEF Inv, TypeOK, TreeIsWellFormed
  <1>. HIDE DEF g
  <1>5. /\ tops \in SUBSET Path /\ Root \notin tops
        /\ \A t \in tops : Parent(t) = m
    BY DEF Children
  <1>6. \A t, u \in tops : ~StrictlyUnder(t, u)
    <2>1. SUFFICES ASSUME NEW t \in tops, NEW u \in tops, StrictlyUnder(t, u)
                   PROVE  FALSE
      OBVIOUS
    <2>2. Under(m, u) /\ StrictlyUnder(u, m)
      BY <1>5, <2>1, UnderParent, ParentFacts
    <2>. QED
      BY <1>1, <1>5, <2>2, UnderAntisymmetric DEF StrictlyUnder
  <1>7. ASSUME NEW q \in Path, IsDir(fs, q), \A t \in tops : ~Under(q, t)
        PROVE  IsDir(g, q)
    <2>1. ~StrictlyUnder(q, m)
      <3>1. SUFFICES ASSUME StrictlyUnder(q, m)
                     PROVE  FALSE
        OBVIOUS
      <3>2. PICK c \in Path : c # Root /\ Parent(c) = m /\ Under(q, c)
        BY <1>1, <3>1, ChildTowards
      <3>3. IsDir(fs, c)
        BY <1>4, <1>7, <3>2, AboveIsDir DEF IsDir, Exists
      <3>. QED
        BY <1>7, <3>2, <3>3 DEF Children, IsDir, Exists
    <2>. QED
      BY <1>3, <1>7, <2>1 DEF IsDir
  <1>8. cwd' \in Location /\ IsDir(g, cwd'.at)
    <2>1. CwdWithout(tops) \in Location /\ IsDir(g, CwdWithout(tops).at)
      BY <1>3, <1>5, <1>6, <1>7, CwdFacts
    <2>. QED
      BY <1>2, <2>1 DEF DetachCwd
  <1>9. index' \in [Path -> Seq(Data)]
    BY <1>2, <1>3, TextsFacts DEF RebuildIndex, Inv, TypeOK, g
  <1>. QED
    BY <1>2, <1>3, <1>8, <1>9, TreeStep DEF Inv, TypeOK, g

LEMMA MountStorageInv ==
    ASSUME Inv, NEW m \in MountPoints, NEW granted \in BOOLEAN, MountStorage(m, granted)
    PROVE  Inv'
  <1>. DEFINE made == MakeDirs(fs, m)
  <1>1. CASE Raise
    BY <1>1, RaiseStep
  <1>2. CASE ~Raise
    <2>1. m \in Path /\ fs \in Tree /\ WellFormed(fs)
      BY ConstantAssumption DEF Inv, TypeOK, TreeIsWellFormed
    <2>2. /\ MkdirAllowed(m, TRUE, TRUE)
          /\ mounted' = mounted \cup {m}
          /\ \/ LoadMount(made, m)
             \/ \E grant \in Grants :
                   grant[1] = m /\ LoadMount(WithPolicy(made, m, grant[2]), m)
      BY <1>2 DEF MountStorage
    <2>3. /\ made \in Tree /\ WellFormed(made) /\ IsDir(made, m)
          /\ \A q \in Path : IsDir(fs, q) => IsDir(made, q)
      <3>1. CanMakeDirs(fs, m)
        BY <2>1, <2>2, MkdirMeetsNoFile
      <3>. QED
        BY <2>1, <3>1, MakeDirsFacts
    <2>. HIDE DEF made
    <2>4. mounted' \subseteq MountPoints
      BY <2>2 DEF Inv, TypeOK
    <2>5. CASE LoadMount(made, m)
      BY <2>3, <2>4, <2>5, LoadMountInv
    <2>6. ASSUME NEW grant \in Grants, LoadMount(WithPolicy(made, m, grant[2]), m)
          PROVE  Inv'
      <3>. DEFINE f == WithPolicy(made, m, grant[2])
      <3>1. grant[2] \in Policy
        BY ConstantAssumption
      <3>2. f \in Tree /\ WellFormed(f) /\ \A q \in Path : f[q].kind = made[q].kind
        BY <2>1, <2>3, <3>1, WithPolicyFacts
      <3>. HIDE DEF f
      <3>3. IsDir(f, m) /\ \A q \in Path : IsDir(fs, q) => IsDir(f, q)
        BY <2>3, <3>2 DEF IsDir
      <3>. QED
        BY <2>4, <2>6, <3>2, <3>3, LoadMountInv DEF f
    <2>. QED
      BY <2>2, <2>5, <2>6
  <1>. QED
    BY <1>1, <1>2

LEMMA SyncStorageInv ==
    ASSUME Inv, NEW m \in MountPoints, SyncStorage(m)
    PROVE  Inv'
  <1>1. CASE Raise
    BY <1>1, RaiseStep
  <1>2. CASE IsDir(fs, m) /\ LoadMount(fs, m) /\ UNCHANGED mounted
    BY <1>2, LoadMountInv DEF Inv, TypeOK, TreeIsWellFormed
  <1>. QED
    BY <1>1, <1>2 DEF SyncStorage

\* The adapters' other clients change the adapters alone.
LEMMA ExternalInv ==
    ASSUME Inv, NEW m \in MountPoints, NEW st \in Store,
           store' = [store EXCEPT ![m] = st],
           UNCHANGED <<fs, cwd, index, indexOn, mounted, mirror, snap, res>>
    PROVE  Inv'
  BY TreeStep DEF Inv, TypeOK, TreeIsWellFormed

LEMMA SnapshotInv ==
    ASSUME Inv, Snapshot
    PROVE  Inv'
  <1>1. Pwd(cwd) \in Seq(Name)
    BY PathFacts, ConcatProperties DEF Inv, TypeOK, Location, Pwd
  <1>. QED
    BY <1>1 DEF Inv, TypeOK, TreeIsWellFormed, Snapshot, Return

LEMMA RestoreInv ==
    ASSUME Inv, Restore
    PROVE  Inv'
  <1>1. snap.fs \in Tree /\ WellFormed(snap.fs) /\ mounted' \subseteq MountPoints
    BY DEF Inv, TypeOK, TreeIsWellFormed, Restore
  <1>2. PICK T \in RestoreOutcomes(snap.fs) :
          LET f == RestoreTree(snap.fs, T)
          IN  /\ fs' = f
              /\ \/ cwd' = [at |-> Root, gone |-> << >>]
                 \/ IsDir(f, snap.pwd) /\ cwd' = [at |-> snap.pwd, gone |-> << >>]
              /\ index' = index \/ RebuildIndex(f)
              /\ res' \in {"ok", "error"}
    BY DEF Restore, Return
  <1>. DEFINE f == RestoreTree(snap.fs, T)
  <1>3. f \in Tree /\ WellFormed(f)
    BY <1>1, RestoreFacts
  <1>. HIDE DEF f
  <1>4. cwd' \in Location /\ IsDir(f, cwd'.at)
    <2>1. CASE cwd' = [at |-> Root, gone |-> << >>]
      BY <1>3, <2>1, RootFacts, EmptySeq DEF Location, WellFormed
    <2>2. CASE IsDir(f, snap.pwd) /\ cwd' = [at |-> snap.pwd, gone |-> << >>]
      BY <2>2, EmptySeq DEF Location, IsDir
    <2>. QED
      BY <1>2, <2>1, <2>2 DEF f
  <1>5. index' \in [Path -> Seq(Data)]
    BY <1>2, <1>3, TextsFacts DEF RebuildIndex, Inv, TypeOK, f
  <1>. QED
    BY <1>1, <1>2, <1>3, <1>4, <1>5, TreeStep DEF Inv, TypeOK, Restore, f

-----------------------------------------------------------------------------
LEMMA NextInv ==
    Inv /\ [Next]_vars => Inv'
  <1>. SUFFICES ASSUME Inv, [Next]_vars
                PROVE  Inv'
    OBVIOUS
  <1>1. CASE UNCHANGED vars
    BY <1>1 DEF Inv, TypeOK, TreeIsWellFormed, vars
  <1>2. ASSUME NEW p \in Path, NEW parents \in BOOLEAN, NEW exist_ok \in BOOLEAN,
               Mkdir(p, parents, exist_ok)
        PROVE  Inv'
    BY <1>2, MkdirInv
  <1>3. ASSUME NEW p \in Path, NEW d \in Text, NEW append \in BOOLEAN,
               NEW expected \in Expected, WriteFile(p, d, append, expected)
        PROVE  Inv'
    BY <1>3, TextIsSeq, WriteFileInv
  <1>4. ASSUME NEW p \in Path, Touch(p)
        PROVE  Inv'
    BY <1>4, TouchInv
  <1>5. ASSUME NEW p \in Path, NEW recursive \in BOOLEAN, Remove(p, recursive)
        PROVE  Inv'
    BY <1>5, RemoveInv
  <1>6. ASSUME NEW src \in Path, NEW dst \in Path, Move(src, dst)
        PROVE  Inv'
    BY <1>6, MoveInv
  <1>7. ASSUME NEW src \in Path, NEW dst \in Path, NEW recursive \in BOOLEAN,
               Copy(src, dst, recursive)
        PROVE  Inv'
    BY <1>7, CopyInv
  <1>8. ASSUME NEW p \in Homes, Cd(p)
        PROVE  Inv'
    BY <1>8, CdInv, ConstantAssumption
  <1>9. ASSUME NEW grant \in Grants, SetPolicy(grant[1], grant[2])
        PROVE  Inv'
    <2>1. grant[1] \in Path /\ grant[2] \in Policy
      BY ConstantAssumption
    <2>. QED
      BY <1>9, <2>1, SetPolicyInv
  <1>10. CASE EnableIndex
    BY <1>10, EnableIndexInv
  <1>11. ASSUME NEW m \in MountPoints, NEW granted \in BOOLEAN, MountStorage(m, granted)
         PROVE  Inv'
    BY <1>11, MountStorageInv
  <1>12. ASSUME NEW m \in MountPoints, SyncStorage(m)
         PROVE  Inv'
    BY <1>12, SyncStorageInv
  <1>13. ASSUME NEW m \in MountPoints, NEW p \in Path, NEW d \in Text,
                ExternalWrite(m, p, d)
         PROVE  Inv'
    <2>1. d \in Seq(Data)
      BY TextIsSeq
    <2>2. store[m] \in Store /\ store[m][p].version \in Nat
      BY DEF Inv, TypeOK, Store, Entry
    <2>3. AdapterWrite(store[m], p, d, store[m][p].version) \in Store
      BY <2>1, <2>2, StoreFacts
    <2>. QED
      BY <1>13, <2>3, ExternalInv DEF ExternalWrite
  <1>14. ASSUME NEW m \in MountPoints, NEW p \in Path, ExternalDelete(m, p)
         PROVE  Inv'
    <2>1. AdapterDelete(store[m], {p}) \in Store
      BY DeleteFacts DEF Inv, TypeOK
    <2>. QED
      BY <1>14, <2>1, ExternalInv DEF ExternalDelete
  <1>15. CASE Snapshot
    BY <1>15, SnapshotInv
  <1>16. CASE Restore
    BY <1>16, RestoreInv
  <1>. QED
    BY <1>1, <1>2, <1>3, <1>4, <1>5, <1>6, <1>7, <1>8, <1>9, <1>10, <1>11, <1>12,
       <1>13, <1>14, <1>15, <1>16 DEF Next

LEMMA InvAlways ==
    Spec => []Inv
  BY InitInv, NextInv, PTL DEF Spec

\* Every variable has its type in every reachable state, whatever the handlers
\* meet on the way: in particular no version, path or text leaves its range.
THEOREM TypeCorrect ==
    Spec => []TypeOK
  BY InvAlways, PTL DEF Inv

\* In every reachable state, also after handlers that raised half way, every
\* node hangs from directories up to the root, in the tree and in the snapshot,
\* and the working directory is a directory of the tree or was below one.
THEOREM TreeStaysWellFormed ==
    Spec => []TreeIsWellFormed
  BY InvAlways, PTL DEF Inv

-----------------------------------------------------------------------------
(* Storage mounts. *)

\* The mount that answers for a path lies over it.
LEMMA MountOfFacts ==
    ASSUME Inv, NEW p \in Path, MountsOver(p) # {}
    PROVE  MountOf(p) \in mounted /\ Under(p, MountOf(p))
  <1>. DEFINE gaps == {Len(p) - Len(m) : m \in MountsOver(p)}
  <1>1. ASSUME NEW m \in MountsOver(p)
        PROVE  m \in mounted /\ m \in Path /\ Len(m) \in Nat /\ Len(m) <= Len(p)
    BY ConstantAssumption, PathFacts DEF MountsOver, Inv, TypeOK, Under
  <1>2. Len(p) \in Nat
    BY PathFacts
  <1>3. gaps \in SUBSET Nat /\ gaps # {}
    BY <1>1, <1>2
  <1>4. PICK x \in gaps : \A y \in gaps : x <= y
    BY <1>3, LeastElement
  <1>5. PICK m \in MountsOver(p) : x = Len(p) - Len(m)
    BY <1>4
  <1>6. \A n \in MountsOver(p) : Len(n) <= Len(m)
    <2>1. ASSUME NEW n \in MountsOver(p)
          PROVE  Len(n) <= Len(m)
      <3>1. x <= Len(p) - Len(n)
        BY <1>4
      <3>. QED
        BY <1>1, <1>2, <1>5, <3>1
    <2>. QED
      BY <2>1
  <1>7. MountOf(p) \in MountsOver(p)
    BY <1>5, <1>6 DEF MountOf
  <1>. QED
    BY <1>7 DEF MountsOver

\* A write that returns has found or made the file, and its one new text and
\* version go to the tree, the adapter, the index and the mirror together.
LEMMA WriteOutcomes ==
    ASSUME Inv, NEW p \in Path, NEW d \in Seq(Data), NEW append \in BOOLEAN,
           NEW expected, WriteFile(p, d, append, expected), res' # "error"
    PROVE  LET f == EnsureFile(fs, p)
               node == Written(f[p], d, append)
           IN  CanEnsureFile(fs, p) /\ PersistAndPublish(f, p, node)
  BY DEF WriteFile, Raise, Return

LEMMA WrittenFacts ==
    ASSUME NEW node \in Node, node.kind = "file", NEW d \in Seq(Data),
           NEW append \in BOOLEAN
    PROVE  /\ Written(node, d, append) \in Node
           /\ Written(node, d, append).kind = "file"
           /\ Written(node, d, append).policy = node.policy
           /\ Written(node, d, append).version = node.version + 1
           /\ Written(node, d, append).content =
                IF append THEN node.content \o d ELSE d
  <1>. DEFINE content == IF append THEN node.content \o d ELSE d
  <1>1. Written(node, d, append) =
          [node EXCEPT !.content = content, !.version = node.version + 1]
    BY DEF Written
  <1>2. content \in Seq(Data)
    BY ConcatProperties DEF Node
  <1>3. node.version + 1 \in Nat
    BY DEF Node
  <1>. HIDE DEF content
  <1>4. /\ Written(node, d, append) \in Node
        /\ Written(node, d, append).kind = "file"
        /\ Written(node, d, append).policy = node.policy
        /\ Written(node, d, append).version = node.version + 1
        /\ Written(node, d, append).content = content
    BY <1>1, <1>2, <1>3 DEF Node
  <1>. QED
    BY <1>4 DEF content

\* The file at p has been written, and nothing else: its text and version in
\* the tree, the adapter, the index and the mirror.
WrittenEverywhere(p) ==
    /\ IsFile(fs', p)
    /\ \A q \in Path \ {p} : IsFile(fs, q) => fs'[q] = fs[q]
    /\ \A q \in Path \ {p} : IsFile(fs', q) => IsFile(fs, q)
    /\ fs'[p].version \in Nat /\ fs'[p].content \in Seq(Data)
    /\ index' = Indexed(p, fs'[p].content)
    /\ mirror' = MirrorWith({p}, [present |-> TRUE, content |-> fs'[p].content])
    /\ UNCHANGED <<indexOn, mounted>>
    /\ MountsOver(p) = {} => store' = store
    /\ MountsOver(p) # {} =>
         \E v \in Nat :
            /\ fs'[p].version = v + 1
            /\ store' = [store EXCEPT ![MountOf(p)] =
                  AdapterWrite(store[MountOf(p)], p, fs'[p].content, v)]

\* That is what a write does that returns.
LEMMA WriteSucceeds ==
    ASSUME Inv, NEW p \in Path, NEW d \in Seq(Data), NEW append \in BOOLEAN,
           NEW expected, WriteFile(p, d, append, expected), res' = "ok"
    PROVE  WrittenEverywhere(p)
  <1>. DEFINE f == EnsureFile(fs, p)
              node == Written(f[p], d, append)
  <1>1. CanEnsureFile(fs, p) /\ PersistAndPublish(f, p, node)
    BY WriteOutcomes
  <1>2. fs \in Tree /\ WellFormed(fs)
    BY DEF Inv, TypeOK, TreeIsWellFormed
  <1>3. /\ f \in Tree /\ IsFile(f, p)
        /\ \A q \in Path : IsFile(fs, q) => f[q] = fs[q]
        /\ \A q \in Path \ {p} : IsFile(f, q) => IsFile(fs, q)
    BY <1>1, <1>2, EnsureFileFacts, EnsureFileFiles
  <1>. HIDE DEF f
  <1>4. f[p] \in Node /\ f[p].kind = "file" /\ f[p].version \in Nat
    BY <1>3 DEF Tree, IsFile, Node
  <1>5. node \in Node /\ node.kind = "file" /\ node.version = f[p].version + 1
    BY <1>4, WrittenFacts
  <1>. HIDE DEF node
  <1>6. /\ fs' = [f EXCEPT ![p] = node]
        /\ store' = IF MountsOver(p) = {} THEN store
                    ELSE [store EXCEPT ![MountOf(p)] =
                            AdapterWrite(store[MountOf(p)], p, node.content, f[p].version)]
        /\ index' = Indexed(p, node.content)
        /\ mirror' = MirrorWith({p}, [present |-> TRUE, content |-> node.content])
        /\ UNCHANGED <<cwd, indexOn, mounted, snap>>
    BY <1>1 DEF PersistAndPublish, AfterConflict, Return
  <1>7. fs'[p] = node /\ \A q \in Path \ {p} : fs'[q] = f[q]
    BY <1>3, <1>6 DEF Tree
  <1>8. node.version \in Nat /\ node.content \in Seq(Data)
    BY <1>5 DEF Node
  <1>9. /\ IsFile(fs', p)
        /\ \A q \in Path \ {p} : IsFile(fs, q) => fs'[q] = fs[q]
        /\ \A q \in Path \ {p} : IsFile(fs', q) => IsFile(fs, q)
    BY <1>3, <1>5, <1>7 DEF IsFile
  <1>10. MountsOver(p) # {} =>
           \E v \in Nat :
              /\ fs'[p].version = v + 1
              /\ store' = [store EXCEPT ![MountOf(p)] =
                    AdapterWrite(store[MountOf(p)], p, fs'[p].content, v)]
    BY <1>4, <1>5, <1>6, <1>7
  <1>. QED
    BY <1>6, <1>7, <1>8, <1>9, <1>10 DEF WrittenEverywhere

\* What a removal that was not refused takes out, it takes out everywhere.
LEMMA RemoveOutcomes ==
    ASSUME Inv, NEW p \in Path, NEW recursive \in BOOLEAN, Remove(p, recursive)
    PROVE  \/ UNCHANGED <<fs, index, indexOn, mounted, store, mirror>>
           \/ \E tops \in SUBSET Path :
                 TakeOut(tops) /\ tops \in RemovalOutcomes(fs, p) /\ p # Root
  <1>1. CASE Raise
    BY <1>1 DEF Raise
  <1>2. ASSUME p # Root, NEW tops \in RemovalOutcomes(fs, p), TakeOut(tops)
        PROVE  \E t \in SUBSET Path :
                 TakeOut(t) /\ t \in RemovalOutcomes(fs, p) /\ p # Root
    BY <1>2, RemovalFacts DEF Inv, TypeOK
  <1>. QED
    BY <1>1, <1>2 DEF Remove

\* The files that stay and those that go.
LEMMA TakeOutFacts ==
    ASSUME Inv, NEW tops \in SUBSET Path, TakeOut(tops)
    PROVE  LET gone == {q \in Files(fs) : \E t \in tops : Under(q, t)}
           IN  /\ \A q \in gone : q \in Path /\ ~IsFile(fs', q)
               /\ \A q \in Path \ gone : IsFile(fs, q) => fs'[q] = fs[q]
               /\ \A q \in Path : IsFile(fs', q) => IsFile(fs, q)
  <1>1. Absent.kind = "none"
    BY NodeFacts
  <1>2. \A q \in Path : fs'[q] = IF \E t \in tops : Under(q, t) THEN Absent ELSE fs[q]
    BY DEF TakeOut, Detach
  <1>. QED
    BY <1>1, <1>2 DEF Files, IsFile

LEMMA MountsStay ==
    ASSUME UNCHANGED mounted, NEW q
    PROVE  MountOf(q)' = MountOf(q) /\ MountsOver(q)' = MountsOver(q)
  BY DEF MountOf, MountsOver

LEMMA WriteKeepsStore ==
    ASSUME Inv, NEW p \in Path, WrittenEverywhere(p),
           NEW m \in mounted, StoreInStep(m)
    PROVE  StoreInStep(m)'
  <1>1. /\ IsFile(fs', p)
        /\ \A q \in Path \ {p} : IsFile(fs, q) => fs'[q] = fs[q]
        /\ \A q \in Path \ {p} : IsFile(fs', q) => IsFile(fs, q)
        /\ UNCHANGED mounted
        /\ MountsOver(p) = {} => store' = store
    BY DEF WrittenEverywhere
  <1>2. MountsOver(p) # {} =>
          \E v \in Nat :
             /\ fs'[p].version = v + 1
             /\ store' = [store EXCEPT ![MountOf(p)] =
                   AdapterWrite(store[MountOf(p)], p, fs'[p].content, v)]
    BY DEF WrittenEverywhere
  <1>3. m \in MountPoints /\ store \in [MountPoints -> Store] /\ store[m] \in Store
    BY DEF Inv, TypeOK
  <1>4. SUFFICES ASSUME NEW q \in Path, Under(q, m), MountOf(q) = m
                 PROVE  IF IsFile(fs', q)
                        THEN store'[m][q] = StoredEntry(fs'[q].content, fs'[q].version)
                        ELSE ~store'[m][q].present
    BY <1>1, MountsStay DEF StoreInStep
  <1>5. IF IsFile(fs, q)
        THEN store[m][q] = StoredEntry(fs[q].content, fs[q].version)
        ELSE ~store[m][q].present
    BY <1>4 DEF StoreInStep
  <1>6. CASE q = p
    <2>1. MountsOver(p) # {} /\ MountOf(p) = m
      BY <1>4, <1>6 DEF MountsOver
    <2>2. PICK v \in Nat :
            /\ fs'[p].version = v + 1
            /\ store' = [store EXCEPT ![m] = AdapterWrite(store[m], p, fs'[p].content, v)]
      BY <1>2, <2>1
    <2>3. store'[m] = AdapterWrite(store[m], p, fs'[p].content, v)
      BY <1>3, <2>2
    <2>4. store'[m][p] = StoredEntry(fs'[p].content, v + 1)
      BY <1>3, <2>3 DEF AdapterWrite, Store
    <2>. QED
      BY <1>1, <1>6, <2>2, <2>4
  <1>7. CASE q # p
    <2>1. store'[m][q] = store[m][q]
      <3>1. CASE MountsOver(p) = {}
        BY <1>1, <3>1
      <3>2. CASE MountsOver(p) # {}
        <4>1. PICK v \in Nat :
                store' = [store EXCEPT ![MountOf(p)] =
                            AdapterWrite(store[MountOf(p)], p, fs'[p].content, v)]
          BY <1>2, <3>2
        <4>2. CASE MountOf(p) = m
          <5>1. store'[m] = AdapterWrite(store[m], p, fs'[p].content, v)
            BY <1>3, <4>1, <4>2
          <5>. QED
            BY <1>3, <1>7, <5>1 DEF AdapterWrite, Store
        <4>3. CASE MountOf(p) # m
          BY <1>3, <4>1, <4>3
        <4>. QED
          BY <4>2, <4>3
      <3>. QED
        BY <3>1, <3>2
    <2>2. IsFile(fs', q) <=> IsFile(fs, q)
      BY <1>1, <1>7 DEF IsFile
    <2>. QED
      BY <1>1, <1>5, <1>7, <2>1, <2>2
  <1>. QED
    BY <1>6, <1>7

LEMMA RemoveKeepsStore ==
    ASSUME Inv, NEW p \in Path, NEW recursive \in BOOLEAN, Remove(p, recursive),
           NEW m \in mounted, StoreInStep(m)
    PROVE  StoreInStep(m)'
  <1>1. CASE UNCHANGED <<fs, index, indexOn, mounted, store, mirror>>
    BY <1>1, MountsStay DEF StoreInStep
  <1>2. ASSUME NEW tops \in SUBSET Path, TakeOut(tops)
        PROVE  StoreInStep(m)'
    <2>. DEFINE gone == {q \in Files(fs) : \E t \in tops : Under(q, t)}
    <2>1. /\ \A q \in gone : q \in Path /\ ~IsFile(fs', q)
          /\ \A q \in Path \ gone : IsFile(fs, q) => fs'[q] = fs[q]
          /\ \A q \in Path : IsFile(fs', q) => IsFile(fs, q)
      BY <1>2, TakeOutFacts
    <2>2. /\ UNCHANGED mounted
          /\ store' = [n \in MountPoints |->
               AdapterDelete(store[n], {q \in gone : MountsOver(q) # {} /\ MountOf(q) = n})]
      BY <1>2 DEF TakeOut
    <2>. HIDE DEF gone
    <2>3. SUFFICES ASSUME NEW q \in Path, Under(q, m), MountOf(q) = m
                   PROVE  IF IsFile(fs', q)
                          THEN store'[m][q] = StoredEntry(fs'[q].content, fs'[q].version)
                          ELSE ~store'[m][q].present
      BY <2>2, MountsStay DEF StoreInStep
    <2>4. IF IsFile(fs, q)
          THEN store[m][q] = StoredEntry(fs[q].content, fs[q].version)
          ELSE ~store[m][q].present
      BY <2>3 DEF StoreInStep
    <2>5. m \in MountPoints /\ MountsOver(q) # {}
      BY <2>3 DEF MountsOver, Inv, TypeOK
    <2>6. store'[m][q] = IF q \in gone THEN NoEntry ELSE store[m][q]
      BY <2>2, <2>3, <2>5 DEF AdapterDelete
    <2>7. CASE q \in gone
      BY <2>1, <2>6, <2>7 DEF NoEntry
    <2>8. CASE q \notin gone
      <3>1. IsFile(fs', q) <=> IsFile(fs, q)
        BY <2>1, <2>8 DEF IsFile
      <3>. QED
        BY <2>1, <2>4, <2>6, <2>8, <3>1
    <2>. QED
      BY <2>7, <2>8
  <1>. QED
    BY <1>1, <1>2, RemoveOutcomes

\* A write that succeeds and any remove leave a mount that is in step with its
\* adapter in step, for every nesting of mounts.
THEOREM StoreIsKept ==
    Spec => StoreFollowsWrites
  <1>1. ASSUME Inv, NEW m \in mounted, StoreInStep(m), WriteStep, Succeeds
        PROVE  StoreInStep(m)'
    <2>1. PICK p \in Path, d \in Text, append \in BOOLEAN :
            WriteFile(p, d, append, Unversioned)
      BY <1>1 DEF WriteStep
    <2>. QED
      BY <1>1, <2>1, TextIsSeq, WriteSucceeds, WriteKeepsStore DEF Succeeds
  <1>2. ASSUME Inv, NEW m \in mounted, StoreInStep(m), RemoveStep
        PROVE  StoreInStep(m)'
    <2>1. PICK p \in Path : Remove(p, TRUE)
      BY <1>2 DEF RemoveStep
    <2>. QED
      BY <1>2, <2>1, RemoveKeepsStore
  <1>3. Inv => \A m \in mounted : StoreInStep(m) /\ ~StoreInStep(m)' =>
                  ~(WriteStep /\ Succeeds) /\ ~RemoveStep
    BY <1>1, <1>2
  <1>. QED
    BY <1>3, InvAlways, PTL DEF StoreFollowsWrites

\* A sync that succeeds leaves the mount with what its adapter holds, whatever
\* was there before and in whatever mounts the mount lies.
THEOREM SyncBringsTheStore ==
    Spec => SyncConverges
  <1>1. ASSUME Inv, NEW m \in mounted, SyncStorage(m), Succeeds
        PROVE  StoreInStep(m)'
    <2>. DEFINE E == Entries(store[m])
                g == Load(fs, m, E, store[m])
    <2>1. /\ fs' = g /\ UNCHANGED <<store, mounted>>
          /\ E \in LoadOutcomes(m, E) /\ IsDir(fs, m)
      <3>1. ~Raise
        BY <1>1 DEF Raise, Return, Succeeds
      <3>2. IsDir(fs, m) /\ LoadMount(fs, m) /\ UNCHANGED mounted
        BY <1>1, <3>1 DEF SyncStorage
      <3>3. PICK D \in LoadOutcomes(m, E) :
              /\ fs' = Load(fs, m, D, store[m])
              /\ UNCHANGED store
              /\ D = E
        BY <1>1, <3>2 DEF LoadMount, Return, Succeeds
      <3>. QED
        BY <3>2, <3>3
    <2>2. m \in MountPoints /\ m \in Path /\ store[m] \in Store
      BY <1>1, ConstantAssumption DEF Inv, TypeOK
    <2>3. m \notin E
      BY <2>1 DEF LoadOutcomes, Loadable
    <2>4. SUFFICES ASSUME NEW q \in Path, Under(q, m)
                   PROVE  IF IsFile(fs', q)
                          THEN store'[m][q] = StoredEntry(fs'[q].content, fs'[q].version)
                          ELSE ~store'[m][q].present
      BY <2>1, MountsStay DEF StoreInStep
    <2>5. q \in E <=> store[m][q].present
      BY DEF Entries
    <2>6. CASE q = m
      <3>1. fs'[q] = fs[m]
        BY <2>1, <2>2, <2>6 DEF Load, StrictlyUnder
      <3>. QED
        BY <2>1, <2>3, <2>5, <2>6, <3>1 DEF IsDir, IsFile
    <2>7. CASE q # m /\ q \in E
      <3>1. fs'[q] = FileNode(store[m][q].content, store[m][q].version)
        BY <2>1, <2>4, <2>7 DEF Load, StrictlyUnder
      <3>2. store[m][q] = StoredEntry(store[m][q].content, store[m][q].version)
        BY <2>2, <2>5, <2>7 DEF StoredEntry, Store, Entry
      <3>. QED
        BY <2>1, <3>1, <3>2 DEF IsFile, FileNode
    <2>8. CASE q # m /\ q \notin E
      <3>1. fs'[q] = NewDir \/ fs'[q] = Absent
        BY <2>1, <2>4, <2>8 DEF Load, StrictlyUnder
      <3>. QED
        BY <2>1, <2>5, <2>8, <3>1, NodeFacts DEF IsFile
    <2>. QED
      BY <2>6, <2>7, <2>8
  <1>2. Inv => \A m \in mounted : Succeeds /\ ~StoreInStep(m)' => ~SyncStorage(m)
    BY <1>1
  <1>. QED
    BY <1>2, InvAlways, PTL DEF SyncConverges

\* A write meets a conflict only where some mount and its adapter differ.
LEMMA ConflictsNeedDivergence ==
    ASSUME Inv, res' = "conflict", WriteStep
    PROVE  \E m \in mounted : ~StoreInStep(m)
  <1>1. PICK p \in Path, d \in Text, append \in BOOLEAN :
          WriteFile(p, d, append, Unversioned)
    BY DEF WriteStep
  <1>. DEFINE f == EnsureFile(fs, p)
              node == Written(f[p], d, append)
              m == MountOf(p)
  <1>2. CanEnsureFile(fs, p) /\ PersistAndPublish(f, p, node)
    BY <1>1, TextIsSeq, WriteOutcomes
  <1>3. MountsOver(p) # {} /\ ~Accepts(store[m], p, f[p].version)
    BY <1>2 DEF PersistAndPublish, AfterConflict, Return
  <1>4. m \in mounted /\ Under(p, m)
    BY <1>3, MountOfFacts
  <1>5. fs \in Tree /\ WellFormed(fs)
    BY DEF Inv, TypeOK, TreeIsWellFormed
  <1>6. IsFile(fs, p) => f[p] = fs[p]
    BY <1>2, <1>5, EnsureFileFiles
  <1>. HIDE DEF f, m
  <1>7. SUFFICES ASSUME StoreInStep(m)
                 PROVE  FALSE
    BY <1>4
  <1>8. IF IsFile(fs, p)
        THEN store[m][p] = StoredEntry(fs[p].content, fs[p].version)
        ELSE ~store[m][p].present
    BY <1>4, <1>7 DEF StoreInStep, m
  <1>. QED
    BY <1>3, <1>6, <1>8 DEF Accepts, StoredEntry

-----------------------------------------------------------------------------
(* The mirror that a host keeps by the path events. *)

LEMMA WriteKeepsMirror ==
    ASSUME Inv, NEW p \in Path, WrittenEverywhere(p), MirrorInStep
    PROVE  MirrorInStep'
  <1>1. /\ IsFile(fs', p)
        /\ \A q \in Path \ {p} : IsFile(fs, q) => fs'[q] = fs[q]
        /\ \A q \in Path \ {p} : IsFile(fs', q) => IsFile(fs, q)
        /\ mirror' = MirrorWith({p}, [present |-> TRUE, content |-> fs'[p].content])
    BY DEF WrittenEverywhere
  <1>2. ASSUME NEW q \in Path, Hooked(q)
        PROVE  /\ mirror'[q].present <=> IsFile(fs', q)
               /\ mirror'[q].present => mirror'[q].content = fs'[q].content
    <2>1. CASE q = p
      <3>1. mirror'[q] = [present |-> TRUE, content |-> fs'[p].content]
        BY <1>1, <1>2, <2>1 DEF MirrorWith
      <3>. QED
        BY <1>1, <2>1, <3>1
    <2>2. CASE q # p
      <3>1. mirror'[q] = mirror[q]
        BY <1>1, <2>2 DEF MirrorWith
      <3>2. /\ mirror[q].present <=> IsFile(fs, q)
            /\ mirror[q].present => mirror[q].content = fs[q].content
        BY <1>2 DEF MirrorInStep
      <3>3. /\ IsFile(fs', q) <=> IsFile(fs, q)
            /\ IsFile(fs, q) => fs'[q] = fs[q]
        BY <1>1, <2>2 DEF IsFile
      <3>. QED
        BY <3>1, <3>2, <3>3
    <2>. QED
      BY <2>1, <2>2
  <1>. QED
    BY <1>2 DEF MirrorInStep, Hooked

LEMMA RemoveKeepsMirror ==
    ASSUME Inv, NEW p \in Path, NEW recursive \in BOOLEAN, Remove(p, recursive),
           MirrorInStep
    PROVE  MirrorInStep'
  <1>1. CASE UNCHANGED <<fs, index, indexOn, mounted, store, mirror>>
    BY <1>1 DEF MirrorInStep, Hooked
  <1>2. ASSUME NEW tops \in SUBSET Path, TakeOut(tops)
        PROVE  MirrorInStep'
    <2>. DEFINE gone == {q \in Files(fs) : \E t \in tops : Under(q, t)}
    <2>1. /\ \A q \in gone : q \in Path /\ ~IsFile(fs', q)
          /\ \A q \in Path \ gone : IsFile(fs, q) => fs'[q] = fs[q]
          /\ \A q \in Path : IsFile(fs', q) => IsFile(fs, q)
      BY <1>2, TakeOutFacts
    <2>2. mirror' = MirrorWith(gone, Unmirrored)
      BY <1>2 DEF TakeOut
    <2>. HIDE DEF gone
    <2>3. ASSUME NEW q \in Path, Hooked(q)
          PROVE  /\ mirror'[q].present <=> IsFile(fs', q)
                 /\ mirror'[q].present => mirror'[q].content = fs'[q].content
      <3>1. CASE q \in gone
        <4>1. mirror'[q] = Unmirrored
          BY <2>2, <2>3, <3>1 DEF MirrorWith
        <4>. QED
          BY <2>1, <3>1, <4>1 DEF Unmirrored
      <3>2. CASE q \notin gone
        <4>1. mirror'[q] = mirror[q]
          BY <2>2, <3>2 DEF MirrorWith
        <4>2. /\ mirror[q].present <=> IsFile(fs, q)
              /\ mirror[q].present => mirror[q].content = fs[q].content
          BY <2>3 DEF MirrorInStep
        <4>3. /\ IsFile(fs', q) <=> IsFile(fs, q)
              /\ IsFile(fs, q) => fs'[q] = fs[q]
          BY <2>1, <3>2 DEF IsFile
        <4>. QED
          BY <4>1, <4>2, <4>3
      <3>. QED
        BY <3>1, <3>2
    <2>. QED
      BY <2>3 DEF MirrorInStep, Hooked
  <1>. QED
    BY <1>1, <1>2, RemoveOutcomes

\* A write that succeeds and any remove are announced in full to the hooks for
\* the paths they change.
THEOREM MirrorIsKept ==
    Spec => MirrorFollowsWrites
  <1>1. ASSUME Inv, MirrorInStep, WriteStep, Succeeds
        PROVE  MirrorInStep'
    <2>1. PICK p \in Path, d \in Text, append \in BOOLEAN :
            WriteFile(p, d, append, Unversioned)
      BY <1>1 DEF WriteStep
    <2>. QED
      BY <1>1, <2>1, TextIsSeq, WriteSucceeds, WriteKeepsMirror DEF Succeeds
  <1>2. ASSUME Inv, MirrorInStep, RemoveStep
        PROVE  MirrorInStep'
    <2>1. PICK p \in Path : Remove(p, TRUE)
      BY <1>2 DEF RemoveStep
    <2>. QED
      BY <1>2, <2>1, RemoveKeepsMirror
  <1>3. Inv => (MirrorInStep /\ ~MirrorInStep' => ~(WriteStep /\ Succeeds) /\ ~RemoveStep)
    BY <1>1, <1>2
  <1>. QED
    BY <1>3, InvAlways, PTL DEF MirrorFollowsWrites

-----------------------------------------------------------------------------
(* The full text index. *)

\* It is enough to look at the texts of the files, one by one.
LEMMA InStepByPath ==
    ASSUME NEW f \in Tree, NEW texts \in [Path -> Seq(Data)],
           \A q \in Path : texts[q] = IF IsFile(f, q) THEN f[q].content ELSE << >>
    PROVE  texts = Texts(f)
  BY DEF Texts

\* A step that changes no text leaves an index in step that it leaves alone.
LEMMA SameTexts ==
    ASSUME IndexInStep, UNCHANGED <<index, indexOn>>,
           \A q \in Path : /\ IsFile(fs, q) => IsFile(fs', q) /\ fs'[q].content = fs[q].content
                           /\ IsFile(fs', q) => IsFile(fs, q) \/ fs'[q].content = << >>
    PROVE  IndexInStep'
  <1>1. Texts(fs') = Texts(fs)
    BY DEF Texts
  <1>. QED
    BY <1>1 DEF IndexInStep, Texts

\* A rebuild that raises nothing brings the index in step.
LEMMA Rebuilt ==
    ASSUME NEW f, fs' = f, RebuildIndex(f), ~RebuildRaises(f), UNCHANGED indexOn
    PROVE  IndexInStep'
  BY DEF RebuildIndex, IndexInStep, Texts, IsFile

LEMMA MkdirKeepsIndex ==
    ASSUME Inv, IndexInStep, NEW p \in Path, TreeOnly(MakeDirs(fs, p))
    PROVE  IndexInStep'
  <1>1. ASSUME NEW q \in Path
        PROVE  fs'[q] = fs[q] \/ (fs'[q] = NewDir /\ ~IsFile(fs, q))
    BY DEF TreeOnly, MakeDirs, Exists, IsFile
  <1>. QED
    BY <1>1, NodeFacts, SameTexts DEF TreeOnly, IsFile

LEMMA TouchKeepsIndex ==
    ASSUME Inv, IndexInStep, NEW p \in Path, CanEnsureFile(fs, p),
           TreeOnly(EnsureFile(fs, p))
    PROVE  IndexInStep'
  <1>1. fs \in Tree /\ WellFormed(fs)
    BY DEF Inv, TypeOK, TreeIsWellFormed
  <1>2. /\ \A q \in Path : IsFile(fs, q) => fs'[q] = fs[q]
        /\ \A q \in Path \ {p} : IsFile(fs', q) => IsFile(fs, q)
        /\ ~IsFile(fs, p) => fs'[p] = NewFile
    BY <1>1, EnsureFileFiles DEF TreeOnly
  <1>3. NewFile.content = << >>
    BY DEF NewFile, FileNode
  <1>4. ASSUME NEW q \in Path
        PROVE  /\ IsFile(fs, q) => IsFile(fs', q) /\ fs'[q].content = fs[q].content
               /\ IsFile(fs', q) => IsFile(fs, q) \/ fs'[q].content = << >>
    BY <1>2, <1>3 DEF IsFile
  <1>. QED
    BY <1>4, SameTexts DEF TreeOnly

LEMMA WriteKeepsIndex ==
    ASSUME Inv, IndexInStep, NEW p \in Path, WrittenEverywhere(p)
    PROVE  IndexInStep'
  <1>1. /\ IsFile(fs', p)
        /\ \A q \in Path \ {p} : IsFile(fs, q) => fs'[q] = fs[q]
        /\ \A q \in Path \ {p} : IsFile(fs', q) => IsFile(fs, q)
        /\ fs'[p].content \in Seq(Data)
        /\ index' = Indexed(p, fs'[p].content)
        /\ UNCHANGED indexOn
    BY DEF WrittenEverywhere
  <1>2. SUFFICES ASSUME indexOn
                 PROVE  index' = [q \in Path |-> IF IsFile(fs', q) THEN fs'[q].content ELSE << >>]
    BY <1>1 DEF IndexInStep, Texts
  <1>3. index = [q \in Path |-> IF IsFile(fs, q) THEN fs[q].content ELSE << >>]
    BY <1>2 DEF IndexInStep, Texts
  <1>4. index' = [index EXCEPT ![p] = fs'[p].content]
    BY <1>1, <1>2 DEF Indexed
  <1>5. ASSUME NEW q \in Path
        PROVE  index'[q] = IF IsFile(fs', q) THEN fs'[q].content ELSE << >>
    <2>1. CASE q = p
      BY <1>1, <1>3, <1>4, <2>1
    <2>2. CASE q # p
      <3>1. (IsFile(fs', q) <=> IsFile(fs, q)) /\ (IsFile(fs, q) => fs'[q] = fs[q])
        BY <1>1, <2>2 DEF IsFile
      <3>. QED
        BY <1>3, <1>4, <2>2, <3>1
    <2>. QED
      BY <2>1, <2>2
  <1>6. index' = [q \in Path |-> index'[q]]
    BY <1>3, <1>4
  <1>. QED
    BY <1>5, <1>6

LEMMA RemoveKeepsIndex ==
    ASSUME Inv, NEW p \in Path, NEW recursive \in BOOLEAN, Remove(p, recursive),
           IndexInStep
    PROVE  IndexInStep'
  <1>1. CASE UNCHANGED <<fs, index, indexOn, mounted, store, mirror>>
    BY <1>1 DEF IndexInStep, Texts, IsFile
  <1>2. ASSUME NEW tops \in SUBSET Path, TakeOut(tops)
        PROVE  IndexInStep'
    <2>. DEFINE gone == {q \in Files(fs) : \E t \in tops : Under(q, t)}
    <2>1. /\ \A q \in gone : q \in Path /\ ~IsFile(fs', q)
          /\ \A q \in Path \ gone : IsFile(fs, q) => fs'[q] = fs[q]
          /\ \A q \in Path : IsFile(fs', q) => IsFile(fs, q)
      BY <1>2, TakeOutFacts
    <2>2. index' = IndexWithout(gone) /\ UNCHANGED indexOn
      BY <1>2 DEF TakeOut
    <2>. HIDE DEF gone
    <2>3. SUFFICES ASSUME indexOn
                   PROVE  index' = [q \in Path |-> IF IsFile(fs', q) THEN fs'[q].content ELSE << >>]
      BY <2>2 DEF IndexInStep, Texts
    <2>4. index = [q \in Path |-> IF IsFile(fs, q) THEN fs[q].content ELSE << >>]
      BY <2>3 DEF IndexInStep, Texts
    <2>5. index' = [q \in Path |-> IF q \in gone THEN << >> ELSE index[q]]
      BY <2>2, <2>3 DEF IndexWithout
    <2>6. ASSUME NEW q \in Path
          PROVE  index'[q] = IF IsFile(fs', q) THEN fs'[q].content ELSE << >>
      <3>1. CASE q \in gone
        BY <2>1, <2>5, <3>1
      <3>2. CASE q \notin gone
        <4>1. (IsFile(fs', q) <=> IsFile(fs, q)) /\ (IsFile(fs, q) => fs'[q] = fs[q])
          BY <2>1, <3>2 DEF IsFile
        <4>. QED
          BY <2>4, <2>5, <3>2, <4>1
      <3>. QED
        BY <3>1, <3>2
    <2>. QED
      BY <2>5, <2>6
  <1>. QED
    BY <1>1, <1>2, RemoveOutcomes

-----------------------------------------------------------------------------
(* Moves and copies. *)

\* The tree after the subtree at src has been put at to, which was free.
MovedWhole(src, to) ==
    /\ src \in Path /\ to \in Path /\ src # Root
    /\ Exists(fs, src) /\ ~Exists(fs, to)
    /\ ~Under(to, src) /\ ~Under(src, to)
    /\ Fits(fs, src, to)
    /\ \A q \in Path :
          fs'[q] = IF Under(q, to)
                   THEN IF Rebase(q, to, src) \in Path THEN fs[Rebase(q, to, src)] ELSE Absent
                   ELSE IF Under(q, src) THEN Absent ELSE fs[q]

\* What a move leaves that does not raise.
LEMMA MoveSucceeds ==
    ASSUME Inv, NEW src \in Path, NEW dst \in Path, Move(src, dst), res' = "ok"
    PROVE  \/ TreeOnly(fs) /\ Destination(fs, src, dst) = src
           \/ \E to \in Path :
                /\ to = Destination(fs, src, dst) /\ MovedWhole(src, to)
                /\ UNCHANGED indexOn
                /\ \/ /\ IsFile(fs, src)
                      /\ index' = IF indexOn
                                  THEN [index EXCEPT ![src] = << >>, ![to] = fs'[to].content]
                                  ELSE index
                   \/ /\ ~IsFile(fs, src)
                      /\ RebuildIndex(fs')
                      /\ ~RebuildRaises(fs')
  <1>. DEFINE to == Destination(fs, src, dst)
              without == Detach(fs, {src})
              f == Graft(without, fs, src, to)
  <1>1. ~MoveRefused(src, dst)
    BY DEF Move, Raise, Return
  <1>2. /\ src # Root /\ Exists(fs, src)
        /\ IsDir(fs, DestinationDir(fs, dst))
        /\ IsDir(fs, src) => ~Under(DestinationDir(fs, dst), src)
    BY <1>1 DEF MoveRefused
  <1>3. fs \in Tree /\ WellFormed(fs)
    BY DEF Inv, TypeOK, TreeIsWellFormed
  <1>4. \/ TreeOnly(fs) /\ to = src
        \/ /\ to # src /\ ~Exists(fs, to)
           /\ Fits(fs, src, to)
           /\ fs' = f
           /\ IF IsFile(fs, src)
              THEN index' = IF indexOn
                            THEN [index EXCEPT ![src] = << >>, ![to] = f[to].content]
                            ELSE index
              ELSE RebuildIndex(f)
           /\ ~(IsDir(fs, src) /\ RebuildRaises(f))
           /\ UNCHANGED indexOn
    BY <1>1 DEF Move, Return
  <1>5. CASE /\ to # src /\ ~Exists(fs, to)
             /\ Fits(fs, src, to)
             /\ fs' = f
             /\ IF IsFile(fs, src)
                THEN index' = IF indexOn
                              THEN [index EXCEPT ![src] = << >>, ![to] = f[to].content]
                              ELSE index
                ELSE RebuildIndex(f)
             /\ ~(IsDir(fs, src) /\ RebuildRaises(f))
             /\ UNCHANGED indexOn
    <2>1. to \in Path
      BY <1>2, <1>3, <1>5, FitsFacts, DestinationIsSeq
    <2>2. to # Root /\ Parent(to) = DestinationDir(fs, dst) /\ Parent(to) \in Path
      BY <1>2, <1>3, <2>1, DestinationFacts, ParentFacts
    <2>. HIDE DEF to
    <2>3. ~Under(Parent(to), src)
      BY <1>2, <1>3, <2>2, AboveIsDir DEF IsDir, Exists
    <2>4. ~Under(to, src)
      BY <1>5, <2>1, <2>3, UnderParent DEF StrictlyUnder
    <2>5. ~Under(src, to)
      BY <1>2, <1>3, <1>5, <2>1, BelowNothing
    <2>6. \A q \in Path :
             fs'[q] = IF Under(q, to)
                      THEN IF Rebase(q, to, src) \in Path THEN fs[Rebase(q, to, src)] ELSE Absent
                      ELSE IF Under(q, src) THEN Absent ELSE fs[q]
      BY <1>5 DEF Graft, Detach
    <2>7. MovedWhole(src, to)
      BY <1>2, <1>5, <2>1, <2>4, <2>5, <2>6 DEF MovedWhole
    <2>8. IsFile(fs, src) \/ IsDir(fs, src)
      BY <1>2, <1>3 DEF Exists, IsDir, IsFile, Tree, Node
    <2>9. to = Destination(fs, src, dst)
      BY DEF to
    <2>. QED
      BY <1>5, <2>1, <2>7, <2>8, <2>9
  <1>. QED
    BY <1>4, <1>5

LEMMA MoveKeepsIndex ==
    ASSUME Inv, IndexInStep, NEW src \in Path, NEW dst \in Path, Move(src, dst), res' = "ok"
    PROVE  IndexInStep'
  <1>1. CASE TreeOnly(fs)
    BY <1>1 DEF TreeOnly, IndexInStep, Texts, IsFile
  <1>2. fs \in Tree /\ WellFormed(fs)
    BY DEF Inv, TypeOK, TreeIsWellFormed
  <1>3. ASSUME NEW to \in Path, MovedWhole(src, to), UNCHANGED indexOn, IsFile(fs, src),
               index' = IF indexOn
                        THEN [index EXCEPT ![src] = << >>, ![to] = fs'[to].content]
                        ELSE index
        PROVE  IndexInStep'
    <2>1. SUFFICES ASSUME indexOn
                   PROVE  index' = [q \in Path |-> IF IsFile(fs', q) THEN fs'[q].content ELSE << >>]
      BY <1>3 DEF IndexInStep, Texts
    <2>2. index = [q \in Path |-> IF IsFile(fs, q) THEN fs[q].content ELSE << >>]
      BY <2>1 DEF IndexInStep, Texts
    <2>3. index' = [q \in Path |-> IF q = to THEN fs'[to].content
                                   ELSE IF q = src THEN << >> ELSE index[q]]
      BY <1>3, <2>1, <2>2
    <2>4. fs'[to] = fs[src]
      <3>1. Rebase(to, to, src) = src /\ Under(to, to)
        BY PathFacts, RebaseSelf
      <3>. QED
        BY <1>3, <3>1 DEF MovedWhole
    <2>5. ASSUME NEW q \in Path
          PROVE  index'[q] = IF IsFile(fs', q) THEN fs'[q].content ELSE << >>
      <3>1. CASE q = to
        BY <1>3, <2>3, <2>4, <3>1 DEF IsFile
      <3>2. CASE q # to /\ Under(q, to)
        <4>1. ~Exists(fs, q)
          BY <1>2, <1>3, <3>2, BelowNothing DEF MovedWhole
        <4>2. ~Exists(fs', q)
          <5>1. CASE Rebase(q, to, src) \in Path
            <6>1. ~Exists(fs, Rebase(q, to, src))
              BY <1>2, <1>3, <3>2, <5>1, RebaseFacts, BelowAFile DEF IsDir, IsFile
            <6>. QED
              BY <1>3, <3>2, <5>1, <6>1 DEF MovedWhole, Exists
          <5>2. CASE Rebase(q, to, src) \notin Path
            BY <1>3, <3>2, <5>2, NodeFacts DEF MovedWhole, Exists
          <5>. QED
            BY <5>1, <5>2
        <4>3. q # src
          BY <1>3, <3>2 DEF MovedWhole
        <4>. QED
          BY <2>2, <2>3, <3>2, <4>1, <4>2, <4>3 DEF Exists, IsFile
      <3>3. CASE ~Under(q, to) /\ Under(q, src)
        <4>1. fs'[q] = Absent /\ q # to
          BY <1>3, <3>3, PathFacts DEF MovedWhole
        <4>2. q # src => ~Exists(fs, q)
          BY <1>2, <1>3, <3>3, BelowAFile DEF StrictlyUnder, IsDir, IsFile
        <4>. QED
          BY <2>2, <2>3, <4>1, <4>2, NodeFacts DEF Exists, IsFile
      <3>4. CASE ~Under(q, to) /\ ~Under(q, src)
        <4>1. fs'[q] = fs[q] /\ q # to /\ q # src
          BY <1>3, <3>4, PathFacts DEF MovedWhole
        <4>. QED
          BY <2>2, <2>3, <4>1 DEF IsFile
      <3>. QED
        BY <3>1, <3>2, <3>3, <3>4
    <2>. QED
      BY <2>3, <2>5
  <1>4. ASSUME NEW to \in Path, RebuildIndex(fs'), ~RebuildRaises(fs'), UNCHANGED indexOn
        PROVE  IndexInStep'
    BY <1>4, Rebuilt
  <1>. QED
    BY <1>1, <1>3, <1>4, MoveSucceeds

\* The tree after a copy of the subtree at src has been put at to, where
\* nothing stood but, at most, a file that no policy protects.
CopiedWhole(src, to) ==
    /\ src \in Path /\ to \in Path
    /\ Exists(fs, src) /\ ~IsDir(fs, to) /\ ~Protected(fs, to)
    /\ \A q \in Path :
          fs'[q] = IF Under(q, to)
                   THEN IF Rebase(q, to, src) \in Path
                        THEN [fs[Rebase(q, to, src)] EXCEPT !.version = 0] ELSE Absent
                   ELSE fs[q]

\* A copy raises and at most the file at dst is gone, or it puts the copy in.
LEMMA CopyOutcomes ==
    ASSUME Inv, NEW src \in Path, NEW dst \in Path, NEW recursive \in BOOLEAN,
           Copy(src, dst, recursive)
    PROVE  \/ res' = "error" /\ fs' = fs
           \/ /\ res' = "error" /\ fs' = Detach(fs, {dst})
              /\ IsFile(fs, dst) /\ ~Protected(fs, dst)
           \/ \E to \in Path :
                /\ to = Destination(fs, src, dst) /\ CopiedWhole(src, to)
                /\ UNCHANGED indexOn
                /\ \/ IsFile(fs, src) /\ index' = Indexed(to, fs'[to].content)
                   \/ /\ ~IsFile(fs, src)
                      /\ res' = "ok" => RebuildIndex(fs') /\ ~RebuildRaises(fs')
  <1>. DEFINE to == Destination(fs, src, dst)
              cleared == IF IsFile(fs, dst) THEN Detach(fs, {dst}) ELSE fs
              f == Graft(cleared, Clone(fs), src, to)
  <1>1. CASE Raise
    BY <1>1 DEF Raise, Return
  <1>2. CASE ~CopyRefused(src, dst, recursive)
    <2>1. Exists(fs, src) /\ (IsFile(fs, dst) => ~Protected(fs, dst))
      BY <1>2 DEF CopyRefused
    <2>2. fs \in Tree /\ WellFormed(fs)
      BY DEF Inv, TypeOK, TreeIsWellFormed
    <2>3. IsFile(fs, dst) => to = dst
      BY DEF Destination, IsFile, IsDir
    <2>4. \A q \in Path : cleared[q] = IF IsFile(fs, dst) /\ Under(q, dst) THEN Absent ELSE fs[q]
      BY DEF Detach
    <2>5. CASE Return("error") /\ TreeOnly(cleared)
      BY <2>1, <2>5 DEF Return, TreeOnly
    <2>6. CASE /\ ~Exists(cleared, to)
               /\ Fits(fs, src, to)
               /\ fs' = f
               /\ IF IsFile(fs, src) THEN index' = Indexed(to, f[to].content)
                                     ELSE RebuildIndex(f)
               /\ Return(IF IsDir(fs, src) /\ RebuildRaises(f) THEN "error" ELSE "ok")
               /\ UNCHANGED indexOn
      <3>1. to \in Path
        BY <2>1, <2>2, <2>6, FitsFacts, DestinationIsSeq
      <3>. HIDE DEF to, cleared
      <3>2. ~IsDir(fs, to) /\ ~Protected(fs, to)
        <4>1. CASE IsFile(fs, dst)
          BY <2>1, <2>3, <4>1 DEF IsFile, IsDir
        <4>2. CASE ~IsFile(fs, dst)
          <5>1. ~Exists(fs, to)
            BY <2>4, <2>6, <3>1, <4>2 DEF Exists
          <5>. QED
            BY <5>1 DEF Exists, IsDir, Protected
        <4>. QED
          BY <4>1, <4>2
      <3>3. ASSUME NEW q \in Path
            PROVE  fs'[q] = IF Under(q, to)
                            THEN IF Rebase(q, to, src) \in Path
                                 THEN [fs[Rebase(q, to, src)] EXCEPT !.version = 0] ELSE Absent
                            ELSE fs[q]
        <4>1. CASE Under(q, to)
          BY <2>6, <4>1 DEF Graft, Clone
        <4>2. CASE ~Under(q, to)
          BY <2>3, <2>4, <2>6, <4>2 DEF Graft
        <4>. QED
          BY <4>1, <4>2
      <3>4. CopiedWhole(src, to)
        BY <2>1, <3>1, <3>2, <3>3 DEF CopiedWhole
      <3>5. IsFile(fs, src) \/ IsDir(fs, src)
        BY <2>1, <2>2 DEF Exists, IsDir, IsFile, Tree, Node
      <3>p. to = Destination(fs, src, dst)
        BY DEF to
      <3>6. CASE IsFile(fs, src)
        BY <2>6, <3>1, <3>4, <3>p, <3>6
      <3>7. CASE ~IsFile(fs, src)
        <4>1. res' = "ok" => RebuildIndex(fs') /\ ~RebuildRaises(fs')
          BY <2>6, <3>5, <3>7 DEF Return
        <4>. QED
          BY <2>6, <3>1, <3>4, <3>p, <3>7, <4>1
      <3>. QED
        BY <3>6, <3>7
    <2>. QED
      BY <1>1, <1>2, <2>5, <2>6 DEF Copy
  <1>. QED
    BY <1>1, <1>2 DEF Copy

LEMMA CopyKeepsIndex ==
    ASSUME Inv, IndexInStep, NEW src \in Path, NEW dst \in Path,
           NEW recursive \in BOOLEAN, Copy(src, dst, recursive), res' = "ok"
    PROVE  IndexInStep'
  <1>1. fs \in Tree /\ WellFormed(fs)
    BY DEF Inv, TypeOK, TreeIsWellFormed
  <1>2. ASSUME NEW to \in Path, CopiedWhole(src, to), UNCHANGED indexOn, IsFile(fs, src),
               index' = Indexed(to, fs'[to].content)
        PROVE  IndexInStep'
    <2>1. SUFFICES ASSUME indexOn
                   PROVE  index' = [q \in Path |-> IF IsFile(fs', q) THEN fs'[q].content ELSE << >>]
      BY <1>2 DEF IndexInStep, Texts
    <2>2. index = [q \in Path |-> IF IsFile(fs, q) THEN fs[q].content ELSE << >>]
      BY <2>1 DEF IndexInStep, Texts
    <2>3. index' = [q \in Path |-> IF q = to THEN fs'[to].content ELSE index[q]]
      BY <1>2, <2>1, <2>2 DEF Indexed
    <2>4. fs'[to].kind = "file"
      <3>1. Rebase(to, to, src) = src /\ Under(to, to)
        BY PathFacts, RebaseSelf
      <3>2. fs'[to] = [fs[src] EXCEPT !.version = 0]
        BY <1>2, <3>1 DEF CopiedWhole
      <3>. QED
        BY <1>1, <1>2, <3>2 DEF IsFile, Tree, Node
    <2>5. ASSUME NEW q \in Path
          PROVE  index'[q] = IF IsFile(fs', q) THEN fs'[q].content ELSE << >>
      <3>1. CASE q = to
        BY <2>3, <2>4, <3>1 DEF IsFile
      <3>2. CASE q # to /\ Under(q, to)
        <4>1. ~Exists(fs, q)
          BY <1>1, <1>2, <3>2, BelowAFile DEF CopiedWhole, StrictlyUnder
        <4>2. ~Exists(fs', q)
          <5>. DEFINE s == Rebase(q, to, src)
          <5>1. CASE s \in Path
            <6>1. ~Exists(fs, s)
              BY <1>1, <1>2, <3>2, <5>1, RebaseFacts, BelowAFile DEF IsDir, IsFile
            <6>2. fs'[q] = [fs[s] EXCEPT !.version = 0]
              BY <1>2, <3>2, <5>1 DEF CopiedWhole
            <6>. HIDE DEF s
            <6>3. fs'[q].kind = fs[s].kind
              BY <1>1, <5>1, <6>2 DEF Tree, Node
            <6>. QED
              BY <5>1, <6>1, <6>3 DEF Exists
          <5>2. CASE s \notin Path
            BY <1>2, <3>2, <5>2, NodeFacts DEF CopiedWhole, Exists
          <5>. QED
            BY <5>1, <5>2
        <4>. QED
          BY <2>2, <2>3, <3>2, <4>1, <4>2 DEF Exists, IsFile
      <3>3. CASE ~Under(q, to)
        <4>1. fs'[q] = fs[q] /\ q # to
          BY <1>2, <3>3, PathFacts DEF CopiedWhole
        <4>. QED
          BY <2>2, <2>3, <4>1 DEF IsFile
      <3>. QED
        BY <3>1, <3>2, <3>3
    <2>. QED
      BY <2>3, <2>5
  <1>3. ASSUME NEW to \in Path, RebuildIndex(fs'), ~RebuildRaises(fs'), UNCHANGED indexOn
        PROVE  IndexInStep'
    BY <1>3, Rebuilt
  <1>. QED
    BY <1>2, <1>3, CopyOutcomes

\* A load that raises nothing has rebuilt the index.
LEMMA LoadKeepsIndex ==
    ASSUME NEW f, NEW m, LoadMount(f, m), res' = "ok"
    PROVE  IndexInStep'
  <1>1. PICK E \in LoadOutcomes(m, Entries(store[m])) :
          LET loaded == Load(f, m, E, store[m])
          IN  /\ fs' = loaded
              /\ RebuildIndex(loaded) /\ ~RebuildRaises(loaded)
              /\ UNCHANGED indexOn
    BY DEF LoadMount, Return
  <1>. QED
    BY <1>1, Rebuilt

LEMMA RestoreKeepsIndex ==
    ASSUME Restore, res' = "ok"
    PROVE  IndexInStep'
  <1>1. PICK T \in RestoreOutcomes(snap.fs) :
          LET f == RestoreTree(snap.fs, T)
          IN  fs' = f /\ RebuildIndex(f) /\ ~RebuildRaises(f)
    BY DEF Restore, Return
  <1>2. UNCHANGED indexOn
    BY DEF Restore
  <1>. QED
    BY <1>1, <1>2, Rebuilt

LEMMA NextKeepsIndex ==
    ASSUME Inv, IndexInStep, Succeeds \/ RemoveStep, Next
    PROVE  IndexInStep'
  <1>1. CASE RemoveStep
    <2>1. PICK p \in Path : Remove(p, TRUE)
      BY <1>1 DEF RemoveStep
    <2>. QED
      BY <2>1, RemoveKeepsIndex
  <1>2. CASE res' = "ok"
    <2>1. ~Raise
      BY <1>2 DEF Raise, Return
    <2>2. CASE UNCHANGED <<fs, index, indexOn>>
      BY <2>2 DEF IndexInStep, Texts, IsFile
    <2>3. ASSUME NEW p \in Path, NEW parents \in BOOLEAN, NEW exist_ok \in BOOLEAN,
                 Mkdir(p, parents, exist_ok)
          PROVE  IndexInStep'
      BY <2>1, <2>3, MkdirKeepsIndex DEF Mkdir
    <2>4. ASSUME NEW p \in Path, NEW d \in Text, NEW append \in BOOLEAN,
                 NEW expected \in Expected, WriteFile(p, d, append, expected)
          PROVE  IndexInStep'
      <3>1. WrittenEverywhere(p)
        BY <1>2, <2>4, TextIsSeq, WriteSucceeds
      <3>. QED
        BY <3>1, WriteKeepsIndex
    <2>5. ASSUME NEW p \in Path, Touch(p)
          PROVE  IndexInStep'
      BY <1>2, <2>1, <2>5, TouchKeepsIndex DEF Touch, Return
    <2>6. ASSUME NEW p \in Path, NEW recursive \in BOOLEAN, Remove(p, recursive)
          PROVE  IndexInStep'
      BY <2>6, RemoveKeepsIndex
    <2>7. ASSUME NEW src \in Path, NEW dst \in Path, Move(src, dst)
          PROVE  IndexInStep'
      BY <1>2, <2>7, MoveKeepsIndex
    <2>8. ASSUME NEW src \in Path, NEW dst \in Path, NEW recursive \in BOOLEAN,
                 Copy(src, dst, recursive)
          PROVE  IndexInStep'
      BY <1>2, <2>8, CopyKeepsIndex
    <2>9. ASSUME NEW p \in Homes, Cd(p)
          PROVE  IndexInStep'
      BY <2>1, <2>2, <2>9 DEF Cd
    <2>10. ASSUME NEW grant \in Grants, SetPolicy(grant[1], grant[2])
           PROVE  IndexInStep'
      <3>. DEFINE p == grant[1]
                  policy == grant[2]
      <3>1. TreeOnly(WithPolicy(fs, p, policy))
        BY <2>1, <2>10 DEF SetPolicy
      <3>2. p \in Path /\ policy \in Policy /\ fs \in Tree
        BY ConstantAssumption DEF Inv, TypeOK
      <3>. HIDE DEF p, policy
      <3>3. \A q \in Path : fs'[q].kind = fs[q].kind /\ fs'[q].content = fs[q].content
        BY <3>1, <3>2 DEF TreeOnly, WithPolicy, Tree, Node
      <3>. QED
        BY <3>1, <3>3, SameTexts DEF TreeOnly, IsFile
    <2>11. CASE EnableIndex
      BY <1>2, <2>11 DEF EnableIndex, Return, IndexInStep, Texts, IsFile
    <2>12. ASSUME NEW m \in MountPoints, NEW granted \in BOOLEAN, MountStorage(m, granted)
           PROVE  IndexInStep'
      <3>1. \E f : LoadMount(f, m)
        BY <2>1, <2>12 DEF MountStorage
      <3>. QED
        BY <1>2, <3>1, LoadKeepsIndex
    <2>13. ASSUME NEW m \in MountPoints, SyncStorage(m)
           PROVE  IndexInStep'
      BY <1>2, <2>1, <2>13, LoadKeepsIndex DEF SyncStorage
    <2>14. ASSUME NEW m \in MountPoints, NEW p \in Path, NEW d \in Text,
                  ExternalWrite(m, p, d)
           PROVE  IndexInStep'
      BY <2>2, <2>14 DEF ExternalWrite
    <2>15. ASSUME NEW m \in MountPoints, NEW p \in Path, ExternalDelete(m, p)
           PROVE  IndexInStep'
      BY <2>2, <2>15 DEF ExternalDelete
    <2>16. CASE Snapshot
      BY <2>2, <2>16 DEF Snapshot
    <2>17. CASE Restore
      BY <1>2, <2>17, RestoreKeepsIndex
    <2>. QED
      BY <2>3, <2>4, <2>5, <2>6, <2>7, <2>8, <2>9, <2>10, <2>11, <2>12, <2>13, <2>14,
         <2>15, <2>16, <2>17 DEF Next
  <1>. QED
    BY <1>1, <1>2 DEF Succeeds

\* A full text index that agrees with the files goes on agreeing with them as
\* long as the calls succeed, and through every remove.
THEOREM IndexIsKept ==
    Spec => IndexFollowsTree
  <1>1. Inv /\ [Next]_vars =>
          [IndexInStep /\ ~IndexInStep' => ~Succeeds /\ ~RemoveStep]_vars
    BY NextKeepsIndex
  <1>. QED
    BY <1>1, InvAlways, PTL DEF Spec, IndexFollowsTree

-----------------------------------------------------------------------------
(* Snapshots.  A restore makes the nodes that the snapshot has; that this  *)
(* is the whole tree takes that nothing is left where there is no node.    *)

BareTrees == Bare(fs) /\ Bare(snap.fs)

LEMMA BareLoadMount ==
    ASSUME NEW f \in Tree, Bare(f), NEW m, LoadMount(f, m)
    PROVE  Bare(fs') /\ UNCHANGED snap
  <1>1. \E E : fs' = Load(f, m, E, store[m]) /\ UNCHANGED snap
    BY DEF LoadMount
  <1>. QED
    BY <1>1, BareOperators

LEMMA BareWrite ==
    ASSUME Inv, Bare(fs), NEW p \in Path, NEW d \in Seq(Data), NEW append \in BOOLEAN,
           NEW expected, WriteFile(p, d, append, expected)
    PROVE  Bare(fs') /\ UNCHANGED snap
  <1>. DEFINE f == EnsureFile(fs, p)
              node == Written(f[p], d, append)
  <1>1. CASE Raise
    BY <1>1 DEF Raise
  <1>2. CASE CanEnsureFile(fs, p)
    <2>1. f \in Tree /\ Bare(f) /\ f[p] \in Node /\ f[p].kind = "file"
      <3>1. fs \in Tree /\ WellFormed(fs)
        BY DEF Inv, TypeOK, TreeIsWellFormed
      <3>2. f \in Tree /\ IsFile(f, p) /\ Bare(f)
        BY <1>2, <3>1, EnsureFileFacts, BareOperators
      <3>. QED
        BY <3>2 DEF Tree, IsFile
    <2>. HIDE DEF f
    <2>2. node \in Node /\ node.kind = "file"
      BY <2>1, WrittenFacts
    <2>. HIDE DEF node
    <2>3. CASE TreeOnly(f)
      BY <2>1, <2>3 DEF TreeOnly
    <2>4. CASE TreeOnly([f EXCEPT ![p].content = node.content])
      <3>. DEFINE new == [f[p] EXCEPT !.content = node.content]
      <3>1. new \in Node /\ new.kind = "file"
        BY <2>1, <2>2 DEF Node
      <3>2. [f EXCEPT ![p].content = node.content] = [f EXCEPT ![p] = new]
        OBVIOUS
      <3>. HIDE DEF new
      <3>3. Bare([f EXCEPT ![p] = new])
        BY <2>1, <3>1, BareOperators
      <3>. QED
        BY <2>4, <3>2, <3>3 DEF TreeOnly
    <2>5. CASE fs' = [f EXCEPT ![p] = node] /\ UNCHANGED snap
      <3>1. Bare([f EXCEPT ![p] = node])
        BY <2>1, <2>2, BareOperators
      <3>. QED
        BY <2>5, <3>1
    <2>6. TreeOnly(f) \/ PersistAndPublish(f, p, node)
      BY <1>2 DEF WriteFile, Raise, TreeOnly, f, node
    <2>. QED
      BY <2>3, <2>4, <2>5, <2>6 DEF PersistAndPublish, AfterConflict
  <1>. QED
    BY <1>1, <1>2 DEF WriteFile

LEMMA NextBare ==
    ASSUME Inv, BareTrees, Next
    PROVE  BareTrees'
  <1>1. fs \in Tree /\ snap.fs \in Tree /\ Bare(fs) /\ Bare(snap.fs)
    BY DEF Inv, TypeOK, BareTrees
  <1>2. CASE UNCHANGED <<fs, snap>>
    BY <1>2 DEF BareTrees, Bare, Exists
  <1>3. CASE Bare(fs') /\ UNCHANGED snap
    BY <1>1, <1>3 DEF BareTrees, Bare, Exists
  <1>4. ASSUME NEW f, Bare(f), TreeOnly(f)
        PROVE  BareTrees'
    BY <1>3, <1>4 DEF TreeOnly
  <1>5. Raise => BareTrees'
    BY <1>2 DEF Raise
  <1>6. ASSUME NEW p \in Path, NEW parents \in BOOLEAN, NEW exist_ok \in BOOLEAN,
               Mkdir(p, parents, exist_ok)
        PROVE  BareTrees'
    BY <1>1, <1>4, <1>5, <1>6, BareOperators DEF Mkdir
  <1>7. ASSUME NEW p \in Path, NEW d \in Text, NEW append \in BOOLEAN,
               NEW expected \in Expected, WriteFile(p, d, append, expected)
        PROVE  BareTrees'
    BY <1>1, <1>3, <1>7, TextIsSeq, BareWrite
  <1>8. ASSUME NEW p \in Path, Touch(p)
        PROVE  BareTrees'
    BY <1>1, <1>4, <1>5, <1>8, BareOperators DEF Touch
  <1>9. ASSUME NEW p \in Path, NEW recursive \in BOOLEAN, Remove(p, recursive)
        PROVE  BareTrees'
    <2>1. Raise \/ \E tops : TakeOut(tops)
      BY <1>9 DEF Remove
    <2>2. ASSUME NEW tops, TakeOut(tops)
          PROVE  BareTrees'
      BY <1>1, <1>3, <2>2, BareOperators DEF TakeOut
    <2>. QED
      BY <1>5, <2>1, <2>2
  <1>10. ASSUME NEW src \in Path, NEW dst \in Path, Move(src, dst)
         PROVE  BareTrees'
    <2>. DEFINE to == Destination(fs, src, dst)
                without == Detach(fs, {src})
    <2>1. \/ Raise
          \/ TreeOnly(fs)
          \/ ~MoveRefused(src, dst) /\ fs' = without /\ UNCHANGED snap
          \/ ~MoveRefused(src, dst) /\ fs' = Graft(without, fs, src, to) /\ UNCHANGED snap
      BY <1>10 DEF Move
    <2>2. Bare(without)
      BY <1>1, BareOperators
    <2>3. ~MoveRefused(src, dst) => without \in Tree
      BY <1>1, DetachFacts DEF MoveRefused, Inv, TreeIsWellFormed
    <2>4. ~MoveRefused(src, dst) => Bare(Graft(without, fs, src, to))
      BY <1>1, <2>2, <2>3, BareGraft
    <2>. QED
      BY <1>1, <1>3, <1>4, <1>5, <2>1, <2>2, <2>4
  <1>11. ASSUME NEW src \in Path, NEW dst \in Path, NEW recursive \in BOOLEAN,
                Copy(src, dst, recursive)
         PROVE  BareTrees'
    <2>. DEFINE to == Destination(fs, src, dst)
                cleared == IF IsFile(fs, dst) THEN Detach(fs, {dst}) ELSE fs
    <2>1. \/ Raise
          \/ TreeOnly(cleared)
          \/ fs' = Graft(cleared, Clone(fs), src, to) /\ UNCHANGED snap
      BY <1>11 DEF Copy
    <2>2. Bare(cleared) /\ Bare(Clone(fs))
      BY <1>1, BareOperators
    <2>3. cleared \in Tree /\ Clone(fs) \in Tree
      <3>1. WellFormed(fs)
        BY DEF Inv, TreeIsWellFormed
      <3>2. IsFile(fs, dst) => dst # Root
        BY <3>1 DEF WellFormed, IsDir, IsFile
      <3>. QED
        BY <1>1, <3>1, <3>2, DetachFacts, CloneFacts
    <2>4. Bare(Graft(cleared, Clone(fs), src, to))
      BY <2>2, <2>3, BareGraft
    <2>. QED
      BY <1>3, <1>4, <1>5, <2>1, <2>2, <2>4
  <1>12. ASSUME NEW p \in Homes, Cd(p)
         PROVE  BareTrees'
    BY <1>2, <1>5, <1>12 DEF Cd
  <1>13. ASSUME NEW grant \in Grants, SetPolicy(grant[1], grant[2])
         PROVE  BareTrees'
    <2>. DEFINE p == grant[1]
                policy == grant[2]
    <2>1. Raise \/ (Exists(fs, p) /\ TreeOnly(WithPolicy(fs, p, policy)))
      BY <1>13 DEF SetPolicy
    <2>2. p \in Path /\ policy \in Policy
      BY ConstantAssumption
    <2>. HIDE DEF p, policy
    <2>3. Exists(fs, p) => Bare(WithPolicy(fs, p, policy))
      BY <1>1, <2>2 DEF WithPolicy, Bare, Exists, Tree, Node
    <2>. QED
      BY <1>4, <1>5, <2>1, <2>3
  <1>14. CASE EnableIndex
    BY <1>2, <1>14 DEF EnableIndex
  <1>15. ASSUME NEW m \in MountPoints, NEW granted \in BOOLEAN, MountStorage(m, granted)
         PROVE  BareTrees'
    <2>. DEFINE made == MakeDirs(fs, m)
    <2>1. \/ Raise
          \/ MkdirAllowed(m, TRUE, TRUE) /\ LoadMount(made, m)
          \/ /\ MkdirAllowed(m, TRUE, TRUE)
             /\ \E grant \in Grants :
                   grant[1] = m /\ LoadMount(WithPolicy(made, m, grant[2]), m)
      BY <1>15 DEF MountStorage
    <2>2. m \in Path /\ WellFormed(fs)
      BY ConstantAssumption DEF Inv, TreeIsWellFormed
    <2>3. MkdirAllowed(m, TRUE, TRUE) =>
            made \in Tree /\ WellFormed(made) /\ IsDir(made, m) /\ Bare(made)
      <3>1. MkdirAllowed(m, TRUE, TRUE) => CanMakeDirs(fs, m)
        BY <2>2, MkdirMeetsNoFile
      <3>. QED
        BY <1>1, <2>2, <3>1, MakeDirsFacts, BareOperators
    <2>. HIDE DEF made
    <2>4. ASSUME MkdirAllowed(m, TRUE, TRUE), NEW grant \in Grants,
                 LoadMount(WithPolicy(made, m, grant[2]), m)
          PROVE  BareTrees'
      <3>1. grant[2] \in Policy
        BY ConstantAssumption
      <3>2. WithPolicy(made, m, grant[2]) \in Tree
        BY <2>2, <2>3, <2>4, <3>1, WithPolicyFacts
      <3>3. Bare(WithPolicy(made, m, grant[2]))
        BY <2>2, <2>3, <2>4 DEF WithPolicy, Bare, Exists, IsDir, Tree, Node
      <3>. QED
        BY <1>3, <2>4, <3>2, <3>3, BareLoadMount
    <2>. QED
      BY <1>3, <1>5, <2>1, <2>3, <2>4, BareLoadMount
  <1>16. ASSUME NEW m \in MountPoints, SyncStorage(m)
         PROVE  BareTrees'
    BY <1>1, <1>3, <1>5, <1>16, BareLoadMount DEF SyncStorage
  <1>17. ASSUME NEW m \in MountPoints, NEW p \in Path, NEW d \in Text,
                ExternalWrite(m, p, d)
         PROVE  BareTrees'
    BY <1>2, <1>17 DEF ExternalWrite
  <1>18. ASSUME NEW m \in MountPoints, NEW p \in Path, ExternalDelete(m, p)
         PROVE  BareTrees'
    BY <1>2, <1>18 DEF ExternalDelete
  <1>19. CASE Snapshot
    BY <1>1, <1>19 DEF Snapshot, BareTrees, Bare, Exists
  <1>20. CASE Restore
    <2>1. (\E T : fs' = RestoreTree(snap.fs, T)) /\ UNCHANGED snap
      BY <1>20 DEF Restore
    <2>. QED
      BY <1>1, <1>3, <2>1, BareOperators
  <1>. QED
    BY <1>6, <1>7, <1>8, <1>9, <1>10, <1>11, <1>12, <1>13, <1>14, <1>15, <1>16, <1>17,
       <1>18, <1>19, <1>20 DEF Next

LEMMA BareAlways ==
    Spec => [](Inv /\ BareTrees)
  <1>1. Init => BareTrees
    <2>1. Bare(EmptyTree)
      BY NodeFacts DEF Bare, EmptyTree, Exists
    <2>. QED
      BY <2>1 DEF Init, NoSnapshot, BareTrees
  <1>2. BareTrees /\ UNCHANGED vars => BareTrees'
    BY DEF BareTrees, Bare, Exists, vars
  <1>3. Inv /\ BareTrees /\ [Next]_vars => BareTrees'
    BY <1>2, NextBare
  <1>. QED
    BY <1>1, <1>3, InvAlways, PTL DEF Spec

\* A restore that succeeds brings back the snapshot's tree to the node, its
\* working directory and mounts, and an index that agrees with the files.
THEOREM RestoreIsComplete ==
    Spec => RestoreReturns
  <1>1. ASSUME Inv, BareTrees, Restore, Succeeds
        PROVE  /\ fs' = snap.fs
               /\ Pwd(cwd)' = snap.pwd
               /\ mounted' = snap.mounted
               /\ IndexInStep'
    <2>1. PICK T \in RestoreOutcomes(snap.fs) :
            LET f == RestoreTree(snap.fs, T)
            IN  /\ T = Subtree(snap.fs, Root)
                /\ fs' = f
                /\ cwd' = [at |-> snap.pwd, gone |-> << >>]
      BY <1>1 DEF Restore, Return, Succeeds
    <2>2. snap.fs \in Tree /\ Bare(snap.fs) /\ snap.pwd \in Seq(Name)
      BY <1>1 DEF Inv, TypeOK, BareTrees
    <2>3. fs' = snap.fs
      <3>1. \A p \in Path : p \in T <=> Exists(snap.fs, p)
        BY <2>1, PathFacts DEF Subtree
      <3>2. \A p \in Path : RestoreTree(snap.fs, T)[p] = snap.fs[p]
        BY <2>2, <3>1 DEF RestoreTree, Bare
      <3>. QED
        BY <2>1, <2>2, <3>2 DEF RestoreTree, Tree
    <2>4. Pwd(cwd)' = snap.pwd
      BY <2>1, <2>2, ConcatEmptySeq DEF Pwd
    <2>5. IndexInStep'
      BY <1>1, RestoreKeepsIndex DEF Succeeds
    <2>. QED
      BY <1>1, <2>3, <2>4, <2>5 DEF Restore
  <1>2. Inv /\ BareTrees =>
          (Succeeds /\ Restore => /\ fs' = snap.fs
                                  /\ Pwd(cwd)' = snap.pwd
                                  /\ mounted' = snap.mounted
                                  /\ IndexInStep')
    BY <1>1
  <1>. QED
    BY <1>2, BareAlways, PTL DEF RestoreReturns

-----------------------------------------------------------------------------
(* Policies. *)

\* A node that stays as it was, or that grows by a text at its end, is kept.
LEMMA KeptNode ==
    ASSUME NEW node \in Node
    PROVE  /\ \A policy : Keeps(node, [node EXCEPT !.policy = policy])
           /\ Keeps(node, node)
  <1>1. node.content \in Seq(Data) /\ Len(node.content) \in Nat
    BY LenProperties DEF Node
  <1>2. SubSeq(node.content, 1, Len(node.content)) = node.content
    BY <1>1
  <1>3. \A policy : /\ [node EXCEPT !.policy = policy].kind = node.kind
                    /\ [node EXCEPT !.policy = policy].content = node.content
    BY DEF Node
  <1>. QED
    BY <1>1, <1>2, <1>3 DEF Keeps

LEMMA GrownNode ==
    ASSUME NEW node \in Node, NEW new \in Node, NEW d \in Seq(Data), node.policy.writable,
           new.kind = node.kind, new.content = node.content \o d
    PROVE  Keeps(node, new)
  <1>. DEFINE c == node.content
              e == c \o d
  <1>1. c \in Seq(Data) /\ Len(c) \in Nat /\ Len(d) \in Nat
    BY LenProperties DEF Node
  <1>. HIDE DEF c
  <1>2. e \in Seq(Data) /\ Len(e) = Len(c) + Len(d) /\ \A i \in 1..Len(c) : e[i] = c[i]
    BY <1>1, ConcatProperties
  <1>. HIDE DEF e
  <1>3. /\ SubSeq(e, 1, Len(c)) \in Seq(Data)
        /\ Len(SubSeq(e, 1, Len(c))) = Len(c)
        /\ \A i \in 1..Len(c) : SubSeq(e, 1, Len(c))[i] = e[i]
    BY <1>1, <1>2, SubSeqProperties
  <1>4. SubSeq(e, 1, Len(c)) = c
    BY <1>1, <1>2, <1>3, SeqEqual
  <1>5. Len(c) <= Len(e)
    BY <1>1, <1>2
  <1>. QED
    BY <1>4, <1>5 DEF Keeps, c, e

\* write_file changes a protected file only at its end and as its policy allows,
\* and leaves every other node as it is.
LEMMA WriteProtects ==
    ASSUME Inv, NEW p \in Path, NEW d \in Seq(Data), NEW append \in BOOLEAN,
           NEW expected, WriteFile(p, d, append, expected),
           NEW b \in Path, Protected(fs, b)
    PROVE  Keeps(fs[b], fs'[b])
  <1>. DEFINE f == EnsureFile(fs, p)
              node == Written(f[p], d, append)
  <1>1. fs \in Tree /\ WellFormed(fs) /\ Exists(fs, b)
    BY DEF Inv, TypeOK, TreeIsWellFormed, Protected
  <1>2. fs[b] \in Node
    BY <1>1 DEF Tree
  <1>3. Keeps(fs[b], fs[b])
    BY <1>2, KeptNode
  <1>4. CASE Raise
    BY <1>3, <1>4 DEF Raise
  <1>5. CASE CanEnsureFile(fs, p)
    <2>1. f \in Tree /\ IsFile(f, p) /\ f[b] = fs[b]
      BY <1>1, <1>5, EnsureFileFacts, EnsureFileFiles
    <2>. HIDE DEF f
    <2>2. f[p] \in Node /\ f[p].kind = "file"
      BY <2>1 DEF Tree, IsFile
    <2>3. /\ node \in Node /\ node.kind = "file"
          /\ node.content = IF append THEN f[p].content \o d ELSE d
      BY <2>2, WrittenFacts
    <2>. HIDE DEF node
    <2>4. CASE fs' = f
      BY <1>3, <2>1, <2>4
    <2>5. CASE /\ WriteAllowed(f[p], append)
               /\ \/ fs' = [f EXCEPT ![p].content = node.content]
                  \/ fs' = [f EXCEPT ![p] = node]
      <3>1. CASE b # p
        <4>1. fs'[b] = f[b]
          BY <2>1, <2>5, <3>1 DEF Tree
        <4>. QED
          BY <1>3, <2>1, <4>1
      <3>2. CASE b = p
        <4>1. append /\ f[p].policy.writable
          BY <2>1, <2>5, <3>2 DEF Protected, WriteAllowed
        <4>2. node.content = f[p].content \o d
          BY <2>3, <4>1
        <4>3. fs'[p] \in Node /\ fs'[p].kind = "file" /\ fs'[p].content = node.content
          <5>1. CASE fs' = [f EXCEPT ![p] = node]
            BY <2>1, <2>3, <5>1 DEF Tree
          <5>2. CASE fs' = [f EXCEPT ![p].content = node.content]
            <6>1. fs'[p] = [f[p] EXCEPT !.content = node.content]
              BY <2>1, <5>2 DEF Tree
            <6>. QED
              BY <2>2, <2>3, <6>1 DEF Node
          <5>. QED
            BY <2>5, <5>1, <5>2
        <4>. QED
          BY <2>1, <2>2, <3>2, <4>1, <4>2, <4>3, GrownNode
      <3>. QED
        BY <3>1, <3>2
    <2>6. TreeOnly(f) \/ (WriteAllowed(f[p], append) /\ PersistAndPublish(f, p, node))
      BY <1>5 DEF WriteFile, Raise, f, node
    <2>. QED
      BY <2>4, <2>5, <2>6 DEF PersistAndPublish, AfterConflict, TreeOnly
  <1>. QED
    BY <1>4, <1>5 DEF WriteFile

\* A node that is moved stands, unaltered, where there was none.
LEMMA MoveTakesAlong ==
    ASSUME Inv, NEW src, NEW to, MovedWhole(src, to), NEW b \in Path, Exists(fs, b)
    PROVE  fs'[b] = fs[b] \/ \E q \in Path : ~Exists(fs, q) /\ fs'[q] = fs[b]
  <1>1. fs \in Tree /\ WellFormed(fs)
    BY DEF Inv, TypeOK, TreeIsWellFormed
  <1>2. ~Under(b, to)
    BY <1>1, BelowNothing DEF MovedWhole
  <1>3. CASE Under(b, src)
    <2>. DEFINE q == Rebase(b, src, to)
    <2>1. q \in Path
      BY <1>3 DEF MovedWhole, Fits, Subtree
    <2>2. Under(q, to) /\ Rebase(q, to, src) = b
      BY <1>3, RebaseInverse DEF MovedWhole
    <2>. HIDE DEF q
    <2>3. ~Exists(fs, q)
      BY <1>1, <2>1, <2>2, BelowNothing DEF MovedWhole
    <2>4. fs'[q] = fs[b]
      BY <2>1, <2>2 DEF MovedWhole
    <2>. QED
      BY <2>1, <2>3, <2>4
  <1>4. CASE ~Under(b, src)
    BY <1>2, <1>4 DEF MovedWhole
  <1>. QED
    BY <1>3, <1>4

\* What each call leaves of a protected node.
LEMMA NextProtects ==
    ASSUME Inv, Next, ~ReloadStep, ~(~Succeeds /\ MoveStep),
           NEW b \in Path, Protected(fs, b)
    PROVE  Keeps(fs[b], fs'[b]) \/ \E q \in Path : ~Exists(fs, q) /\ fs'[q] = fs[b]
  <1>1. fs \in Tree /\ WellFormed(fs) /\ Exists(fs, b)
    BY DEF Inv, TypeOK, TreeIsWellFormed, Protected
  <1>2. fs[b] \in Node
    BY <1>1 DEF Tree
  <1>3. fs'[b] = fs[b] => Keeps(fs[b], fs'[b])
    BY <1>2, KeptNode
  <1>4. Raise => fs'[b] = fs[b]
    BY DEF Raise
  <1>5. ASSUME NEW p \in Path, NEW parents \in BOOLEAN, NEW exist_ok \in BOOLEAN,
               Mkdir(p, parents, exist_ok)
        PROVE  fs'[b] = fs[b]
    BY <1>1, <1>4, <1>5 DEF Mkdir, TreeOnly, MakeDirs
  <1>6. ASSUME NEW p \in Path, NEW d \in Text, NEW append \in BOOLEAN,
               NEW expected \in Expected, WriteFile(p, d, append, expected)
        PROVE  Keeps(fs[b], fs'[b])
    BY <1>6, TextIsSeq, WriteProtects
  <1>7. ASSUME NEW p \in Path, Touch(p)
        PROVE  fs'[b] = fs[b]
    <2>1. Raise \/ (CanEnsureFile(fs, p) /\ TreeOnly(EnsureFile(fs, p)))
      BY <1>7 DEF Touch
    <2>. QED
      BY <1>1, <1>4, <2>1, EnsureFileFiles DEF TreeOnly
  <1>8. ASSUME NEW p \in Path, NEW recursive \in BOOLEAN, Remove(p, recursive)
        PROVE  fs'[b] = fs[b]
    <2>1. Raise \/ \E tops \in RemovalOutcomes(fs, p) : TakeOut(tops)
      BY <1>8 DEF Remove
    <2>2. ASSUME NEW tops \in RemovalOutcomes(fs, p), TakeOut(tops)
          PROVE  fs'[b] = fs[b]
      <3>1. \A t \in tops : ~Under(b, t)
        BY <1>1, RemovalSpares
      <3>. QED
        BY <2>2, <3>1 DEF TakeOut, Detach
    <2>. QED
      BY <1>4, <2>1, <2>2
  <1>9. ASSUME NEW src \in Path, NEW dst \in Path, Move(src, dst)
        PROVE  fs'[b] = fs[b] \/ \E q \in Path : ~Exists(fs, q) /\ fs'[q] = fs[b]
    <2>1. res' = "ok"
      BY <1>9 DEF MoveStep, Succeeds
    <2>2. CASE TreeOnly(fs)
      BY <2>2 DEF TreeOnly
    <2>3. ASSUME NEW to \in Path, MovedWhole(src, to)
          PROVE  fs'[b] = fs[b] \/ \E q \in Path : ~Exists(fs, q) /\ fs'[q] = fs[b]
      BY <1>1, <2>3, MoveTakesAlong
    <2>. QED
      BY <1>9, <2>1, <2>2, <2>3, MoveSucceeds
  <1>10. ASSUME NEW src \in Path, NEW dst \in Path, NEW recursive \in BOOLEAN,
                Copy(src, dst, recursive)
         PROVE  fs'[b] = fs[b]
    <2>1. CASE fs' = Detach(fs, {dst}) /\ IsFile(fs, dst) /\ ~Protected(fs, dst)
      <3>1. b # dst
        BY <2>1
      <3>2. ~Under(b, dst)
        BY <1>1, <2>1, <3>1, BelowAFile DEF StrictlyUnder, IsFile, IsDir
      <3>. QED
        BY <2>1, <3>2 DEF Detach
    <2>2. ASSUME NEW to \in Path, CopiedWhole(src, to)
          PROVE  fs'[b] = fs[b]
      <3>1. b # to
        BY <2>2 DEF CopiedWhole
      <3>2. ~Under(b, to)
        BY <1>1, <2>2, <3>1, BelowAFile DEF StrictlyUnder, CopiedWhole
      <3>. QED
        BY <2>2, <3>2 DEF CopiedWhole
    <2>. QED
      BY <1>10, <2>1, <2>2, CopyOutcomes
  <1>11. ASSUME NEW p \in Homes, Cd(p)
         PROVE  fs'[b] = fs[b]
    BY <1>4, <1>11 DEF Cd
  <1>12. ASSUME NEW grant \in Grants, SetPolicy(grant[1], grant[2])
         PROVE  Keeps(fs[b], fs'[b])
    <2>. DEFINE p == grant[1]
                policy == grant[2]
    <2>1. Raise \/ fs' = WithPolicy(fs, p, policy)
      BY <1>12 DEF SetPolicy, TreeOnly
    <2>2. p \in Path
      BY ConstantAssumption
    <2>. HIDE DEF p, policy
    <2>3. fs' = WithPolicy(fs, p, policy) =>
            fs'[b] = fs[b] \/ fs'[b] = [fs[b] EXCEPT !.policy = policy]
      BY <1>1, <2>2 DEF WithPolicy, Tree
    <2>. QED
      BY <1>2, <1>3, <1>4, <2>1, <2>3, KeptNode
  <1>13. CASE EnableIndex
    BY <1>3, <1>13 DEF EnableIndex
  <1>14. ASSUME NEW m \in MountPoints, NEW p \in Path, NEW d \in Text,
                ExternalWrite(m, p, d)
         PROVE  fs'[b] = fs[b]
    BY <1>14 DEF ExternalWrite
  <1>15. ASSUME NEW m \in MountPoints, NEW p \in Path, ExternalDelete(m, p)
         PROVE  fs'[b] = fs[b]
    BY <1>15 DEF ExternalDelete
  <1>16. CASE Snapshot
    BY <1>3, <1>16 DEF Snapshot
  <1>. QED
    BY <1>3, <1>5, <1>6, <1>7, <1>8, <1>9, <1>10, <1>11, <1>12, <1>13, <1>14, <1>15,
       <1>16 DEF Next, ReloadStep

\* No call takes a protected node away or alters it otherwise than by adding to
\* an append-only file, whatever recursion, failure or move goes over it.
THEOREM PoliciesProtect ==
    Spec => PolicyProtects
  <1>1. Inv /\ [Next]_vars =>
          [\A p \in Path : Protected(fs, p) =>
              \/ Keeps(fs[p], fs'[p])
              \/ \E q \in Path : ~Exists(fs, q) /\ fs'[q] = fs[p]
              \/ ~Succeeds /\ MoveStep
              \/ ReloadStep]_vars
    BY NextProtects
  <1>. QED
    BY <1>1, InvAlways, PTL DEF Spec, PolicyProtects

-----------------------------------------------------------------------------
(* A conflict is not forgotten. *)

\* Where the tree's version and the adapter's stay as they are, they stay apart.
LEMMA StaysDiverged ==
    ASSUME NEW p \in Path, Diverged(p), UNCHANGED mounted, IsFile(fs', p),
           fs'[p].version = fs[p].version,
           MountsOver(p) # {} => store'[MountOf(p)][p] = store[MountOf(p)][p]
    PROVE  Diverged(p)'
  BY MountsStay DEF Diverged

\* A write to the file itself meets the conflict, and other writes pass it by.
LEMMA WriteStaysDiverged ==
    ASSUME Inv, NEW b \in Path, Diverged(b), NEW p \in Path, NEW d \in Seq(Data),
           NEW append \in BOOLEAN, NEW expected, WriteFile(p, d, append, expected)
    PROVE  Diverged(b)'
  <1>1. PICK f : f = EnsureFile(fs, p)
    OBVIOUS
  <1>2. PICK node : node = Written(f[p], d, append)
    OBVIOUS
  <1>3. /\ fs \in Tree /\ WellFormed(fs) /\ IsFile(fs, b)
        /\ store \in [MountPoints -> Store] /\ MountsOver(b) # {}
    BY DEF Inv, TypeOK, TreeIsWellFormed, Diverged
  <1>4. CASE Raise
    BY <1>3, <1>4, StaysDiverged DEF Raise
  <1>5. CASE CanEnsureFile(fs, p)
    <2>1. f \in Tree /\ IsFile(f, p) /\ f[b] = fs[b]
      BY <1>1, <1>3, <1>5, EnsureFileFacts, EnsureFileFiles
    <2>2. CASE TreeOnly(f)
      BY <1>3, <2>1, <2>2, StaysDiverged DEF TreeOnly, IsFile
    <2>3. CASE TreeOnly(AfterConflict(f, p, node))
      <3>1. fs' = [f EXCEPT ![p].content = node.content] /\ UNCHANGED <<mounted, store>>
        BY <2>3 DEF TreeOnly, AfterConflict
      <3>2. fs'[b].kind = f[b].kind /\ fs'[b].version = f[b].version
        BY <2>1, <3>1 DEF Tree, Node
      <3>. QED
        BY <1>3, <2>1, <3>1, <3>2, StaysDiverged DEF IsFile
    <2>4. CASE /\ MountsOver(p) # {} => Accepts(store[MountOf(p)], p, f[p].version)
               /\ fs' = [f EXCEPT ![p] = node]
               /\ store' = IF MountsOver(p) = {} THEN store
                           ELSE [store EXCEPT ![MountOf(p)] =
                                   AdapterWrite(store[MountOf(p)], p, node.content, f[p].version)]
               /\ UNCHANGED mounted
      <3>1. p # b
        BY <2>1, <2>4 DEF Accepts, Diverged
      <3>2. fs'[b] = fs[b]
        BY <2>1, <2>4, <3>1 DEF Tree
      <3>3. store'[MountOf(b)][b] = store[MountOf(b)][b]
        <4>1. MountOf(b) \in MountPoints /\ store[MountOf(b)] \in Store
          BY <1>3, MountOfFacts DEF Inv, TypeOK
        <4>2. CASE MountsOver(p) = {}
          BY <2>4, <4>2
        <4>3. CASE MountsOver(p) # {} /\ MountOf(p) = MountOf(b)
          <5>1. store'[MountOf(b)] =
                  AdapterWrite(store[MountOf(b)], p, node.content, f[p].version)
            BY <1>3, <2>4, <4>1, <4>3
          <5>. QED
            BY <3>1, <4>1, <5>1 DEF AdapterWrite, Store
        <4>4. CASE MountsOver(p) # {} /\ MountOf(p) # MountOf(b)
          BY <1>3, <2>4, <4>1, <4>4
        <4>. QED
          BY <4>2, <4>3, <4>4
      <3>. QED
        BY <1>3, <2>4, <3>2, <3>3, StaysDiverged DEF IsFile
    <2>. QED
      BY <1>1, <1>2, <1>5, <2>2, <2>3, <2>4 DEF WriteFile, PersistAndPublish, Raise
  <1>. QED
    BY <1>4, <1>5 DEF WriteFile

\* What a removal leaves, it leaves in the adapters too.
LEMMA RemoveStaysDiverged ==
    ASSUME Inv, NEW b \in Path, Diverged(b), IsFile(fs', b),
           NEW p \in Path, NEW recursive \in BOOLEAN, Remove(p, recursive)
    PROVE  Diverged(b)'
  <1>1. IsFile(fs, b) /\ MountsOver(b) # {}
    BY DEF Diverged
  <1>2. CASE UNCHANGED <<fs, index, indexOn, mounted, store, mirror>>
    BY <1>1, <1>2, StaysDiverged
  <1>3. ASSUME NEW tops \in SUBSET Path, TakeOut(tops)
        PROVE  Diverged(b)'
    <2>. DEFINE gone == {q \in Files(fs) : \E t \in tops : Under(q, t)}
    <2>1. b \notin gone /\ fs'[b] = fs[b]
      BY <1>1, <1>3, TakeOutFacts
    <2>2. /\ UNCHANGED mounted
          /\ store' = [n \in MountPoints |->
               AdapterDelete(store[n], {q \in gone : MountsOver(q) # {} /\ MountOf(q) = n})]
      BY <1>3 DEF TakeOut
    <2>. HIDE DEF gone
    <2>3. MountOf(b) \in MountPoints
      BY <1>1, MountOfFacts DEF Inv, TypeOK
    <2>4. store'[MountOf(b)][b] = store[MountOf(b)][b]
      BY <2>1, <2>2, <2>3 DEF AdapterDelete
    <2>. QED
      BY <1>1, <2>1, <2>2, <2>4, StaysDiverged DEF IsFile
  <1>. QED
    BY <1>2, <1>3, RemoveOutcomes

\* A move brings a file only to where there was none.
LEMMA MoveStaysDiverged ==
    ASSUME Inv, NEW b \in Path, Diverged(b), IsFile(fs', b),
           NEW src \in Path, NEW dst \in Path, Move(src, dst)
    PROVE  Diverged(b)'
  <1>. DEFINE to == Destination(fs, src, dst)
              without == Detach(fs, {src})
  <1>1. fs \in Tree /\ WellFormed(fs) /\ IsFile(fs, b) /\ Exists(fs, b)
    BY DEF Inv, TypeOK, TreeIsWellFormed, Diverged, IsFile, Exists
  <1>2. UNCHANGED <<mounted, store>>
    BY DEF Move, Raise, TreeOnly
  <1>3. \A q \in Path : without[q] = IF Under(q, src) THEN Absent ELSE fs[q]
    BY DEF Detach
  <1>4. CASE fs' = fs
    BY <1>1, <1>2, <1>4, StaysDiverged
  <1>5. CASE fs' = without
    <2>1. fs'[b] = fs[b]
      BY <1>3, <1>5, NodeFacts DEF IsFile
    <2>. QED
      BY <1>1, <1>2, <2>1, StaysDiverged DEF IsFile
  <1>6. CASE /\ ~MoveRefused(src, dst) /\ ~Exists(fs, to)
             /\ Fits(fs, src, to) /\ fs' = Graft(without, fs, src, to)
    <2>1. to \in Path
      BY <1>1, <1>6, FitsFacts, DestinationIsSeq DEF MoveRefused
    <2>. HIDE DEF to, without
    <2>2. ~Under(b, to)
      BY <1>1, <1>6, <2>1, BelowNothing
    <2>3. fs'[b] = fs[b]
      BY <1>3, <1>6, <2>2, NodeFacts DEF Graft, IsFile
    <2>. QED
      BY <1>1, <1>2, <2>3, StaysDiverged DEF IsFile
  <1>. QED
    BY <1>4, <1>5, <1>6 DEF Move, Raise, TreeOnly

\* What each call makes of a file that differs from its adapter's.
LEMMA NextStaysDiverged ==
    ASSUME Inv, Next, ~ReloadStep, ~CopyStep, ~OthersStep,
           NEW b \in Path, Diverged(b), IsFile(fs', b)
    PROVE  Diverged(b)'
  <1>1. fs \in Tree /\ WellFormed(fs) /\ IsFile(fs, b)
    BY DEF Inv, TypeOK, TreeIsWellFormed, Diverged
  <1>2. fs' = fs /\ UNCHANGED <<mounted, store>> => Diverged(b)'
    BY StaysDiverged
  <1>3. Raise => Diverged(b)'
    BY <1>2 DEF Raise
  <1>4. ASSUME fs'[b] = fs[b], UNCHANGED <<mounted, store>>
        PROVE  Diverged(b)'
    BY <1>4, StaysDiverged
  <1>5. ASSUME NEW p \in Path, NEW parents \in BOOLEAN, NEW exist_ok \in BOOLEAN,
               Mkdir(p, parents, exist_ok)
        PROVE  Diverged(b)'
    BY <1>1, <1>3, <1>4, <1>5 DEF Mkdir, TreeOnly, MakeDirs, IsFile, Exists
  <1>6. ASSUME NEW p \in Path, NEW d \in Text, NEW append \in BOOLEAN,
               NEW expected \in Expected, WriteFile(p, d, append, expected)
        PROVE  Diverged(b)'
    BY <1>6, TextIsSeq, WriteStaysDiverged
  <1>7. ASSUME NEW p \in Path, Touch(p)
        PROVE  Diverged(b)'
    <2>1. Raise \/ (CanEnsureFile(fs, p) /\ TreeOnly(EnsureFile(fs, p)))
      BY <1>7 DEF Touch
    <2>. QED
      BY <1>1, <1>3, <1>4, <2>1, EnsureFileFiles DEF TreeOnly
  <1>8. ASSUME NEW p \in Path, NEW recursive \in BOOLEAN, Remove(p, recursive)
        PROVE  Diverged(b)'
    BY <1>8, RemoveStaysDiverged
  <1>9. ASSUME NEW src \in Path, NEW dst \in Path, Move(src, dst)
        PROVE  Diverged(b)'
    BY <1>9, MoveStaysDiverged
  <1>10. ASSUME NEW src \in Path, NEW dst \in Path, NEW recursive \in BOOLEAN,
                Copy(src, dst, recursive)
         PROVE  Diverged(b)'
    <2>1. Raise \/ Copy(src, dst, TRUE)
      BY <1>10 DEF Copy, CopyRefused
    <2>. QED
      BY <1>3, <2>1 DEF CopyStep
  <1>11. ASSUME NEW p \in Homes, Cd(p)
         PROVE  Diverged(b)'
    BY <1>2, <1>3, <1>11 DEF Cd
  <1>12. ASSUME NEW grant \in Grants, SetPolicy(grant[1], grant[2])
         PROVE  Diverged(b)'
    <2>. DEFINE p == grant[1]
                policy == grant[2]
    <2>1. \/ Raise
          \/ fs' = WithPolicy(fs, p, policy) /\ UNCHANGED <<mounted, store>>
      BY <1>12 DEF SetPolicy, TreeOnly
    <2>2. p \in Path
      BY ConstantAssumption
    <2>. HIDE DEF p, policy
    <2>3. fs' = WithPolicy(fs, p, policy) => fs'[b].version = fs[b].version
      BY <1>1, <2>2 DEF WithPolicy, Tree, Node
    <2>. QED
      BY <1>3, <2>1, <2>3, StaysDiverged
  <1>13. CASE EnableIndex
    BY <1>2, <1>13 DEF EnableIndex
  <1>14. CASE Snapshot
    BY <1>2, <1>14 DEF Snapshot
  <1>. QED
    BY <1>5, <1>6, <1>7, <1>8, <1>9, <1>10, <1>11, <1>12, <1>13, <1>14
       DEF Next, ReloadStep, OthersStep

\* A write meets a conflict only where some mount and its adapter differ, and once
\* the adapter has another version of a file than the tree, they differ as long as
\* the file is there, however many writes run into the conflict or past it.
THEOREM ConflictsTellTheTruth ==
    Spec => ConflictsMatchDivergence
  <1>1. ASSUME Inv, Next, NEW p \in Path, Diverged(p), IsFile(fs, p)', ~Diverged(p)'
        PROVE  ReloadStep \/ CopyStep \/ OthersStep
    BY <1>1, NextStaysDiverged DEF IsFile
  <1>2. Inv /\ [Next]_vars =>
          [ /\ res' = "conflict" /\ WriteStep => \E m \in mounted : ~StoreInStep(m)
            /\ \A p \in Path : Diverged(p) /\ IsFile(fs, p)' /\ ~Diverged(p)' =>
                   ReloadStep \/ CopyStep \/ OthersStep ]_vars
    BY <1>1, ConflictsNeedDivergence
  <1>. QED
    BY <1>2, InvAlways, PTL DEF Spec, ConflictsMatchDivergence

-----------------------------------------------------------------------------
(* Moves keep the nodes. *)

\* A move matches the places of the nodes of a kind, before and after.
LEMMA MoveMatches ==
    ASSUME Inv, BareTrees, NEW src, NEW to, MovedWhole(src, to),
           NEW P, Absent \notin P
    PROVE  ExistsBijection({q \in Path : fs[q] \in P}, {q \in Path : fs'[q] \in P})
  <1>. DEFINE A == {q \in Path : fs[q] \in P}
              B == {q \in Path : fs'[q] \in P}
              h == [q \in A |-> IF Under(q, src) THEN Rebase(q, src, to) ELSE q]
  <1>1. fs \in Tree /\ WellFormed(fs) /\ Bare(fs)
    BY DEF Inv, TypeOK, TreeIsWellFormed, BareTrees
  <1>2. ASSUME NEW q \in A
        PROVE  q \in Path /\ Exists(fs, q) /\ ~Under(q, to)
    <2>1. Exists(fs, q)
      BY <1>1 DEF Bare
    <2>. QED
      BY <1>1, <2>1, BelowNothing DEF MovedWhole
  <1>3. ASSUME NEW q \in A, Under(q, src)
        PROVE  /\ Rebase(q, src, to) \in B
               /\ Under(Rebase(q, src, to), to)
               /\ Rebase(Rebase(q, src, to), to, src) = q
    <2>1. Rebase(q, src, to) \in Path
      BY <1>2, <1>3 DEF MovedWhole, Fits, Subtree
    <2>2. Under(Rebase(q, src, to), to) /\ Rebase(Rebase(q, src, to), to, src) = q
      BY <1>2, <1>3, RebaseInverse DEF MovedWhole
    <2>3. fs'[Rebase(q, src, to)] = fs[q]
      BY <1>2, <2>1, <2>2 DEF MovedWhole
    <2>. QED
      BY <2>1, <2>2, <2>3
  <1>4. ASSUME NEW q \in A, ~Under(q, src)
        PROVE  q \in B
    BY <1>2, <1>4 DEF MovedWhole
  <1>5. h \in [A -> B]
    BY <1>3, <1>4
  <1>6. ASSUME NEW q \in A, NEW r \in A, h[q] = h[r]
        PROVE  q = r
    <2>1. CASE Under(q, src) /\ Under(r, src)
      BY <1>3, <1>6, <2>1
    <2>2. CASE Under(q, src) /\ ~Under(r, src)
      BY <1>2, <1>3, <1>6, <2>2
    <2>3. CASE ~Under(q, src) /\ Under(r, src)
      BY <1>2, <1>3, <1>6, <2>3
    <2>4. CASE ~Under(q, src) /\ ~Under(r, src)
      BY <1>6, <2>4
    <2>. QED
      BY <2>1, <2>2, <2>3, <2>4
  <1>7. ASSUME NEW r \in B
        PROVE  \E q \in A : h[q] = r
    <2>1. CASE Under(r, to)
      <3>. DEFINE s == Rebase(r, to, src)
      <3>1. s \in Path /\ fs'[r] = fs[s]
        BY <2>1 DEF MovedWhole
      <3>2. Under(s, src) /\ Rebase(s, src, to) = r
        BY <2>1, <3>1, RebaseFacts DEF MovedWhole
      <3>. HIDE DEF s
      <3>. QED
        BY <3>1, <3>2
    <2>2. CASE ~Under(r, to)
      <3>1. ~Under(r, src) /\ fs'[r] = fs[r]
        BY <2>2 DEF MovedWhole
      <3>. QED
        BY <3>1
    <2>. QED
      BY <2>1, <2>2
  <1>. HIDE DEF h
  <1>8. h \in Bijection(A, B)
    BY <1>5, <1>6, <1>7 DEF Bijection, Injection, Surjection, IsInjective
  <1>. QED
    BY <1>8 DEF ExistsBijection

LEMMA MoveCounts ==
    ASSUME Inv, BareTrees, NEW src, NEW to, MovedWhole(src, to),
           IsFiniteSet(Path), NEW node \in Node
    PROVE  Cardinality({q \in Path : fs[q] = node}) = Cardinality({q \in Path : fs'[q] = node})
  <1>1. ASSUME NEW P, Absent \notin P
        PROVE  Cardinality({q \in Path : fs[q] \in P}) = Cardinality({q \in Path : fs'[q] \in P})
    <2>1. IsFiniteSet({q \in Path : fs[q] \in P})
      BY FS_Subset
    <2>. QED
      BY <1>1, <2>1, MoveMatches, FS_Bijection
  <1>2. CASE node # Absent
    <2>1. /\ {q \in Path : fs[q] = node} = {q \in Path : fs[q] \in {node}}
          /\ {q \in Path : fs'[q] = node} = {q \in Path : fs'[q] \in {node}}
      OBVIOUS
    <2>. QED
      BY <1>1, <1>2, <2>1
  <1>3. CASE node = Absent
    <2>. DEFINE P == ({fs[q] : q \in Path} \cup {fs'[q] : q \in Path}) \ {Absent}
                A == {q \in Path : fs[q] = Absent}
                B == {q \in Path : fs'[q] = Absent}
                C == {q \in Path : fs[q] \in P}
                D == {q \in Path : fs'[q] \in P}
    <2>1. Cardinality(C) = Cardinality(D)
      BY <1>1
    <2>2. /\ A \cup C = Path /\ A \cap C = {} /\ A \subseteq Path /\ C \subseteq Path
          /\ B \cup D = Path /\ B \cap D = {} /\ B \subseteq Path /\ D \subseteq Path
      OBVIOUS
    <2>. HIDE DEF A, B, C, D
    <2>3. ASSUME NEW S, NEW T, S \subseteq Path, T \subseteq Path,
                 S \cup T = Path, S \cap T = {}
          PROVE  /\ Cardinality(S) \in Nat /\ Cardinality(T) \in Nat
                 /\ Cardinality(Path) = Cardinality(S) + Cardinality(T)
      <3>1. IsFiniteSet(S) /\ IsFiniteSet(T)
        BY <2>3, FS_Subset
      <3>2. Cardinality(S) \in Nat /\ Cardinality(T) \in Nat
        BY <3>1, FS_CardinalityType
      <3>3. Cardinality(S \cup T) = Cardinality(S) + Cardinality(T) - Cardinality(S \cap T)
        BY <3>1, FS_Union
      <3>4. Cardinality({}) = 0
        BY FS_EmptySet
      <3>5. Cardinality(Path) = Cardinality(S) + Cardinality(T) - 0
        BY <2>3, <3>3, <3>4
      <3>. QED
        BY <3>2, <3>5
    <2>4. Cardinality(A) = Cardinality(B)
      <3>1. /\ Cardinality(A) \in Nat /\ Cardinality(C) \in Nat
            /\ Cardinality(Path) = Cardinality(A) + Cardinality(C)
        BY <2>2, <2>3
      <3>2. /\ Cardinality(B) \in Nat /\ Cardinality(D) \in Nat
            /\ Cardinality(Path) = Cardinality(B) + Cardinality(D)
        BY <2>2, <2>3
      <3>. QED
        BY <2>1, <3>1, <3>2
    <2>. QED
      BY <1>3, <2>4 DEF A, B
  <1>. QED
    BY <1>2, <1>3

\* A move that succeeds takes the whole subtree along, each node once, and
\* changes no other: every node is there as often as before.
THEOREM MovesKeepNodes ==
    ASSUME IsFiniteSet(Path)
    PROVE  Spec => MovePreservesNodes
  <1>1. ASSUME Inv, BareTrees, Succeeds, fs' # fs, MoveStep, NEW p \in Path
        PROVE  Cardinality({q \in Path : fs[q] = fs[p]})
                  = Cardinality({q \in Path : fs'[q] = fs[p]})
    <2>1. PICK src \in Path, dst \in Path : Move(src, dst)
      BY <1>1 DEF MoveStep
    <2>2. PICK to \in Path : MovedWhole(src, to)
      BY <1>1, <2>1, MoveSucceeds DEF Succeeds, TreeOnly
    <2>3. fs[p] \in Node
      BY <1>1 DEF Inv, TypeOK, Tree
    <2>. QED
      BY <1>1, <2>2, <2>3, MoveCounts
  <1>2. Inv /\ BareTrees =>
          (Succeeds /\ fs' # fs /\ MoveStep =>
             \A p \in Path :
                Cardinality({q \in Path : fs[q] = fs[p]})
                    = Cardinality({q \in Path : fs'[q] = fs[p]}))
    BY <1>1
  <1>. QED
    BY <1>2, BareAlways, PTL DEF MovePreservesNodes

-----------------------------------------------------------------------------
(* The calls of TreeCalls.  An adapter holds what is below its mount. *)

StoresBelow == \A m \in MountPoints : Below(store[m], m)

\* A write through the tree goes to the mount over its path, and another client
\* writes below the mount.
LEMMA NextStoresBelow ==
    ASSUME Inv, StoresBelow, Next
    PROVE  StoresBelow'
  <1>1. CASE UNCHANGED store
    BY <1>1 DEF StoresBelow
  <1>2. ASSUME \A m \in MountPoints : \A p \in Path :
                  store'[m][p].present => store[m][p].present \/ (Under(p, m) /\ p # Root)
        PROVE  StoresBelow'
    BY <1>2 DEF StoresBelow, Below, Entries
  <1>3. \A st \in Store : \A P : \A p \in Path :
           AdapterDelete(st, P)[p].present => st[p].present
    BY DEF AdapterDelete, NoEntry
  <1>4. \A st \in Store : \A p \in Path : \A c, v : \A q \in Path :
           AdapterWrite(st, p, c, v)[q].present => st[q].present \/ q = p
    BY DEF AdapterWrite, Store
  <1>5. store \in [MountPoints -> Store]
    BY DEF Inv, TypeOK
  <1>6. ASSUME NEW p \in Path, NEW d \in Text, NEW append \in BOOLEAN,
               NEW expected \in Expected, WriteFile(p, d, append, expected)
        PROVE  StoresBelow'
    <2>. DEFINE f == EnsureFile(fs, p)
                node == Written(f[p], d, append)
                m == MountOf(p)
    <2>1. \/ UNCHANGED store
          \/ /\ CanEnsureFile(fs, p)
             /\ store' = IF MountsOver(p) = {} THEN store
                         ELSE [store EXCEPT ![m] =
                                 AdapterWrite(store[m], p, node.content, f[p].version)]
      <3>1. \/ Raise
            \/ CanEnsureFile(fs, p) /\ (TreeOnly(f) \/ PersistAndPublish(f, p, node))
        BY <1>6 DEF WriteFile, TreeOnly, Raise
      <3>. HIDE DEF f, node, m
      <3>2. PersistAndPublish(f, p, node) =>
              \/ UNCHANGED store
              \/ store' = IF MountsOver(p) = {} THEN store
                          ELSE [store EXCEPT ![m] =
                                  AdapterWrite(store[m], p, node.content, f[p].version)]
        BY DEF PersistAndPublish, AfterConflict, TreeOnly, m
      <3>. QED
        BY <3>1, <3>2 DEF Raise, TreeOnly
    <2>2. CASE CanEnsureFile(fs, p) /\ MountsOver(p) # {}
                 /\ store' = [store EXCEPT ![m] =
                                AdapterWrite(store[m], p, node.content, f[p].version)]
      <3>1. m \in MountPoints /\ Under(p, m) /\ p # Root
        BY <2>2, MountOfFacts DEF CanEnsureFile, Inv, TypeOK
      <3>. HIDE DEF f, node, m
      <3>2. \A n \in MountPoints : store'[n] =
               IF n = m THEN AdapterWrite(store[m], p, node.content, f[p].version) ELSE store[n]
        BY <1>5, <2>2, <3>1
      <3>. QED
        BY <1>2, <1>4, <1>5, <3>1, <3>2
    <2>. QED
      BY <1>1, <2>1, <2>2
  <1>7. ASSUME NEW p \in Path, NEW recursive \in BOOLEAN, Remove(p, recursive)
        PROVE  StoresBelow'
    <2>1. ASSUME NEW tops, TakeOut(tops)
          PROVE  \A m \in MountPoints : \A q \in Path :
                    store'[m][q].present => store[m][q].present
      <3>1. \A m \in MountPoints : \E P : store'[m] = AdapterDelete(store[m], P)
        BY <2>1 DEF TakeOut
      <3>. QED
        BY <1>3, <1>5, <3>1
    <2>2. UNCHANGED store \/ \E tops : TakeOut(tops)
      BY <1>7 DEF Remove, Raise
    <2>. QED
      BY <1>1, <1>2, <2>1, <2>2
  <1>8. ASSUME NEW m \in MountPoints, NEW p \in Path, NEW d \in Text, ExternalWrite(m, p, d)
        PROVE  StoresBelow'
    <2>1. p # Root /\ Under(p, m)
      BY <1>8, ConstantAssumption, RootFacts DEF ExternalWrite, StrictlyUnder
    <2>2. \A n \in MountPoints : store'[n] =
             IF n = m THEN AdapterWrite(store[m], p, d, store[m][p].version) ELSE store[n]
      BY <1>5, <1>8 DEF ExternalWrite
    <2>. QED
      BY <1>2, <1>4, <1>5, <2>1, <2>2
  <1>9. ASSUME NEW m \in MountPoints, NEW p \in Path, ExternalDelete(m, p)
        PROVE  StoresBelow'
    <2>1. \A n \in MountPoints : store'[n] =
             IF n = m THEN AdapterDelete(store[m], {p}) ELSE store[n]
      BY <1>5, <1>9 DEF ExternalDelete
    <2>. QED
      BY <1>2, <1>3, <1>5, <2>1
  <1>10. ASSUME NEW p \in Path, NEW parents \in BOOLEAN, NEW exist_ok \in BOOLEAN,
                Mkdir(p, parents, exist_ok)
         PROVE  UNCHANGED store
    BY <1>10 DEF Mkdir, Raise, TreeOnly
  <1>11. ASSUME NEW p \in Path, Touch(p)
         PROVE  UNCHANGED store
    BY <1>11 DEF Touch, Raise, TreeOnly
  <1>12. ASSUME NEW src \in Path, NEW dst \in Path, Move(src, dst)
         PROVE  UNCHANGED store
    BY <1>12 DEF Move, Raise, TreeOnly
  <1>13. ASSUME NEW src \in Path, NEW dst \in Path, NEW recursive \in BOOLEAN,
                Copy(src, dst, recursive)
         PROVE  UNCHANGED store
    BY <1>13 DEF Copy, Raise, TreeOnly
  <1>14. ASSUME NEW p \in Homes, Cd(p)
         PROVE  UNCHANGED store
    BY <1>14 DEF Cd, Raise
  <1>15. ASSUME NEW grant \in Grants, SetPolicy(grant[1], grant[2])
         PROVE  UNCHANGED store
    BY <1>15 DEF SetPolicy, Raise, TreeOnly
  <1>16. EnableIndex => UNCHANGED store
    BY DEF EnableIndex
  <1>17. ASSUME NEW m \in MountPoints, NEW granted \in BOOLEAN, MountStorage(m, granted)
         PROVE  UNCHANGED store
    BY <1>17 DEF MountStorage, LoadMount, Raise
  <1>18. ASSUME NEW m \in MountPoints, SyncStorage(m)
         PROVE  UNCHANGED store
    BY <1>18 DEF SyncStorage, LoadMount, Raise
  <1>19. Snapshot \/ Restore => UNCHANGED store
    BY DEF Snapshot, Restore
  <1>. QED
    BY <1>1, <1>6, <1>7, <1>8, <1>9, <1>10, <1>11, <1>12, <1>13, <1>14, <1>15, <1>16,
       <1>17, <1>18, <1>19 DEF Next

LEMMA StoresBelowAlways ==
    Spec => []StoresBelow
  <1>1. Init => StoresBelow
    BY ConstantAssumption DEF Init, StoresBelow, Below
  <1>2. StoresBelow /\ UNCHANGED vars => StoresBelow'
    BY DEF StoresBelow, Below, vars
  <1>3. Inv /\ StoresBelow /\ [Next]_vars => StoresBelow'
    BY <1>2, NextStoresBelow
  <1>. QED
    BY <1>1, <1>3, InvAlways, PTL DEF Spec

LEMMA EndsAs ==
    ASSUME NEW c \in BOOLEAN, NEW g, NEW h, NEW d, d = IF c THEN Done(g) ELSE Raised(h)
    PROVE  d.ok = c /\ d.tree = IF d.ok THEN g ELSE h
  <1>1. CASE c
    <2>1. d.ok = TRUE /\ d.tree = g
      BY <1>1 DEF Done
    <2>. QED
      BY <1>1, <2>1
  <1>2. CASE ~c
    <2>1. d.ok = FALSE /\ d.tree = h
      BY <1>2 DEF Raised
    <2>. QED
      BY <1>2, <2>1
  <1>. QED
    BY <1>1, <1>2

\* Whatever the tree, a directory or a file is made with all the directories on
\* the way, or, when a file is in the way, none is: the calls of _resolve_dir and
\* _ensure_file do what MakeDirs and EnsureFile say.
THEOREM MakingNeverStopsHalfWay ==
    Spec => []MakingIsAllOrNothing
  <1>1. Inv => MakingIsAllOrNothing
    <2>1. SUFFICES ASSUME Inv, NEW p \in Path
                   PROVE  LET dirs == ResolveDirCalls(fs, p)
                              file == EnsureFileCalls(fs, p)
                          IN  /\ dirs.ok = CanMakeDirs(fs, p)
                              /\ dirs.tree = IF dirs.ok THEN MakeDirs(fs, p) ELSE fs
                              /\ file.ok = CanEnsureFile(fs, p)
                              /\ file.tree = IF file.ok THEN EnsureFile(fs, p) ELSE fs
      BY DEF MakingIsAllOrNothing
    <2>2. fs \in Tree /\ WellFormed(fs)
      BY <2>1 DEF Inv, TypeOK, TreeIsWellFormed
    <2>3. /\ ResolveDirCalls(fs, p) =
               IF CanMakeDirs(fs, p) THEN Done(MakeDirs(fs, p)) ELSE Raised(fs)
          /\ EnsureFileCalls(fs, p) =
               IF CanEnsureFile(fs, p) THEN Done(EnsureFile(fs, p)) ELSE Raised(fs)
      BY <2>2, ResolveDirIs, EnsureFileIs
    <2>4. CanMakeDirs(fs, p) \in BOOLEAN /\ CanEnsureFile(fs, p) \in BOOLEAN
      BY DEF CanMakeDirs, CanEnsureFile
    <2>. QED
      BY <2>3, <2>4, EndsAs
  <1>. QED
    BY <1>1, InvAlways, PTL

\* Over all orders of the adapter's entries, the load of a mount ends with the
\* trees of LoadOutcomes and no others; it raises unless every entry is there.
THEOREM LoadOutcomesAreExact ==
    ASSUME IsFiniteSet(Path)
    PROVE  Spec => []LoadIsSummedUp
  <1>1. Inv /\ BareTrees /\ StoresBelow => LoadIsSummedUp
    <2>1. SUFFICES ASSUME Inv, BareTrees, StoresBelow, NEW m \in MountPoints, IsDir(fs, m)
                   PROVE  {LoadCalls(fs, m, store[m], order) : order \in Orders}
                            = {[tree |-> Load(fs, m, E, store[m]), ok |-> E = Entries(store[m])] :
                                  E \in LoadOutcomes(m, Entries(store[m]))}
      BY DEF LoadIsSummedUp
    <2>2. fs \in Tree /\ WellFormed(fs) /\ Bare(fs) /\ m \in Path
          /\ store[m] \in Store /\ Below(store[m], m)
      BY <2>1, ConstantAssumption DEF Inv, TypeOK, TreeIsWellFormed, BareTrees, StoresBelow
    <2>. QED
      BY <2>1, <2>2, LoadSums
  <1>. QED
    BY <1>1, BareAlways, StoresBelowAlways, PTL

\* Over all orders of the children, a recursive removal ends with the trees of
\* RemovalOutcomes and no others, and it raises exactly when its target stays.
THEOREM RemovalOutcomesAreExact ==
    ASSUME IsFiniteSet(Path)
    PROVE  Spec => []RemovalIsSummedUp
  <1>1. Inv /\ BareTrees => RemovalIsSummedUp
    <2>1. SUFFICES ASSUME Inv, BareTrees, NEW p \in Path \ {Root},
                          Exists(fs, p), ~Protected(fs, Parent(p))
                   PROVE  LET ends == {RemoveCalls(fs, p, order) : order \in Orders}
                          IN  /\ {e.tree : e \in ends}
                                   = {Detach(fs, tops) : tops \in RemovalOutcomes(fs, p)}
                              /\ \A e \in ends : e.ok = ~Exists(e.tree, p)
      BY DEF RemovalIsSummedUp
    <2>2. fs \in Tree /\ WellFormed(fs) /\ Bare(fs)
      BY <2>1 DEF Inv, TypeOK, TreeIsWellFormed, BareTrees
    <2>. QED
      BY <2>1, <2>2, RemovalSums
  <1>. QED
    BY <1>1, BareAlways, PTL

\* Over all orders of the children, a restore of a tree ends with the trees of
\* RestoreOutcomes and no others; it raises unless every node is back.
THEOREM RestoreOutcomesAreExact ==
    ASSUME IsFiniteSet(Path)
    PROVE  Spec => []RestoreIsSummedUp
  <1>1. Inv => RestoreIsSummedUp
    <2>1. SUFFICES ASSUME Inv
                   PROVE  RestoreIsSummedUp
      OBVIOUS
    <2>2. fs \in Tree /\ WellFormed(fs)
      BY <2>1 DEF Inv, TypeOK, TreeIsWellFormed
    <2>. QED
      BY <2>2, RestoreSums DEF RestoreIsSummedUp
  <1>. QED
    BY <1>1, InvAlways, PTL
=============================================================================
