-------------------------- MODULE FileTree_proofs --------------------------
(***************************************************************************)
(* Lemmas about paths, and what the operators of FileTree make of a tree:  *)
(* they return trees, and well-formed ones from well-formed ones.  Then    *)
(* that the calls of TreeCalls, over all orders of the dicts, end as       *)
(* FileTree says: what holds after every turn of a loop holds at its end,  *)
(* and a recursion is finite because paths are.                            *)
(***************************************************************************)
EXTENDS TreeCalls, SequenceTheorems, WellFoundedInduction, TLAPS

-----------------------------------------------------------------------------
(* Numbers and paths. *)

\* Among numbers, the lengths of paths for one, there is a least one.
LEMMA LeastElement ==
    ASSUME NEW S \in SUBSET Nat, S # {}
    PROVE  \E x \in S : \A y \in S : x <= y
  <1>. DEFINE R == OpToRel(<, Nat)
  <1>1. ASSUME NEW x \in Nat, NEW y \in Nat, x < y
        PROVE  <<x, y>> \in R
    BY <1>1 DEF OpToRel
  <1>2. IsWellFoundedOn(R, Nat)
    BY NatLessThanWellFounded
  <1>. HIDE DEF R
  <1>3. PICK x \in S : \A y \in S : ~(<<y, x>> \in R)
    BY <1>2, WFMin
  <1>4. ASSUME NEW y \in S
        PROVE  x <= y
    <2>1. x \in Nat /\ y \in Nat
      OBVIOUS
    <2>2. ~(y < x)
      BY <1>1, <1>3, <2>1
    <2>. QED
      BY <2>1, <2>2
  <1>. QED
    BY <1>4

\* A prefix of a path is a path of its length, and agrees with it.
LEMMA PrefixFacts ==
    ASSUME NEW p \in Seq(Name), NEW n \in 0..Len(p)
    PROVE  /\ SubSeq(p, 1, n) \in Seq(Name)
           /\ Len(SubSeq(p, 1, n)) = n
           /\ \A i \in 1..n : SubSeq(p, 1, n)[i] = p[i]
  BY SubSeqProperties

\* Under, element by element.
LEMMA UnderElements ==
    ASSUME NEW p \in Seq(Name), NEW q \in Seq(Name)
    PROVE  Under(p, q) <=> Len(q) <= Len(p) /\ \A i \in 1..Len(q) : p[i] = q[i]
  <1>1. CASE Len(q) <= Len(p)
    <2>1. Len(q) \in 0..Len(p)
      BY <1>1, LenProperties
    <2>2. /\ SubSeq(p, 1, Len(q)) \in Seq(Name)
          /\ Len(SubSeq(p, 1, Len(q))) = Len(q)
          /\ \A i \in 1..Len(q) : SubSeq(p, 1, Len(q))[i] = p[i]
      BY <2>1, PrefixFacts
    <2>3. SubSeq(p, 1, Len(q)) = q <=> \A i \in 1..Len(q) : SubSeq(p, 1, Len(q))[i] = q[i]
      BY <2>2, SeqEqual
    <2>. QED
      BY <1>1, <2>2, <2>3 DEF Under
  <1>2. CASE ~(Len(q) <= Len(p))
    BY <1>2 DEF Under
  <1>. QED
    BY <1>1, <1>2

\* Paths are sequences of names, and the prefixes of a path are paths.
LEMMA PathFacts ==
    ASSUME NEW p \in Path
    PROVE  /\ p \in Seq(Name)
           /\ Len(p) \in Nat
           /\ Under(p, p)
           /\ Under(p, Root)
  <1>1. p \in Seq(Name) /\ Root \in Seq(Name)
    BY PathAssumption
  <1>2. Len(p) \in Nat /\ Len(Root) = 0
    BY <1>1, LenProperties, EmptySeq DEF Root
  <1>3. Under(p, p)
    BY <1>1, <1>2, UnderElements
  <1>4. Under(p, Root)
    <2>1. Len(Root) <= Len(p) /\ \A i \in 1..Len(Root) : p[i] = Root[i]
      BY <1>2
    <2>. QED
      BY <1>1, <2>1, UnderElements
  <1>. QED
    BY <1>1, <1>2, <1>3, <1>4

LEMMA UnderTransitive ==
    ASSUME NEW p \in Path, NEW q \in Path, NEW r \in Path,
           Under(p, q), Under(q, r)
    PROVE  Under(p, r)
  BY PathFacts, UnderElements

LEMMA UnderAntisymmetric ==
    ASSUME NEW p \in Path, NEW q \in Path, Under(p, q), Under(q, p)
    PROVE  p = q
  <1>1. p \in Seq(Name) /\ q \in Seq(Name) /\ Len(p) \in Nat /\ Len(q) \in Nat
    BY PathFacts
  <1>2. Len(p) = Len(q) /\ \A i \in 1..Len(p) : p[i] = q[i]
    BY <1>1, UnderElements
  <1>. QED
    BY <1>1, <1>2, SeqEqual

\* Two prefixes of one path: the shorter is a prefix of the longer.
LEMMA UnderComparable ==
    ASSUME NEW p \in Path, NEW q \in Path, NEW r \in Path,
           Under(p, q), Under(p, r)
    PROVE  Under(q, r) \/ Under(r, q)
  BY PathFacts, UnderElements

LEMMA RootFacts ==
    /\ Root \in Path
    /\ \A p \in Path : Under(Root, p) => p = Root
  <1>1. Root \in Path
    BY PathAssumption
  <1>. QED
    BY <1>1, PathFacts, UnderAntisymmetric

LEMMA ParentFacts ==
    ASSUME NEW p \in Path, p # Root
    PROVE  /\ Parent(p) \in Path
           /\ StrictlyUnder(p, Parent(p))
           /\ Len(p) \in Nat \ {0}
           /\ Len(Parent(p)) = Len(p) - 1
  <1>1. p \in Seq(Name) /\ Len(p) \in Nat \ {0}
    BY PathFacts, EmptySeq DEF Root
  <1>2. Len(p) - 1 \in 0..Len(p)
    BY <1>1
  <1>3. /\ Parent(p) \in Seq(Name)
        /\ Len(Parent(p)) = Len(p) - 1
        /\ \A i \in 1..Len(p) - 1 : Parent(p)[i] = p[i]
    BY <1>1, <1>2, PrefixFacts DEF Parent
  <1>4. Parent(p) \in Path
    BY <1>2, PathAssumption DEF Parent
  <1>5. Under(p, Parent(p))
    BY <1>1, <1>3, UnderElements
  <1>. QED
    BY <1>1, <1>3, <1>4, <1>5 DEF StrictlyUnder

\* Whatever is strictly above a path is above its parent, or the parent itself.
LEMMA UnderParent ==
    ASSUME NEW p \in Path, NEW q \in Path, StrictlyUnder(p, q)
    PROVE  /\ p # Root
           /\ Under(Parent(p), q)
  <1>1. p # Root
    BY RootFacts DEF StrictlyUnder
  <1>2. /\ p \in Seq(Name) /\ q \in Seq(Name)
        /\ Len(p) \in Nat \ {0} /\ Len(q) \in Nat
        /\ Parent(p) \in Path /\ Parent(p) \in Seq(Name)
        /\ Len(Parent(p)) = Len(p) - 1
        /\ Under(p, Parent(p)) /\ Under(p, q)
    BY <1>1, PathFacts, ParentFacts DEF StrictlyUnder
  <1>3. Len(q) # Len(p)
    <2>1. SUFFICES ASSUME Len(q) = Len(p)
                   PROVE  FALSE
      OBVIOUS
    <2>2. \A i \in 1..Len(p) : p[i] = q[i]
      BY <1>2, <2>1, UnderElements
    <2>3. p = q
      BY <1>2, <2>1, <2>2, SeqEqual
    <2>. QED
      BY <2>3 DEF StrictlyUnder
  <1>4. Len(q) <= Len(p) /\ \A i \in 1..Len(q) : p[i] = q[i]
    BY <1>2, UnderElements
  <1>5. \A i \in 1..Len(p) - 1 : p[i] = Parent(p)[i]
    BY <1>2, UnderElements
  <1>6. Len(q) <= Len(p) - 1
    BY <1>2, <1>3, <1>4
  <1>. QED
    BY <1>1, <1>2, <1>4, <1>5, <1>6, UnderElements

LEMMA StrictlyUnderLength ==
    ASSUME NEW p \in Path, NEW q \in Path, StrictlyUnder(p, q)
    PROVE  Len(q) < Len(p)
  <1>1. p # Root /\ Under(Parent(p), q)
    BY UnderParent
  <1>2. Len(q) <= Len(Parent(p))
    BY <1>1 DEF Under
  <1>. QED
    BY <1>1, <1>2, ParentFacts, PathFacts

\* A path with one more name.
LEMMA AppendFacts ==
    ASSUME NEW p \in Path, NEW n, Append(p, n) \in Path
    PROVE  Append(p, n) # Root /\ Parent(Append(p, n)) = p
  <1>. DEFINE q == Append(p, n)
  <1>1. p \in Seq(Name) /\ Len(p) \in Nat
    BY PathFacts
  <1>2. q \in Seq(Name)
    BY PathAssumption
  <1>3. Len(q) = Len(p) + 1 /\ \A i \in 1..Len(p) : q[i] = p[i]
    BY <1>1
  <1>. HIDE DEF q
  <1>4. q # Root
    BY <1>1, <1>3, EmptySeq DEF Root
  <1>5. Len(p) \in 0..Len(q)
    BY <1>1, <1>3
  <1>6. /\ SubSeq(q, 1, Len(p)) \in Seq(Name)
        /\ Len(SubSeq(q, 1, Len(p))) = Len(p)
        /\ \A i \in 1..Len(p) : SubSeq(q, 1, Len(p))[i] = q[i]
    BY <1>2, <1>5, PrefixFacts
  <1>7. SubSeq(q, 1, Len(p)) = p
    BY <1>1, <1>3, <1>6, SeqEqual
  <1>8. Parent(q) = p
    BY <1>1, <1>3, <1>7 DEF Parent
  <1>. QED
    BY <1>4, <1>8 DEF q

-----------------------------------------------------------------------------
\* What Rebase moves from dst to src, name by name.
LEMMA RebaseElements ==
    ASSUME NEW p \in Seq(Name), NEW dst \in Seq(Name), NEW src \in Seq(Name),
           Under(p, dst)
    PROVE  /\ Rebase(p, dst, src) \in Seq(Name)
           /\ Len(Rebase(p, dst, src)) = Len(src) + Len(p) - Len(dst)
           /\ \A i \in 1..Len(src) : Rebase(p, dst, src)[i] = src[i]
           /\ \A i \in 1..Len(p) - Len(dst) :
                  Rebase(p, dst, src)[Len(src) + i] = p[Len(dst) + i]
  <1>. DEFINE rest == SubSeq(p, Len(dst) + 1, Len(p))
  <1>1. /\ Len(p) \in Nat /\ Len(dst) \in Nat /\ Len(src) \in Nat
        /\ Len(dst) <= Len(p)
    BY LenProperties DEF Under
  <1>2. \A i \in (Len(dst) + 1)..Len(p) : p[i] \in Name
    BY <1>1, ElementOfSeq
  <1>3. /\ rest \in Seq(Name)
        /\ Len(rest) = Len(p) - Len(dst)
        /\ \A i \in 1..Len(p) - Len(dst) : rest[i] = p[Len(dst) + i]
    <2>1. /\ Len(dst) + 1 \in Int /\ Len(p) \in Int
      BY <1>1
    <2>2. /\ rest \in Seq(Name)
          /\ Len(rest) = IF Len(dst) + 1 <= Len(p) THEN Len(p) - (Len(dst) + 1) + 1 ELSE 0
          /\ \A i \in 1..(Len(p) - (Len(dst) + 1) + 1) :
                rest[i] = p[(Len(dst) + 1) + i - 1]
      BY <1>2, <2>1, SubSeqProperties
    <2>. QED
      BY <1>1, <2>2
  <1>4. Rebase(p, dst, src) = src \o rest
    BY DEF Rebase
  <1>. HIDE DEF rest
  <1>5. /\ src \o rest \in Seq(Name)
        /\ Len(src \o rest) = Len(src) + Len(rest)
        /\ \A i \in 1..Len(src) + Len(rest) :
              (src \o rest)[i] = IF i <= Len(src) THEN src[i] ELSE rest[i - Len(src)]
    BY <1>3, ConcatProperties
  <1>. QED
    BY <1>1, <1>3, <1>4, <1>5

\* Rebase takes the paths under dst to the paths under src, and keeps their
\* order.
LEMMA RebaseUnder ==
    ASSUME NEW p \in Seq(Name), NEW q \in Seq(Name),
           NEW dst \in Seq(Name), NEW src \in Seq(Name),
           Under(p, q), Under(q, dst), Under(p, dst)
    PROVE  /\ Under(Rebase(p, dst, src), Rebase(q, dst, src))
           /\ Rebase(p, dst, src) = Rebase(q, dst, src) => p = q
  <1>. DEFINE s == Rebase(p, dst, src)
              t == Rebase(q, dst, src)
  <1>1. /\ Len(p) \in Nat /\ Len(q) \in Nat /\ Len(dst) \in Nat /\ Len(src) \in Nat
        /\ Len(dst) <= Len(q) /\ Len(q) <= Len(p)
        /\ \A i \in 1..Len(q) : p[i] = q[i]
    BY LenProperties, UnderElements DEF Under
  <1>2. /\ s \in Seq(Name)
        /\ Len(s) = Len(src) + Len(p) - Len(dst)
        /\ \A i \in 1..Len(src) : s[i] = src[i]
        /\ \A i \in 1..Len(p) - Len(dst) : s[Len(src) + i] = p[Len(dst) + i]
    BY RebaseElements, ZenonT(60)
  <1>3. /\ t \in Seq(Name)
        /\ Len(t) = Len(src) + Len(q) - Len(dst)
        /\ \A i \in 1..Len(src) : t[i] = src[i]
        /\ \A i \in 1..Len(q) - Len(dst) : t[Len(src) + i] = q[Len(dst) + i]
    BY RebaseElements
  <1>. HIDE DEF s, t
  <1>4. \A i \in 1..Len(t) : s[i] = t[i]
    <2>. SUFFICES ASSUME NEW i \in 1..Len(t)
                  PROVE  s[i] = t[i]
      OBVIOUS
    <2>1. CASE i <= Len(src)
      BY <1>1, <1>2, <1>3, <2>1
    <2>2. CASE i > Len(src)
      <3>. DEFINE j == i - Len(src)
      <3>1. j \in 1..Len(q) - Len(dst) /\ j \in 1..Len(p) - Len(dst)
        BY <1>1, <1>3, <2>2
      <3>2. Len(dst) + j \in 1..Len(q) /\ i = Len(src) + j
        BY <1>1, <1>3, <3>1
      <3>. HIDE DEF j
      <3>3. s[Len(src) + j] = p[Len(dst) + j] /\ t[Len(src) + j] = q[Len(dst) + j]
        BY <1>2, <1>3, <3>1
      <3>. QED
        BY <1>1, <3>2, <3>3
    <2>. QED
      BY <1>1, <1>3, <2>1, <2>2
  <1>5. Under(s, t)
    BY <1>1, <1>2, <1>3, <1>4, UnderElements
  <1>6. ASSUME s = t
        PROVE  p = q
    BY <1>1, <1>2, <1>3, <1>6, SeqEqual
  <1>. QED
    BY <1>5, <1>6 DEF s, t

\* Rebase is undone by Rebase the other way round, and takes src to dst.
LEMMA RebaseInverse ==
    ASSUME NEW p \in Path, NEW src \in Path, NEW dst \in Path, Under(p, src)
    PROVE  /\ Under(Rebase(p, src, dst), dst)
           /\ Rebase(Rebase(p, src, dst), dst, src) = p
  <1>. DEFINE s == Rebase(p, src, dst)
  <1>1. /\ p \in Seq(Name) /\ src \in Seq(Name) /\ dst \in Seq(Name)
        /\ Len(p) \in Nat /\ Len(src) \in Nat /\ Len(dst) \in Nat
        /\ Len(src) <= Len(p) /\ \A i \in 1..Len(src) : p[i] = src[i]
    BY PathFacts, UnderElements
  <1>2. /\ s \in Seq(Name)
        /\ Len(s) = Len(dst) + Len(p) - Len(src)
        /\ \A i \in 1..Len(dst) : s[i] = dst[i]
        /\ \A i \in 1..Len(p) - Len(src) : s[Len(dst) + i] = p[Len(src) + i]
    BY <1>1, RebaseElements
  <1>. HIDE DEF s
  <1>3. Under(s, dst)
    BY <1>1, <1>2, UnderElements
  <1>. DEFINE t == Rebase(s, dst, src)
  <1>4. /\ t \in Seq(Name)
        /\ Len(t) = Len(src) + Len(s) - Len(dst)
        /\ \A i \in 1..Len(src) : t[i] = src[i]
        /\ \A i \in 1..Len(s) - Len(dst) : t[Len(src) + i] = s[Len(dst) + i]
    BY <1>1, <1>2, <1>3, RebaseElements, ZenonT(60)
  <1>. HIDE DEF t
  <1>5. Len(t) = Len(p)
    BY <1>1, <1>2, <1>4
  <1>6. ASSUME NEW i \in 1..Len(p), i > Len(src)
        PROVE  t[i] = p[i]
    <2>. DEFINE j == i - Len(src)
    <2>1. /\ j \in 1..Len(p) - Len(src) /\ j \in 1..Len(s) - Len(dst)
          /\ i = Len(src) + j
      BY <1>1, <1>2, <1>6
    <2>. HIDE DEF j
    <2>. QED
      BY <1>2, <1>4, <2>1
  <1>7. \A i \in 1..Len(p) : t[i] = p[i]
    BY <1>1, <1>4, <1>6
  <1>8. t = p
    BY <1>1, <1>4, <1>5, <1>7, SeqEqual
  <1>. QED
    BY <1>3, <1>8 DEF s, t

LEMMA RebaseSelf ==
    ASSUME NEW src \in Path, NEW dst \in Seq(Name)
    PROVE  Rebase(src, src, dst) = dst
  <1>. DEFINE s == Rebase(src, src, dst)
  <1>1. /\ src \in Seq(Name) /\ dst \in Seq(Name)
        /\ Len(src) \in Nat /\ Len(dst) \in Nat /\ Under(src, src)
    BY PathFacts, LenProperties
  <1>2. /\ s \in Seq(Name)
        /\ Len(s) = Len(dst) + Len(src) - Len(src)
        /\ \A i \in 1..Len(dst) : s[i] = dst[i]
    BY <1>1, RebaseElements
  <1>. HIDE DEF s
  <1>3. Len(s) = Len(dst)
    BY <1>1, <1>2
  <1>4. s = dst
    BY <1>1, <1>2, <1>3, SeqEqual
  <1>. QED
    BY <1>4 DEF s

\* On the way from m down to p there is a child of m.
LEMMA ChildTowards ==
    ASSUME NEW p \in Path, NEW m \in Path, StrictlyUnder(p, m)
    PROVE  \E c \in Path : c # Root /\ Parent(c) = m /\ Under(p, c)
  <1>. DEFINE n == Len(m) + 1
              c == SubSeq(p, 1, n)
  <1>1. /\ p \in Seq(Name) /\ m \in Seq(Name) /\ Len(p) \in Nat /\ Len(m) \in Nat
        /\ Len(m) < Len(p)
    BY PathFacts, StrictlyUnderLength
  <1>2. n \in 0..Len(p) /\ n \in Nat \ {0}
    BY <1>1
  <1>3. c \in Path
    BY <1>2, PathAssumption
  <1>4. c \in Seq(Name) /\ Len(c) = n /\ \A i \in 1..n : c[i] = p[i]
    BY <1>1, <1>2, PrefixFacts
  <1>. HIDE DEF c
  <1>5. Under(p, c)
    BY <1>1, <1>2, <1>4, UnderElements
  <1>6. c # Root
    BY <1>2, <1>4, EmptySeq DEF Root
  <1>7. Under(c, m)
    <2>1. Under(p, m)
      BY DEF StrictlyUnder
    <2>2. \A i \in 1..Len(m) : p[i] = m[i]
      BY <1>1, <2>1, UnderElements
    <2>. QED
      BY <1>1, <1>4, <2>2, UnderElements
  <1>8. Parent(c) = m
    <2>1. Parent(c) = SubSeq(c, 1, Len(m))
      BY <1>1, <1>4 DEF Parent
    <2>. QED
      BY <1>7, <2>1 DEF Under
  <1>. QED
    BY <1>3, <1>5, <1>6, <1>8

\* Where a place below the destination comes from.
LEMMA RebaseFacts ==
    ASSUME NEW src \in Path, NEW to \in Path, NEW q \in Path, Under(q, to),
           Rebase(q, to, src) \in Path
    PROVE  /\ Under(Rebase(q, to, src), src)
           /\ Rebase(Rebase(q, to, src), src, to) = q
           /\ q # to => StrictlyUnder(Rebase(q, to, src), src)
  <1>1. Under(Rebase(q, to, src), src) /\ Rebase(Rebase(q, to, src), src, to) = q
    BY RebaseInverse
  <1>2. to \in Seq(Name)
    BY PathFacts
  <1>3. Rebase(src, src, to) = to
    BY <1>2, RebaseSelf
  <1>. QED
    BY <1>1, <1>3 DEF StrictlyUnder

-----------------------------------------------------------------------------
(* Nodes and trees. *)

LEMMA NodeFacts ==
    /\ Open \in Policy
    /\ NewFile \in Node /\ NewFile.kind = "file"
    /\ NewDir \in Node /\ NewDir.kind = "dir"
    /\ Absent \in Node /\ Absent.kind = "none"
  <1>1. Open \in Policy
    BY DEF Open, Policy
  <1>2. << >> \in Seq(Data) /\ 0 \in Nat
    BY EmptySeq
  <1>. QED
    BY <1>1, <1>2 DEF NewFile, NewDir, Absent, FileNode, Node

LEMMA EmptyTreeFacts ==
    EmptyTree \in Tree /\ WellFormed(EmptyTree)
  <1>1. EmptyTree \in Tree
    BY NodeFacts DEF EmptyTree, Tree
  <1>2. WellFormed(EmptyTree)
    BY NodeFacts, RootFacts, PathFacts
       DEF EmptyTree, WellFormed, Exists, IsDir, StrictlyUnder
  <1>. QED
    BY <1>1, <1>2

\* What stands above a node that is present is a directory.
LEMMA AboveIsDir ==
    ASSUME NEW f \in Tree, WellFormed(f),
           NEW p \in Path, NEW q \in Path, Exists(f, p), Under(p, q),
           p = q => IsDir(f, p)
    PROVE  IsDir(f, q)
  BY DEF WellFormed, StrictlyUnder

-----------------------------------------------------------------------------
LEMMA MakeDirsFacts ==
    ASSUME NEW f \in Tree, NEW p \in Path, WellFormed(f), CanMakeDirs(f, p)
    PROVE  /\ MakeDirs(f, p) \in Tree
           /\ WellFormed(MakeDirs(f, p))
           /\ IsDir(MakeDirs(f, p), p)
           /\ \A q \in Path : IsDir(f, q) => IsDir(MakeDirs(f, p), q)
           /\ \A q \in Path : StrictlyUnder(q, p) => MakeDirs(f, p)[q] = f[q]
  <1>. DEFINE g == MakeDirs(f, p)
  <1>1. g \in Tree
    BY NodeFacts DEF MakeDirs, Tree
  <1>2. \A q \in Path : g[q] = IF Under(p, q) /\ ~Exists(f, q) THEN NewDir ELSE f[q]
    BY DEF MakeDirs
  <1>. HIDE DEF g
  <1>3. \A q \in Path : Under(p, q) => IsDir(g, q)
    BY <1>2, NodeFacts DEF CanMakeDirs, IsFile, Exists, IsDir, Tree, Node
  <1>4. \A q \in Path : IsDir(f, q) => IsDir(g, q)
    BY <1>2 DEF IsDir, Exists
  <1>5. WellFormed(g)
    <2>1. IsDir(g, Root)
      BY <1>3, PathFacts, RootFacts
    <2>2. ASSUME NEW q \in Path, NEW r \in Path, Exists(g, q), StrictlyUnder(q, r)
          PROVE  IsDir(g, r)
      <3>1. CASE Under(p, q)
        BY <1>3, <2>2, <3>1, UnderTransitive DEF StrictlyUnder
      <3>2. CASE ~Under(p, q)
        BY <1>2, <1>4, <2>2, <3>2 DEF WellFormed, Exists
      <3>. QED
        BY <3>1, <3>2
    <2>. QED
      BY <2>1, <2>2 DEF WellFormed
  <1>6. \A q \in Path : StrictlyUnder(q, p) => g[q] = f[q]
    BY <1>2, UnderAntisymmetric DEF StrictlyUnder
  <1>. QED
    BY <1>1, <1>3, <1>4, <1>5, <1>6, PathFacts DEF g

LEMMA EnsureFileFacts ==
    ASSUME NEW f \in Tree, NEW p \in Path, WellFormed(f), CanEnsureFile(f, p)
    PROVE  /\ EnsureFile(f, p) \in Tree
           /\ WellFormed(EnsureFile(f, p))
           /\ IsFile(EnsureFile(f, p), p)
           /\ \A q \in Path : IsDir(f, q) => IsDir(EnsureFile(f, p), q)
  <1>1. CASE IsFile(f, p)
    <2>1. EnsureFile(f, p) = [q \in Path |-> MakeDirs(f, Parent(p))[q]]
      BY <1>1 DEF EnsureFile
    <2>2. p # Root /\ CanMakeDirs(f, Parent(p)) /\ Parent(p) \in Path
      BY ParentFacts DEF CanEnsureFile
    <2>3. /\ MakeDirs(f, Parent(p)) \in Tree
          /\ WellFormed(MakeDirs(f, Parent(p)))
          /\ \A q \in Path : IsDir(f, q) => IsDir(MakeDirs(f, Parent(p)), q)
          /\ MakeDirs(f, Parent(p))[p] = f[p]
      BY <2>2, MakeDirsFacts, ParentFacts
    <2>4. EnsureFile(f, p) = MakeDirs(f, Parent(p))
      BY <2>1, <2>3 DEF Tree
    <2>. QED
      BY <1>1, <2>3, <2>4 DEF IsFile
  <1>2. CASE ~IsFile(f, p)
    <2>. DEFINE made == MakeDirs(f, Parent(p))
                g == EnsureFile(f, p)
    <2>1. /\ p # Root /\ Parent(p) \in Path /\ StrictlyUnder(p, Parent(p))
          /\ CanMakeDirs(f, Parent(p))
          /\ ~IsDir(f, p) /\ ~Exists(f, p)
      BY <1>2, ParentFacts DEF CanEnsureFile, IsFile, IsDir, Exists, Tree, Node
    <2>2. /\ made \in Tree /\ WellFormed(made) /\ IsDir(made, Parent(p))
          /\ \A q \in Path : IsDir(f, q) => IsDir(made, q)
          /\ made[p] = f[p]
      BY <2>1, MakeDirsFacts
    <2>3. \A q \in Path : g[q] = IF q = p THEN NewFile ELSE made[q]
      BY <1>2 DEF EnsureFile
    <2>4. g \in Tree
      <3>1. g = [q \in Path |-> IF q = p THEN NewFile ELSE made[q]]
        BY <1>2 DEF EnsureFile
      <3>. QED
        BY <2>2, <3>1, NodeFacts DEF Tree
    <2>. HIDE DEF g, made
    <2>5. IsFile(g, p)
      BY <2>3, NodeFacts DEF IsFile
    <2>6. \A q \in Path : IsDir(f, q) => IsDir(g, q)
      BY <2>1, <2>2, <2>3 DEF IsDir, Exists
    <2>7. WellFormed(g)
      <3>1. IsDir(g, Root)
        BY <2>6, RootFacts DEF WellFormed
      <3>2. ASSUME NEW q \in Path, NEW r \in Path, Exists(g, q), StrictlyUnder(q, r)
            PROVE  IsDir(g, r)
        <4>1. CASE q = p
          <5>1. Under(Parent(p), r) /\ Exists(made, Parent(p)) /\ IsDir(made, r)
            BY <2>1, <2>2, <3>2, <4>1, UnderParent, AboveIsDir DEF IsDir, Exists
          <5>. QED
            BY <2>3, <3>2, <4>1, <5>1 DEF IsDir, StrictlyUnder
        <4>2. CASE q # p
          <5>1. Exists(made, q) /\ IsDir(made, r)
            BY <2>2, <2>3, <3>2, <4>2 DEF Exists, WellFormed
          <5>2. r # p
            BY <2>1, <2>2, <5>1 DEF IsDir, Exists
          <5>. QED
            BY <2>3, <5>1, <5>2 DEF IsDir
        <4>. QED
          BY <4>1, <4>2
      <3>. QED
        BY <3>1, <3>2 DEF WellFormed
    <2>. QED
      BY <2>4, <2>5, <2>6, <2>7 DEF g
  <1>. QED
    BY <1>1, <1>2

-----------------------------------------------------------------------------
LEMMA DetachFacts ==
    ASSUME NEW f \in Tree, WellFormed(f),
           NEW tops \in SUBSET Path, Root \notin tops
    PROVE  /\ Detach(f, tops) \in Tree
           /\ WellFormed(Detach(f, tops))
           /\ \A q \in Path : (\A t \in tops : ~Under(q, t)) => Detach(f, tops)[q] = f[q]
  <1>. DEFINE g == Detach(f, tops)
  <1>1. g \in Tree
    BY NodeFacts DEF Detach, Tree
  <1>2. \A q \in Path : g[q] = IF \E t \in tops : Under(q, t) THEN Absent ELSE f[q]
    BY DEF Detach
  <1>. HIDE DEF g
  <1>3. IsDir(g, Root)
    BY <1>2, RootFacts DEF WellFormed, IsDir
  <1>4. ASSUME NEW p \in Path, NEW q \in Path, Exists(g, p), StrictlyUnder(p, q)
        PROVE  IsDir(g, q)
    <2>1. Exists(f, p) /\ \A t \in tops : ~Under(p, t)
      BY <1>2, <1>4, NodeFacts DEF Exists
    <2>2. IsDir(f, q) /\ \A t \in tops : ~Under(q, t)
      BY <1>4, <2>1, UnderTransitive DEF WellFormed, StrictlyUnder
    <2>. QED
      BY <1>2, <2>2 DEF IsDir
  <1>. QED
    BY <1>1, <1>2, <1>3, <1>4 DEF WellFormed, g

LEMMA CloneFacts ==
    ASSUME NEW f \in Tree, WellFormed(f)
    PROVE  Clone(f) \in Tree /\ WellFormed(Clone(f))
  <1>1. \A q \in Path : /\ [f[q] EXCEPT !.version = 0] \in Node
                         /\ [f[q] EXCEPT !.version = 0].kind = f[q].kind
    BY DEF Tree, Node
  <1>2. Clone(f) \in Tree
    BY <1>1 DEF Clone, Tree
  <1>3. \A q \in Path : Clone(f)[q].kind = f[q].kind
    BY <1>1 DEF Clone
  <1>. QED
    BY <1>2, <1>3 DEF WellFormed, IsDir, Exists

LEMMA WithPolicyFacts ==
    ASSUME NEW f \in Tree, WellFormed(f), NEW p \in Path, NEW policy \in Policy
    PROVE  /\ WithPolicy(f, p, policy) \in Tree
           /\ WellFormed(WithPolicy(f, p, policy))
           /\ \A q \in Path : WithPolicy(f, p, policy)[q].kind = f[q].kind
  <1>1. /\ [f[p] EXCEPT !.policy = policy] \in Node
        /\ [f[p] EXCEPT !.policy = policy].kind = f[p].kind
    BY DEF Tree, Node
  <1>2. WithPolicy(f, p, policy) \in Tree
    BY <1>1 DEF WithPolicy, Tree
  <1>3. \A q \in Path : WithPolicy(f, p, policy)[q].kind = f[q].kind
    BY <1>1 DEF WithPolicy, Tree
  <1>. QED
    BY <1>2, <1>3 DEF WellFormed, IsDir, Exists

\* A subtree of a well-formed tree, put below a directory.
LEMMA GraftFacts ==
    ASSUME NEW f \in Tree, WellFormed(f), NEW g \in Tree, WellFormed(g),
           NEW src \in Path, NEW dst \in Path, dst # Root, IsDir(f, Parent(dst))
    PROVE  /\ Graft(f, g, src, dst) \in Tree
           /\ WellFormed(Graft(f, g, src, dst))
           /\ \A q \in Path : ~Under(q, dst) => Graft(f, g, src, dst)[q] = f[q]
           /\ \A q \in Path : Under(q, dst) /\ Rebase(q, dst, src) \in Path =>
                  Graft(f, g, src, dst)[q] = g[Rebase(q, dst, src)]
  <1>. DEFINE h == Graft(f, g, src, dst)
  <1>1. h \in Tree
    BY NodeFacts DEF Graft, Tree
  <1>2. \A q \in Path : ~Under(q, dst) => h[q] = f[q]
    BY DEF Graft
  <1>3. \A q \in Path : Under(q, dst) =>
           h[q] = IF Rebase(q, dst, src) \in Path THEN g[Rebase(q, dst, src)] ELSE Absent
    BY DEF Graft
  <1>. HIDE DEF h
  <1>4. IsDir(h, Root)
    BY <1>2, RootFacts DEF WellFormed, IsDir
  <1>5. ASSUME NEW p \in Path, NEW q \in Path, Exists(h, p), StrictlyUnder(p, q)
        PROVE  IsDir(h, q)
    <2>1. CASE ~Under(p, dst)
      <3>1. ~Under(q, dst)
        BY <1>5, <2>1, UnderTransitive DEF StrictlyUnder
      <3>. QED
        BY <1>2, <1>5, <2>1, <3>1 DEF WellFormed, Exists, IsDir
    <2>2. CASE Under(p, dst) /\ ~Under(q, dst)
      <3>1. StrictlyUnder(dst, q)
        BY <1>5, <2>2, UnderComparable, PathFacts DEF StrictlyUnder
      <3>2. Under(Parent(dst), q) /\ Parent(dst) \in Path
        BY <3>1, UnderParent, ParentFacts
      <3>3. IsDir(f, q)
        BY <3>2, AboveIsDir DEF IsDir, Exists
      <3>. QED
        BY <1>2, <2>2, <3>3 DEF IsDir
    <2>3. CASE Under(p, dst) /\ Under(q, dst)
      <3>. DEFINE s == Rebase(p, dst, src)
                  t == Rebase(q, dst, src)
      <3>1. s \in Path /\ Exists(g, s)
        BY <1>3, <1>5, <2>3, NodeFacts DEF Exists
      <3>2. Under(s, t) /\ (s = t => p = q) /\ t \in Seq(Name)
        <4>1. p \in Seq(Name) /\ q \in Seq(Name) /\ dst \in Seq(Name) /\ src \in Seq(Name)
          BY PathFacts
        <4>. QED
          BY <1>5, <2>3, <4>1, RebaseUnder, RebaseElements DEF StrictlyUnder
      <3>. HIDE DEF s, t
      <3>3. t \in Path
        <4>1. t = SubSeq(s, 1, Len(t)) /\ Len(t) \in 0..Len(s)
          BY <3>1, <3>2, PathFacts, LenProperties DEF Under
        <4>. QED
          BY <3>1, <4>1, PathAssumption
      <3>4. IsDir(g, t)
        BY <1>5, <3>1, <3>2, <3>3 DEF WellFormed, StrictlyUnder
      <3>. QED
        BY <1>3, <2>3, <3>3, <3>4 DEF IsDir, t
    <2>. QED
      BY <2>1, <2>2, <2>3
  <1>. QED
    BY <1>1, <1>2, <1>3, <1>4, <1>5 DEF WellFormed, h

\* Wherever move or copy put a node, the directory is its parent.
LEMMA DestinationFacts ==
    ASSUME NEW f \in Tree, NEW src \in Path, NEW dst \in Path,
           WellFormed(f), src # Root,
           IsDir(f, DestinationDir(f, dst)), Destination(f, src, dst) \in Path
    PROVE  /\ Destination(f, src, dst) # Root
           /\ Parent(Destination(f, src, dst)) = DestinationDir(f, dst)
  <1>1. CASE IsDir(f, dst)
    BY <1>1, AppendFacts DEF Destination, DestinationDir
  <1>2. CASE ~IsDir(f, dst)
    BY <1>2 DEF Destination, DestinationDir, WellFormed
  <1>. QED
    BY <1>1, <1>2

-----------------------------------------------------------------------------
\* The subtrees that a removal takes out lie side by side.
LEMMA RemovalFacts ==
    ASSUME NEW f \in Tree, NEW p \in Path, p # Root,
           NEW tops \in RemovalOutcomes(f, p)
    PROVE  /\ tops \in SUBSET Path
           /\ Root \notin tops
           /\ \A t, u \in tops : ~StrictlyUnder(t, u)
  <1>1. CASE tops = {p}
    BY <1>1 DEF StrictlyUnder
  <1>2. ASSUME NEW b \in Stops(f, p), tops \in SUBSET FinishedBefore(f, p, b)
        PROVE  /\ tops \in SUBSET Path
               /\ Root \notin tops
               /\ \A t, u \in tops : ~StrictlyUnder(t, u)
    <2>1. tops \in SUBSET Path
      BY <1>2 DEF FinishedBefore, Subtree
    <2>2. Root \notin tops
      BY <1>2, RootFacts DEF FinishedBefore, Subtree
    <2>3. ASSUME NEW t \in tops, NEW u \in tops, StrictlyUnder(t, u)
          PROVE  FALSE
      <3>1. /\ t \in Path /\ u \in Path /\ b \in Path
            /\ Under(b, Parent(t)) /\ ~Under(b, u)
        BY <1>2 DEF FinishedBefore, Subtree, StrictlyUnder, Stops
      <3>2. t # Root /\ Under(Parent(t), u) /\ Parent(t) \in Path
        BY <2>3, <3>1, UnderParent, ParentFacts
      <3>. QED
        BY <3>1, <3>2, UnderTransitive
    <2>. QED
      BY <2>1, <2>2, <2>3
  <1>3. CASE Stops(f, p) = {}
    BY <1>1, <1>3 DEF RemovalOutcomes
  <1>4. CASE Stops(f, p) # {}
    <2>1. tops \in UNION {SUBSET FinishedBefore(f, p, b) : b \in Stops(f, p)}
      BY <1>4 DEF RemovalOutcomes
    <2>. QED
      BY <1>2, <2>1
  <1>. QED
    BY <1>3, <1>4

LEMMA LoadableFacts ==
    ASSUME NEW f \in Tree, WellFormed(f), NEW m \in Path, IsDir(f, m),
           NEW store \in Store, NEW E \in SUBSET Entries(store), Loadable(m, E)
    PROVE  /\ Load(f, m, E, store) \in Tree
           /\ WellFormed(Load(f, m, E, store))
           /\ \A q \in Path : ~StrictlyUnder(q, m) => Load(f, m, E, store)[q] = f[q]
  <1>. DEFINE g == Load(f, m, E, store)
  <1>1. E \subseteq Path /\ \A p, q \in E : ~StrictlyUnder(p, q)
    BY DEF Loadable, Entries
  <1>2. \A q \in E : /\ FileNode(store[q].content, store[q].version) \in Node
                      /\ FileNode(store[q].content, store[q].version).kind = "file"
    BY <1>1, NodeFacts DEF FileNode, Node, Store, Entry
  <1>3. g \in Tree
    BY <1>2, NodeFacts DEF Load, Tree
  <1>4. \A q \in Path :
          /\ ~StrictlyUnder(q, m) => g[q] = f[q]
          /\ StrictlyUnder(q, m) /\ q \in E =>
                g[q] = FileNode(store[q].content, store[q].version)
          /\ StrictlyUnder(q, m) /\ q \notin E =>
                g[q] = IF \E p \in E : StrictlyUnder(p, q) THEN NewDir ELSE Absent
    BY DEF Load
  <1>. HIDE DEF g
  <1>5. IsDir(g, Root)
    BY <1>4, RootFacts DEF WellFormed, IsDir, StrictlyUnder
  <1>6. ASSUME NEW p \in Path, NEW q \in Path, Exists(g, p), StrictlyUnder(p, q)
        PROVE  IsDir(g, q)
    <2>1. CASE ~StrictlyUnder(p, m)
      <3>1. ~StrictlyUnder(q, m)
        BY <1>6, <2>1, UnderTransitive, UnderAntisymmetric DEF StrictlyUnder
      <3>. QED
        BY <1>4, <1>6, <2>1, <3>1 DEF WellFormed, Exists, IsDir
    <2>2. CASE StrictlyUnder(p, m) /\ ~StrictlyUnder(q, m)
      <3>1. Under(m, q)
        BY <1>6, <2>2, UnderComparable, PathFacts DEF StrictlyUnder
      <3>2. IsDir(f, q)
        BY <3>1, AboveIsDir DEF IsDir, Exists
      <3>. QED
        BY <1>4, <2>2, <3>2 DEF IsDir
    <2>3. CASE StrictlyUnder(p, m) /\ StrictlyUnder(q, m)
      <3>1. PICK e \in E : e = p \/ StrictlyUnder(e, p)
        BY <1>4, <1>6, <2>3, NodeFacts DEF Exists
      <3>2. StrictlyUnder(e, q)
        BY <1>1, <1>6, <3>1, UnderTransitive, UnderAntisymmetric DEF StrictlyUnder
      <3>3. q \notin E
        BY <1>1, <3>2
      <3>4. g[q] = NewDir
        BY <1>4, <2>3, <3>2, <3>3
      <3>. QED
        BY <3>4, NodeFacts DEF IsDir
    <2>. QED
      BY <2>1, <2>2, <2>3
  <1>. QED
    BY <1>3, <1>4, <1>5, <1>6 DEF WellFormed, g

LEMMA LoadFacts ==
    ASSUME NEW f \in Tree, WellFormed(f), NEW m \in Path, IsDir(f, m),
           NEW store \in Store, NEW E \in LoadOutcomes(m, Entries(store))
    PROVE  /\ Load(f, m, E, store) \in Tree
           /\ WellFormed(Load(f, m, E, store))
           /\ \A q \in Path : ~StrictlyUnder(q, m) => Load(f, m, E, store)[q] = f[q]
  BY LoadableFacts DEF LoadOutcomes

\* What can be on the way when a restore is through with what is less deep.
Restored(g, T) ==
    /\ T \in SUBSET Subtree(g, Root)
    /\ Root \in T
    /\ \A p \in T, q \in Subtree(g, Root) : Len(q) < Len(p) => q \in T

\* Such a part of a tree is a tree, with every node's directories.
\* Such a part of a tree is a tree, with every node's directories.
LEMMA RestoredFacts ==
    ASSUME NEW g \in Tree, WellFormed(g), NEW T, Restored(g, T)
    PROVE  LET f == RestoreTree(g, T)
           IN  /\ f \in Tree /\ WellFormed(f)
               /\ \A q \in Path : f[q] = IF q \in T THEN g[q] ELSE Absent
               /\ \A q \in Path : Exists(f, q) <=> q \in T
  <1>. DEFINE all == Subtree(g, Root)
              h == RestoreTree(g, T)
  <1>1. /\ T \subseteq all
        /\ Root \in T
        /\ \A p \in T, q \in all : Len(q) < Len(p) => q \in T
    BY DEF Restored
  <1>2. \A p \in all : p \in Path /\ Exists(g, p)
    BY DEF Subtree
  <1>3. h \in Tree
    BY NodeFacts DEF RestoreTree, Tree
  <1>4. \A p \in Path : h[p] = IF p \in T THEN g[p] ELSE Absent
    BY DEF RestoreTree
  <1>. HIDE DEF h, all
  <1>5. \A p \in Path : Exists(h, p) <=> p \in T
    BY <1>1, <1>2, <1>4, NodeFacts DEF Exists
  <1>6. IsDir(h, Root)
    BY <1>1, <1>4, RootFacts DEF WellFormed, IsDir
  <1>7. ASSUME NEW p \in Path, NEW q \in Path, Exists(h, p), StrictlyUnder(p, q)
        PROVE  IsDir(h, q)
    <2>1. p \in T /\ Exists(g, p)
      BY <1>1, <1>2, <1>5, <1>7
    <2>2. IsDir(g, q)
      BY <1>7, <2>1 DEF WellFormed
    <2>3. q \in all
      BY <2>2, PathFacts DEF all, Subtree, IsDir, Exists
    <2>4. q \in T
      BY <1>1, <1>7, <2>1, <2>3, StrictlyUnderLength
    <2>. QED
      BY <1>4, <2>2, <2>4 DEF IsDir
  <1>8. WellFormed(h)
    BY <1>6, <1>7 DEF WellFormed
  <1>. QED
    BY <1>3, <1>4, <1>5, <1>8 DEF h

\* What a restore has made when it ends holds, with a node, what is above it.
LEMMA RestoreFacts ==
    ASSUME NEW g \in Tree, WellFormed(g), NEW T \in RestoreOutcomes(g)
    PROVE  RestoreTree(g, T) \in Tree /\ WellFormed(RestoreTree(g, T))
  <1>. DEFINE all == Subtree(g, Root)
  <1>1. /\ T \subseteq all
        /\ Root \in T
        /\ \A p \in T, q \in all : Len(q) < Len(p) => q \in T
    <2>1. Root \in all
      BY RootFacts, PathFacts DEF WellFormed, Subtree, IsDir, Exists
    <2>2. CASE T = all
      BY <2>1, <2>2
    <2>3. ASSUME NEW b \in RestoreStops(g),
                 NEW Q \in SUBSET Beside(g, b),
                 T = MadeBefore(g, b) \cup MadeBeside(g, b, Q)
          PROVE  /\ T \subseteq all
                 /\ Root \in T
                 /\ \A p \in T, q \in all : Len(q) < Len(p) => q \in T
      <3>1. b \in Path /\ b # Root /\ Len(b) \in Nat \ {0} /\ Len(Root) = 0
        BY ParentFacts, EmptySeq DEF RestoreStops, Unrestorable, Root
      <3>2. \A p \in all : Len(p) \in Nat
        BY PathFacts DEF Subtree
      <3>. QED
        BY <2>1, <2>3, <3>1, <3>2 DEF MadeBefore, MadeBeside
    <2>4. CASE Unrestorable(g) = {}
      BY <2>2, <2>4 DEF RestoreOutcomes
    <2>5. CASE Unrestorable(g) # {}
      <3>1. T \in UNION {{MadeBefore(g, b) \cup MadeBeside(g, b, Q) : Q \in SUBSET Beside(g, b)} :
                            b \in RestoreStops(g)}
        BY <2>5 DEF RestoreOutcomes
      <3>2. \E b \in RestoreStops(g) :
                T \in {MadeBefore(g, b) \cup MadeBeside(g, b, Q) : Q \in SUBSET Beside(g, b)}
        BY <3>1
      <3>. QED
        BY <3>2, <2>3
    <2>. QED
      BY <2>4, <2>5
  <1>. QED
    BY <1>1, RestoredFacts DEF Restored

-----------------------------------------------------------------------------
(* What stays as it was. *)

LEMMA BelowAFile ==
    ASSUME NEW f \in Tree, WellFormed(f), NEW p \in Path, NEW q \in Path,
           ~IsDir(f, q), StrictlyUnder(p, q)
    PROVE  ~Exists(f, p)
  BY DEF WellFormed

LEMMA BelowNothing ==
    ASSUME NEW f \in Tree, WellFormed(f), NEW p \in Path, NEW q \in Path,
           ~Exists(f, q), Under(p, q)
    PROVE  ~Exists(f, p)
  BY DEF WellFormed, StrictlyUnder, IsDir, Exists

\* What a file's creation does to the files: they stay, and p may be a new one.
LEMMA EnsureFileFiles ==
    ASSUME NEW f \in Tree, WellFormed(f), NEW p \in Path, CanEnsureFile(f, p)
    PROVE  /\ \A q \in Path : Exists(f, q) => EnsureFile(f, p)[q] = f[q]
           /\ \A q \in Path : IsFile(f, q) => EnsureFile(f, p)[q] = f[q]
           /\ \A q \in Path \ {p} : IsFile(EnsureFile(f, p), q) => IsFile(f, q)
           /\ ~IsFile(f, p) => EnsureFile(f, p)[p] = NewFile
  <1>1. ASSUME NEW q \in Path
        PROVE  EnsureFile(f, p)[q] =
                 IF q = p /\ ~IsFile(f, p) THEN NewFile
                 ELSE IF Under(Parent(p), q) /\ ~Exists(f, q) THEN NewDir ELSE f[q]
    BY DEF EnsureFile, MakeDirs
  <1>2. NewDir.kind = "dir"
    BY NodeFacts
  <1>3. Exists(f, p) => IsFile(f, p)
    BY DEF CanEnsureFile, Exists, IsDir, IsFile, Tree, Node
  <1>. QED
    BY <1>1, <1>2, <1>3 DEF IsFile, Exists

\* Nothing is left where there is no node.
Bare(f) == \A p \in Path : ~Exists(f, p) => f[p] = Absent

LEMMA BareOperators ==
    ASSUME NEW f \in Tree, Bare(f)
    PROVE  /\ \A p : Bare(MakeDirs(f, p))
           /\ \A p : Bare(EnsureFile(f, p))
           /\ \A p \in Path, node \in Node : node.kind # "none" => Bare([f EXCEPT ![p] = node])
           /\ \A tops : Bare(Detach(f, tops))
           /\ Bare(Clone(f))
           /\ \A m, E, st : Bare(Load(f, m, E, st))
           /\ \A T : Bare(RestoreTree(f, T))
  <1>1. NewDir.kind = "dir" /\ NewFile.kind = "file"
    BY NodeFacts
  <1>2. \A p : Bare(MakeDirs(f, p))
    BY <1>1 DEF Bare, MakeDirs, Exists
  <1>3. \A p : Bare(EnsureFile(f, p))
    <2>1. SUFFICES ASSUME NEW p, NEW q \in Path, ~Exists(EnsureFile(f, p), q)
                   PROVE  EnsureFile(f, p)[q] = Absent
      BY DEF Bare
    <2>2. EnsureFile(f, p)[q] =
            IF q = p /\ ~IsFile(f, p) THEN NewFile ELSE MakeDirs(f, Parent(p))[q]
      BY DEF EnsureFile
    <2>. QED
      BY <1>1, <1>2, <2>1, <2>2 DEF Bare, Exists
  <1>4. \A p \in Path, node \in Node : node.kind # "none" => Bare([f EXCEPT ![p] = node])
    BY DEF Bare, Exists, Tree
  <1>5. \A tops : Bare(Detach(f, tops))
    BY DEF Bare, Detach, Exists
  <1>6. Bare(Clone(f))
    <2>1. ASSUME NEW q \in Path, ~Exists(Clone(f), q)
          PROVE  Clone(f)[q] = Absent
      <3>1. Clone(f)[q] = [f[q] EXCEPT !.version = 0]
        BY DEF Clone
      <3>2. f[q] = Absent
        BY <2>1, <3>1 DEF Bare, Exists, Tree, Node
      <3>. QED
        BY <3>1, <3>2 DEF Absent, NewFile, FileNode
    <2>. QED
      BY <2>1 DEF Bare
  <1>7. \A m, E, st : Bare(Load(f, m, E, st))
    <2>1. \A content, version : FileNode(content, version).kind = "file"
      BY DEF FileNode
    <2>. QED
      BY <1>1, <2>1 DEF Bare, Load, Exists
  <1>8. \A T : Bare(RestoreTree(f, T))
    BY DEF Bare, RestoreTree, Exists
  <1>. QED
    BY <1>2, <1>3, <1>4, <1>5, <1>6, <1>7, <1>8

LEMMA BareGraft ==
    ASSUME NEW f \in Tree, NEW g \in Tree, Bare(f), Bare(g), NEW src, NEW to
    PROVE  Bare(Graft(f, g, src, to))
  <1>1. ASSUME NEW q \in Path
        PROVE  \/ Graft(f, g, src, to)[q] = Absent
               \/ Graft(f, g, src, to)[q] = f[q]
               \/ \E s \in Path : Graft(f, g, src, to)[q] = g[s]
    BY DEF Graft
  <1>. QED
    BY <1>1 DEF Bare, Exists

\* Where a protected node stands, the tree below a subtree that holds one has a
\* topmost one, which stops a removal.
LEMMA RemovalStops ==
    ASSUME NEW f \in Tree, NEW p \in Path, NEW b \in Path,
           Under(b, p), Protected(f, b)
    PROVE  Stops(f, p) # {}
  <1>. DEFINE bad == {q \in Path : Under(q, p) /\ Protected(f, q)}
              lengths == {Len(q) : q \in bad}
  <1>1. \A q \in bad : q \in Path /\ Len(q) \in Nat
    BY PathFacts
  <1>2. lengths \in SUBSET Nat /\ lengths # {}
    BY <1>1
  <1>3. PICK n \in lengths : \A k \in lengths : n <= k
    BY <1>2, LeastElement
  <1>4. PICK t \in bad : n = Len(t)
    BY <1>3
  <1>5. ASSUME NEW q \in Path, Under(q, p), StrictlyUnder(t, q), Protected(f, q)
        PROVE  FALSE
    <2>1. q \in bad
      BY <1>5
    <2>2. Len(t) <= Len(q)
      BY <1>3, <1>4, <2>1
    <2>3. Len(q) < Len(t)
      BY <1>1, <1>5, StrictlyUnderLength
    <2>. QED
      BY <1>1, <2>1, <2>2, <2>3
  <1>6. t \in Stops(f, p)
    BY <1>4, <1>5 DEF Stops, Subtree, Protected
  <1>. QED
    BY <1>6

\* A removal, also one that stops half way, takes no protected node out.
LEMMA RemovalSpares ==
    ASSUME NEW f \in Tree, NEW p \in Path, NEW tops \in RemovalOutcomes(f, p),
           NEW b \in Path, Protected(f, b), NEW t \in tops
    PROVE  ~Under(b, t)
  <1>1. Exists(f, b)
    BY DEF Protected
  <1>2. CASE tops = {p}
    <2>1. CASE Stops(f, p) = {}
      BY <1>2, <2>1, RemovalStops
    <2>2. ASSUME NEW s \in Stops(f, p), tops \in SUBSET FinishedBefore(f, p, s)
          PROVE  FALSE
      BY <1>2, <2>2 DEF FinishedBefore
    <2>. QED
      BY <2>1, <2>2 DEF RemovalOutcomes
  <1>3. ASSUME NEW s \in Stops(f, p), tops \in SUBSET FinishedBefore(f, p, s)
        PROVE  ~Under(b, t)
    BY <1>1, <1>3 DEF FinishedBefore, Subtree
  <1>. QED
    BY <1>2, <1>3 DEF RemovalOutcomes

-----------------------------------------------------------------------------
(* Loops: what holds after every turn holds at the end. *)

\* after says where a loop is after each of its first n turns.
Turns(after, f, S, order, call, n) ==
    after = [i \in 0..n |->
                IF i = 0 THEN Done(f) ELSE Continue(after[i - 1], S, order[i], call)]

\* What the turns of a loop are, one after another.
LEMMA TurnFacts ==
    ASSUME NEW after, NEW f, NEW S, NEW order, NEW call, NEW n \in Nat,
           Turns(after, f, S, order, call, n)
    PROVE  /\ after[0] = Done(f)
           /\ \A i \in 1..n : after[i] = Continue(after[i - 1], S, order[i], call)
  <1>1. \A i \in 0..n : after[i] = IF i = 0 THEN Done(f)
                                   ELSE Continue(after[i - 1], S, order[i], call)
    BY DEF Turns
  <1>. QED
    BY <1>1

\* The turns of a loop are defined by recursion: they exist.
LEMMA TurnsExist ==
    ASSUME NEW f, NEW S, NEW order, NEW call, NEW n \in Nat
    PROVE  \E after : Turns(after, f, S, order, call, n)
  <1>. DEFINE missing == {k \in Nat : ~\E after : Turns(after, f, S, order, call, k)}
  <1>1. ASSUME NEW m \in missing, \A k \in missing : m <= k
        PROVE  FALSE
    <2>1. m \in Nat
      OBVIOUS
    <2>2. CASE m = 0
      <3>. DEFINE after == [i \in 0..0 |-> Done(f)]
      <3>1. \A i \in 0..0 : i = 0
        OBVIOUS
      <3>2. after = [i \in 0..0 |-> IF i = 0 THEN Done(f)
                                    ELSE Continue(after[i - 1], S, order[i], call)]
        BY <3>1
      <3>. HIDE DEF after
      <3>. QED
        BY <2>2, <3>2 DEF Turns
    <2>3. CASE m # 0
      <3>1. m - 1 \in Nat /\ ~(m <= m - 1)
        BY <2>1, <2>3
      <3>2. PICK before : Turns(before, f, S, order, call, m - 1)
        BY <1>1, <3>1
      <3>. DEFINE last == Continue(before[m - 1], S, order[m], call)
                  after == [i \in 0..m |-> IF i = m THEN last ELSE before[i]]
      <3>3. ASSUME NEW i \in 0..m
            PROVE  after[i] = IF i = 0 THEN Done(f)
                              ELSE Continue(after[i - 1], S, order[i], call)
        <4>1. CASE i = m
          <5>1. i # 0 /\ i - 1 \in 0..m /\ i - 1 # m
            BY <2>1, <2>3, <4>1
          <5>. QED
            BY <4>1, <5>1
        <4>2. CASE i # m
          <5>1. i \in 0..(m - 1) /\ (i # 0 => i - 1 \in 0..m /\ i - 1 # m)
            BY <2>1, <4>2
          <5>2. before[i] = IF i = 0 THEN Done(f)
                            ELSE Continue(before[i - 1], S, order[i], call)
            BY <3>2, <5>1 DEF Turns
          <5>. HIDE DEF last
          <5>. QED
            BY <4>2, <5>1, <5>2
        <4>. QED
          BY <4>1, <4>2
      <3>4. after = [i \in 0..m |-> IF i = 0 THEN Done(f)
                                    ELSE Continue(after[i - 1], S, order[i], call)]
        BY <3>3
      <3>. HIDE DEF after
      <3>. QED
        BY <3>4 DEF Turns
    <2>. QED
      BY <2>2, <2>3
  <1>2. missing = {}
    BY <1>1, LeastElement
  <1>. QED
    BY <1>2

\* A loop ends where its last turn leads.
LEMMA LoopIs ==
    ASSUME NEW f, NEW S, NEW order, Len(order) \in Nat, NEW call
    PROVE  \E after : /\ Turns(after, f, S, order, call, Len(order))
                      /\ Loop(f, S, order, call) = after[Len(order)]
  <1>. DEFINE after == CHOOSE after : after =
                  [i \in 0..Len(order) |->
                      IF i = 0 THEN Done(f) ELSE Continue(after[i - 1], S, order[i], call)]
  <1>1. Loop(f, S, order, call) = after[Len(order)]
    BY DEF Loop
  <1>2. PICK g : Turns(g, f, S, order, call, Len(order))
    BY TurnsExist
  <1>3. g = [i \in 0..Len(order) |->
                IF i = 0 THEN Done(f) ELSE Continue(g[i - 1], S, order[i], call)]
    BY <1>2 DEF Turns
  <1>4. after = [i \in 0..Len(order) |->
                    IF i = 0 THEN Done(f) ELSE Continue(after[i - 1], S, order[i], call)]
    BY <1>3
  <1>5. Turns(after, f, S, order, call, Len(order))
    BY <1>4 DEF Turns
  <1>. QED
    BY <1>1, <1>5

\* Induction over the turns of a loop.
LEMMA LoopInvariant ==
    ASSUME NEW f, NEW S, NEW order, Len(order) \in Nat, NEW call, NEW inv,
           Done(f) \in inv[0],
           \A i \in 1..Len(order) : \A done \in inv[i - 1] :
               Continue(done, S, order[i], call) \in inv[i]
    PROVE  Loop(f, S, order, call) \in inv[Len(order)]
  <1>1. PICK after : /\ Turns(after, f, S, order, call, Len(order))
                     /\ Loop(f, S, order, call) = after[Len(order)]
    BY LoopIs
  <1>2. PICK n \in Nat : n = Len(order)
    OBVIOUS
  <1>3. /\ after[0] = Done(f)
        /\ \A i \in 1..n : after[i] = Continue(after[i - 1], S, order[i], call)
    BY <1>1, <1>2, TurnFacts
  <1>. DEFINE wrong == {k \in 0..n : after[k] \notin inv[k]}
  <1>4. ASSUME NEW m \in wrong, \A k \in wrong : m <= k
        PROVE  FALSE
    <2>1. m \in 0..n /\ m # 0
      BY <1>3
    <2>2. m - 1 \in 0..n /\ ~(m <= m - 1) /\ m \in 1..n
      BY <2>1
    <2>3. after[m - 1] \in inv[m - 1]
      BY <1>4, <2>2
    <2>4. Continue(after[m - 1], S, order[m], call) \in inv[m]
      BY <1>2, <2>2, <2>3
    <2>. QED
      BY <1>3, <2>2, <2>4
  <1>5. wrong \in SUBSET Nat
    OBVIOUS
  <1>6. wrong = {}
    BY <1>4, <1>5, LeastElement
  <1>7. n \in 0..n
    BY <1>2
  <1>. QED
    BY <1>1, <1>2, <1>6, <1>7

-----------------------------------------------------------------------------
(* The calls that make directories and files. *)

\* The prefixes of a path, by their length.
LEMMA PrefixPath ==
    ASSUME NEW p \in Path, NEW n \in 0..Len(p)
    PROVE  /\ SubSeq(p, 1, n) \in Path
           /\ Len(SubSeq(p, 1, n)) = n
           /\ Under(p, SubSeq(p, 1, n))
           /\ n # 0 => /\ SubSeq(p, 1, n) # Root
                       /\ Parent(SubSeq(p, 1, n)) = SubSeq(p, 1, n - 1)
  <1>. DEFINE q == SubSeq(p, 1, n)
  <1>1. p \in Seq(Name) /\ Len(p) \in Nat
    BY PathFacts
  <1>2. q \in Path
    BY PathAssumption
  <1>3. Len(q) = n /\ \A i \in 1..n : q[i] = p[i]
    BY <1>1, PrefixFacts
  <1>. HIDE DEF q
  <1>4. q \in Seq(Name)
    BY <1>2, PathFacts
  <1>5. Under(p, q)
    BY <1>1, <1>3, <1>4, UnderElements
  <1>6. ASSUME n # 0
        PROVE  q # Root /\ Parent(q) = SubSeq(p, 1, n - 1)
    <2>1. q # Root
      BY <1>3, <1>6, EmptySeq DEF Root
    <2>2. n - 1 \in 0..Len(p) /\ n - 1 \in 0..Len(q)
      BY <1>1, <1>3, <1>6
    <2>3. /\ SubSeq(p, 1, n - 1) \in Seq(Name)
          /\ Len(SubSeq(p, 1, n - 1)) = n - 1
          /\ \A i \in 1..n - 1 : SubSeq(p, 1, n - 1)[i] = p[i]
      BY <1>1, <2>2, PrefixFacts
    <2>4. /\ SubSeq(q, 1, n - 1) \in Seq(Name)
          /\ Len(SubSeq(q, 1, n - 1)) = n - 1
          /\ \A i \in 1..n - 1 : SubSeq(q, 1, n - 1)[i] = q[i]
      BY <1>4, <2>2, PrefixFacts
    <2>5. SubSeq(q, 1, n - 1) = SubSeq(p, 1, n - 1)
      BY <1>3, <2>2, <2>3, <2>4, SeqEqual
    <2>. QED
      BY <1>3, <2>1, <2>5 DEF Parent
  <1>. QED
    BY <1>2, <1>3, <1>5, <1>6 DEF q

\* One more directory on the way.
LEMMA MakeDirsStep ==
    ASSUME NEW f \in Tree, WellFormed(f), NEW q \in Path, q # Root,
           CanMakeDirs(f, Parent(q))
    PROVE  LET g == MakeDirs(f, Parent(q))
           IN  /\ g \in Tree
               /\ g[q] = f[q]
               /\ Exists(f, q) => g = f
               /\ IsDir(f, q) => MakeDirs(f, q) = g
               /\ ~Exists(f, q) => MakeDirs(f, q) = [g EXCEPT ![q] = NewDir]
  <1>. DEFINE g == MakeDirs(f, Parent(q))
  <1>1. Parent(q) \in Path /\ StrictlyUnder(q, Parent(q))
    BY ParentFacts
  <1>2. g \in Tree /\ g[q] = f[q]
    BY <1>1, MakeDirsFacts
  <1>3. \A r \in Path : Under(q, r) <=> r = q \/ Under(Parent(q), r)
    <2>1. ASSUME NEW r \in Path, Under(q, r)
          PROVE  r = q \/ Under(Parent(q), r)
      BY <2>1, UnderParent DEF StrictlyUnder
    <2>2. ASSUME NEW r \in Path, r = q \/ Under(Parent(q), r)
          PROVE  Under(q, r)
      BY <1>1, <2>2, PathFacts, UnderTransitive DEF StrictlyUnder
    <2>. QED
      BY <2>1, <2>2
  <1>4. \A r \in Path : g[r] = IF Under(Parent(q), r) /\ ~Exists(f, r) THEN NewDir ELSE f[r]
    BY DEF MakeDirs
  <1>5. \A r \in Path : MakeDirs(f, q)[r] = IF Under(q, r) /\ ~Exists(f, r) THEN NewDir ELSE f[r]
    BY DEF MakeDirs
  <1>6. MakeDirs(f, q) = [r \in Path |-> MakeDirs(f, q)[r]] /\ g = [r \in Path |-> g[r]]
    BY DEF MakeDirs
  <1>. HIDE DEF g
  <1>7. ASSUME Exists(f, q)
        PROVE  g = f
    <2>1. \A r \in Path : Under(Parent(q), r) => Exists(f, r)
      <3>1. ASSUME NEW r \in Path, Under(Parent(q), r)
            PROVE  Exists(f, r)
        <4>1. Under(q, r)
          BY <1>3, <3>1
        <4>. QED
          BY <1>7, <4>1 DEF WellFormed, StrictlyUnder, IsDir, Exists
      <3>. QED
        BY <3>1
    <2>2. \A r \in Path : g[r] = f[r]
      BY <1>4, <2>1
    <2>. QED
      BY <1>2, <2>2 DEF Tree
  <1>8. ASSUME IsDir(f, q)
        PROVE  MakeDirs(f, q) = g
    <2>1. Exists(f, q)
      BY <1>8 DEF IsDir, Exists
    <2>2. \A r \in Path : MakeDirs(f, q)[r] = g[r]
      BY <1>3, <1>4, <1>5, <2>1
    <2>. QED
      BY <1>6, <2>2
  <1>9. ASSUME ~Exists(f, q)
        PROVE  MakeDirs(f, q) = [g EXCEPT ![q] = NewDir]
    <2>1. \A r \in Path : MakeDirs(f, q)[r] = IF r = q THEN NewDir ELSE g[r]
      BY <1>3, <1>4, <1>5, <1>9, PathFacts
    <2>2. [g EXCEPT ![q] = NewDir] = [r \in Path |-> IF r = q THEN NewDir ELSE g[r]]
      BY <1>6
    <2>. QED
      BY <1>6, <2>1, <2>2
  <1>. QED
    BY <1>2, <1>7, <1>8, <1>9 DEF g

\* _resolve_dir with create: all directories or an exception, and no change.
LEMMA ResolveDirIs ==
    ASSUME NEW f \in Tree, WellFormed(f), NEW p \in Path
    PROVE  ResolveDirCalls(f, p) =
             IF CanMakeDirs(f, p) THEN Done(MakeDirs(f, p)) ELSE Raised(f)
  <1>. DEFINE order == [i \in 1..Len(p) |-> SubSeq(p, 1, i)]
              End(q) == IF CanMakeDirs(f, q) THEN Done(MakeDirs(f, q)) ELSE Raised(f)
              inv == [i \in 0..Len(p) |-> {End(SubSeq(p, 1, i))}]
  <1>0. PICK n \in Nat : n = Len(p)
    BY PathFacts
  <1>1. order \in Seq(Path) /\ Len(order) = n /\ \A i \in 1..n : order[i] = SubSeq(p, 1, i)
    <2>1. \A i \in 1..n : SubSeq(p, 1, i) \in Path
      BY <1>0, PathAssumption
    <2>. QED
      BY <1>0, <2>1
  <1>2. \A q \in Path : \A g \in Tree :
            ResolveName[q][g] = IF IsFile(g, q) THEN Raised(g)
                                ELSE IF Exists(g, q) THEN Done(g)
                                ELSE Done([g EXCEPT ![q] = NewDir])
    BY DEF ResolveName
  <1>3. Done(f) \in inv[0]
    <2>1. 0 \in 0..Len(p) /\ 0 \in 0..n
      BY <1>0
    <2>2. SubSeq(p, 1, 0) = Root
      BY <2>1, PrefixPath, PathFacts, EmptySeq DEF Root
    <2>3. \A q \in Path : Under(Root, q) => q = Root
      BY RootFacts
    <2>4. CanMakeDirs(f, Root)
      BY <2>3 DEF CanMakeDirs, WellFormed, IsFile, IsDir
    <2>5. MakeDirs(f, Root) = f
      <3>1. \A q \in Path : MakeDirs(f, Root)[q] = f[q]
        BY <2>3 DEF MakeDirs, WellFormed, IsDir, Exists
      <3>2. MakeDirs(f, Root) = [q \in Path |-> MakeDirs(f, Root)[q]]
        BY DEF MakeDirs
      <3>. QED
        BY <3>1, <3>2 DEF Tree
    <2>6. End(Root) = Done(f)
      BY <2>4, <2>5
    <2>. HIDE DEF End
    <2>. QED
      BY <2>1, <2>2, <2>6
  <1>4. ASSUME NEW i \in 1..n, NEW done \in inv[i - 1]
        PROVE  Continue(done, Path, order[i], ResolveName) \in inv[i]
    <2>. DEFINE q == SubSeq(p, 1, i)
    <2>1. /\ i \in 0..Len(p) /\ i - 1 \in 0..Len(p) /\ i # 0
      BY <1>0
    <2>2. q \in Path /\ q # Root /\ Parent(q) = SubSeq(p, 1, i - 1) /\ order[i] = q
      BY <1>1, <2>1, PrefixPath
    <2>3. done = End(Parent(q)) /\ inv[i] = {End(q)}
      <3>. HIDE DEF End, q
      <3>1. done \in {End(SubSeq(p, 1, i - 1))}
        BY <2>1
      <3>2. inv[i] = {End(q)}
        BY <2>1 DEF q
      <3>. QED
        BY <2>2, <3>1, <3>2
    <2>. HIDE DEF q, inv, order
    <2>4. Parent(q) \in Path /\ StrictlyUnder(q, Parent(q))
      BY <2>2, ParentFacts
    <2>5. CanMakeDirs(f, q) <=> CanMakeDirs(f, Parent(q)) /\ ~IsFile(f, q)
      <3>1. ASSUME CanMakeDirs(f, q)
            PROVE  CanMakeDirs(f, Parent(q)) /\ ~IsFile(f, q)
        BY <2>2, <2>4, <3>1, PathFacts, UnderTransitive DEF CanMakeDirs, StrictlyUnder
      <3>2. ASSUME CanMakeDirs(f, Parent(q)) /\ ~IsFile(f, q)
            PROVE  CanMakeDirs(f, q)
        BY <2>2, <3>2, UnderParent DEF CanMakeDirs, StrictlyUnder
      <3>. QED
        BY <3>1, <3>2
    <2>6. CASE CanMakeDirs(f, Parent(q))
      <3>. DEFINE g == MakeDirs(f, Parent(q))
      <3>1. /\ g \in Tree
            /\ g[q] = f[q]
            /\ Exists(f, q) => g = f
            /\ IsDir(f, q) => MakeDirs(f, q) = g
            /\ ~Exists(f, q) => MakeDirs(f, q) = [g EXCEPT ![q] = NewDir]
        BY <2>2, <2>6, MakeDirsStep
      <3>2. done = Done(g)
        BY <2>3, <2>6
      <3>. HIDE DEF g, End
      <3>3. Continue(done, Path, order[i], ResolveName) = ResolveName[q][g]
        BY <2>2, <3>2 DEF Continue, Done
      <3>4. /\ IsFile(g, q) <=> IsFile(f, q)
            /\ Exists(g, q) <=> Exists(f, q)
            /\ IsFile(f, q) => Exists(f, q)
            /\ Exists(f, q) /\ ~IsFile(f, q) => IsDir(f, q)
        BY <2>2, <3>1, NodeFacts DEF IsFile, Exists, IsDir, Tree, Node
      <3>5. ResolveName[q][g] = End(q)
        <4>1. ResolveName[q][g] = IF IsFile(g, q) THEN Raised(g)
                                  ELSE IF Exists(g, q) THEN Done(g)
                                  ELSE Done([g EXCEPT ![q] = NewDir])
          BY <1>2, <2>2, <3>1
        <4>2. End(q) = IF ~IsFile(f, q) THEN Done(MakeDirs(f, q)) ELSE Raised(f)
          BY <2>5, <2>6 DEF End
        <4>. QED
          BY <3>1, <3>4, <4>1, <4>2
      <3>. QED
        BY <2>3, <3>3, <3>5
    <2>7. CASE ~CanMakeDirs(f, Parent(q))
      <3>1. done = Raised(f) /\ End(q) = Raised(f)
        BY <2>3, <2>5, <2>7
      <3>2. Continue(done, Path, order[i], ResolveName) = done
        BY <3>1 DEF Continue, Raised
      <3>. HIDE DEF End
      <3>. QED
        BY <2>3, <3>1, <3>2
    <2>. QED
      BY <2>6, <2>7
  <1>5. ResolveDirCalls(f, p) \in inv[n]
    <2>1. ResolveDirCalls(f, p) = Loop(f, Path, order, ResolveName)
      BY DEF ResolveDirCalls
    <2>. HIDE DEF inv, order
    <2>. QED
      BY <1>1, <1>3, <1>4, <2>1, LoopInvariant
  <1>6. inv[n] = {End(p)}
    <2>1. n \in 0..Len(p)
      BY <1>0
    <2>2. SubSeq(p, 1, n) = p
      BY <1>0, PathFacts DEF Under
    <2>. HIDE DEF End
    <2>. QED
      BY <2>1, <2>2
  <1>. HIDE DEF inv
  <1>. QED
    BY <1>5, <1>6

\* _ensure_file with create: the file, or an exception and no change.
LEMMA EnsureFileIs ==
    ASSUME NEW f \in Tree, WellFormed(f), NEW p \in Path
    PROVE  EnsureFileCalls(f, p) =
             IF CanEnsureFile(f, p) THEN Done(EnsureFile(f, p)) ELSE Raised(f)
  <1>1. CASE p = Root
    BY <1>1 DEF EnsureFileCalls, CanEnsureFile
  <1>2. CASE p # Root /\ ~CanMakeDirs(f, Parent(p))
    <2>1. ResolveDirCalls(f, Parent(p)) = Raised(f)
      BY <1>2, ResolveDirIs, ParentFacts
    <2>2. EnsureFileCalls(f, p) = Raised(f)
      BY <1>2, <2>1 DEF EnsureFileCalls, Raised
    <2>. QED
      BY <1>2, <2>2 DEF CanEnsureFile
  <1>3. CASE p # Root /\ CanMakeDirs(f, Parent(p))
    <2>. DEFINE g == MakeDirs(f, Parent(p))
    <2>1. ResolveDirCalls(f, Parent(p)) = Done(g)
      BY <1>3, ResolveDirIs, ParentFacts
    <2>2. g \in Tree /\ g[p] = f[p] /\ (Exists(f, p) => g = f)
      BY <1>3, MakeDirsStep
    <2>3. EnsureFile(f, p) = [q \in Path |-> IF q = p /\ ~IsFile(f, p) THEN NewFile ELSE g[q]]
      BY DEF EnsureFile
    <2>. HIDE DEF g
    <2>4. /\ IsFile(g, p) <=> IsFile(f, p)
          /\ IsDir(g, p) <=> IsDir(f, p)
          /\ IsDir(f, p) => Exists(f, p)
          /\ ~(IsFile(f, p) /\ IsDir(f, p))
      BY <2>2 DEF IsFile, Exists, IsDir
    <2>5. EnsureFileCalls(f, p) = IF IsFile(f, p) THEN Done(g)
                                  ELSE IF IsDir(f, p) THEN Raised(g)
                                  ELSE Done([g EXCEPT ![p] = NewFile])
      BY <1>3, <2>1, <2>4 DEF EnsureFileCalls, Done
    <2>6. CanEnsureFile(f, p) <=> ~IsDir(f, p)
      BY <1>3 DEF CanEnsureFile
    <2>7. g = [q \in Path |-> g[q]]
      BY <2>2 DEF Tree
    <2>8. CASE IsFile(f, p)
      BY <2>3, <2>4, <2>5, <2>6, <2>7, <2>8
    <2>9. CASE IsDir(f, p)
      BY <2>2, <2>4, <2>5, <2>6, <2>9
    <2>10. CASE ~IsFile(f, p) /\ ~IsDir(f, p)
      <3>1. [g EXCEPT ![p] = NewFile] = [q \in Path |-> IF q = p THEN NewFile ELSE g[q]]
        BY <2>7
      <3>2. EnsureFile(f, p) = [g EXCEPT ![p] = NewFile]
        BY <2>3, <2>10, <3>1
      <3>. QED
        BY <2>5, <2>6, <2>10, <3>2
    <2>. QED
      BY <2>8, <2>9, <2>10
  <1>. QED
    BY <1>1, <1>2, <1>3

-----------------------------------------------------------------------------
(* The load of a mount, entry by entry. *)

\* An adapter names files below its mount.
Below(entries, m) == \A p \in Entries(entries) : Under(p, m) /\ p # Root

\* A new file that gets a text and a version.
LEMMA FilledFile ==
    ASSUME NEW content \in Seq(Data), NEW version \in Nat
    PROVE  [NewFile EXCEPT !.content = content, !.version = version] = FileNode(content, version)
  <1>. DEFINE made == [NewFile EXCEPT !.content = content, !.version = version]
              full == FileNode(content, version)
  <1>1. NewFile \in Node /\ NewFile.kind = "file" /\ NewFile.policy = Open
    BY NodeFacts DEF NewFile, FileNode
  <1>2. /\ made \in Node /\ made.kind = "file" /\ made.policy = Open
        /\ made.content = content /\ made.version = version
    BY <1>1 DEF Node
  <1>3. /\ full \in Node /\ full.kind = "file" /\ full.policy = Open
        /\ full.content = content /\ full.version = version
    BY NodeFacts DEF FileNode, Node
  <1>. HIDE DEF made, full
  <1>4. made = full
    BY <1>2, <1>3 DEF Node
  <1>. QED
    BY <1>4 DEF made, full

\* One more entry, when those loaded so far get along.
LEMMA LoadEntryIs ==
    ASSUME NEW f \in Tree, WellFormed(f), NEW m \in Path, IsDir(f, m),
           NEW st \in Store, Below(st, m), NEW E \in SUBSET Entries(st), Loadable(m, E),
           NEW p \in Entries(st) \ E
    PROVE  LoadEntry(st)[p][Load(f, m, E, st)] =
             IF Loadable(m, E \cup {p}) THEN Done(Load(f, m, E \cup {p}, st))
             ELSE Raised(Load(f, m, E, st))
  <1>. DEFINE g == Load(f, m, E, st)
              h == Load(f, m, E \cup {p}, st)
              made == EnsureFile(g, p)
  <1>1. g \in Tree /\ WellFormed(g) /\ \A q \in Path : ~StrictlyUnder(q, m) => g[q] = f[q]
    BY LoadableFacts
  <1>2. p \in Path /\ p # Root /\ Under(p, m) /\ p \notin E /\ E \subseteq Path
    BY DEF Below, Entries
  <1>3. LoadEntry(st)[p][g] =
          IF EnsureFileCalls(g, p).ok
          THEN Done([EnsureFileCalls(g, p).tree EXCEPT
                        ![p] = [@ EXCEPT !.content = st[p].content, !.version = st[p].version]])
          ELSE EnsureFileCalls(g, p)
    BY <1>1, <1>2 DEF LoadEntry
  <1>4. EnsureFileCalls(g, p) = IF CanEnsureFile(g, p) THEN Done(made) ELSE Raised(g)
    BY <1>1, <1>2, EnsureFileIs
  <1>5. /\ Parent(p) \in Path /\ StrictlyUnder(p, Parent(p))
        /\ \A q \in Path : Under(Parent(p), q) <=> StrictlyUnder(p, q)
    <2>1. Parent(p) \in Path /\ StrictlyUnder(p, Parent(p))
      BY <1>2, ParentFacts
    <2>2. ASSUME NEW q \in Path, Under(Parent(p), q)
          PROVE  StrictlyUnder(p, q)
      BY <1>2, <2>1, <2>2, UnderTransitive, UnderAntisymmetric DEF StrictlyUnder
    <2>3. ASSUME NEW q \in Path, StrictlyUnder(p, q)
          PROVE  Under(Parent(p), q)
      BY <1>2, <2>3, UnderParent
    <2>. QED
      BY <2>1, <2>2, <2>3
  <1>6. \A q \in Path : StrictlyUnder(q, m) =>
          g[q] = IF q \in E THEN FileNode(st[q].content, st[q].version)
                 ELSE IF \E e \in E : StrictlyUnder(e, q) THEN NewDir
                 ELSE Absent
    BY DEF Load
  <1>7. /\ \A content, version : FileNode(content, version).kind = "file"
        /\ NewDir.kind = "dir" /\ Absent.kind = "none"
    BY NodeFacts DEF FileNode
  <1>8. \A q \in Path : Under(m, q) => IsDir(g, q)
    <2>1. ASSUME NEW q \in Path, Under(m, q)
          PROVE  IsDir(g, q)
      <3>1. IsDir(f, q)
        BY <2>1, AboveIsDir DEF IsDir, Exists
      <3>2. ~StrictlyUnder(q, m)
        BY <2>1, UnderAntisymmetric DEF StrictlyUnder
      <3>. QED
        BY <1>1, <3>1, <3>2 DEF IsDir
    <2>. QED
      BY <2>1
  <1>9. \A q \in Path : StrictlyUnder(p, q) => Under(m, q) \/ StrictlyUnder(q, m)
    BY <1>2, UnderComparable DEF StrictlyUnder
  <1>. HIDE DEF g
  <1>10. CanEnsureFile(g, p) <=> Loadable(m, E \cup {p})
    <2>1. CASE p = m
      BY <1>2, <1>8, <2>1, PathFacts DEF CanEnsureFile, Loadable
    <2>2. CASE p # m
      <3>1. StrictlyUnder(p, m)
        BY <1>2, <2>2 DEF StrictlyUnder
      <3>2. Loadable(m, E \cup {p}) <=>
              \A e \in E : ~StrictlyUnder(p, e) /\ ~StrictlyUnder(e, p)
        BY <2>2 DEF Loadable, StrictlyUnder
      <3>3. IsDir(g, p) <=> \E e \in E : StrictlyUnder(e, p)
        BY <1>2, <1>6, <1>7, <3>1 DEF IsDir
      <3>4. CanMakeDirs(g, Parent(p)) <=> \A e \in E : ~StrictlyUnder(p, e)
        <4>1. ASSUME NEW e \in E, StrictlyUnder(p, e)
              PROVE  Under(Parent(p), e) /\ IsFile(g, e)
          <5>1. e \in Path /\ e # m /\ Under(e, m)
            BY <1>2 DEF Below, Loadable
          <5>. QED
            BY <1>5, <1>6, <1>7, <4>1, <5>1 DEF IsFile, StrictlyUnder
        <4>2. ASSUME NEW q \in Path, Under(Parent(p), q), IsFile(g, q)
              PROVE  q \in E /\ StrictlyUnder(p, q)
          <5>1. StrictlyUnder(p, q)
            BY <1>5, <4>2
          <5>2. ~Under(m, q)
            BY <1>8, <4>2 DEF IsFile, IsDir
          <5>3. StrictlyUnder(q, m)
            BY <1>9, <5>1, <5>2
          <5>. QED
            BY <1>6, <1>7, <4>2, <5>1, <5>3 DEF IsFile
        <4>. QED
          BY <1>2, <4>1, <4>2 DEF CanMakeDirs
      <3>. QED
        BY <1>2, <3>2, <3>3, <3>4 DEF CanEnsureFile
    <2>. QED
      BY <2>1, <2>2
  <1>11. ASSUME Loadable(m, E \cup {p})
         PROVE  [made EXCEPT ![p] = [@ EXCEPT !.content = st[p].content,
                                              !.version = st[p].version]] = h
    <2>1. StrictlyUnder(p, m)
      BY <1>2, <1>11 DEF Loadable, StrictlyUnder
    <2>2. ~IsFile(g, p)
      BY <1>2, <1>6, <1>7, <2>1 DEF IsFile
    <2>3. made \in Tree
      BY <1>1, <1>2, <1>10, <1>11, EnsureFileFacts
    <2>4. \A q \in Path : made[q] = IF q = p THEN NewFile
                                    ELSE IF Under(Parent(p), q) /\ ~Exists(g, q) THEN NewDir
                                    ELSE g[q]
      BY <2>2 DEF EnsureFile, MakeDirs
    <2>5. \A q \in Path : h[q] = IF ~StrictlyUnder(q, m) THEN f[q]
                                 ELSE IF q \in E \cup {p} THEN FileNode(st[q].content, st[q].version)
                                 ELSE IF \E e \in E \cup {p} : StrictlyUnder(e, q) THEN NewDir
                                 ELSE Absent
      BY DEF Load
    <2>6. h = [q \in Path |-> h[q]]
      BY DEF Load
    <2>. HIDE DEF made, h
    <2>7. [made[p] EXCEPT !.content = st[p].content, !.version = st[p].version]
            = FileNode(st[p].content, st[p].version)
      <3>1. made[p] = NewFile
        BY <1>2, <2>4
      <3>2. st[p].content \in Seq(Data) /\ st[p].version \in Nat
        BY <1>2 DEF Store, Entry
      <3>3. [NewFile EXCEPT !.content = st[p].content, !.version = st[p].version]
              = FileNode(st[p].content, st[p].version)
        BY <3>2, FilledFile
      <3>. QED
        BY <3>1, <3>3
    <2>8. ASSUME NEW q \in Path, q # p
          PROVE  made[q] = h[q]
      <3>1. CASE ~StrictlyUnder(q, m)
        <4>1. ~(Under(Parent(p), q) /\ ~Exists(g, q))
          <5>1. ASSUME Under(Parent(p), q)
                PROVE  Exists(g, q)
            BY <1>5, <1>8, <1>9, <3>1, <5>1 DEF IsDir, Exists
          <5>. QED
            BY <5>1
        <4>. QED
          BY <1>1, <2>4, <2>5, <2>8, <3>1, <4>1
      <3>2. CASE StrictlyUnder(q, m) /\ q \in E
        <4>1. Exists(g, q)
          BY <1>6, <1>7, <3>2 DEF Exists
        <4>. QED
          BY <1>6, <2>4, <2>5, <2>8, <3>2, <4>1
      <3>3. CASE StrictlyUnder(q, m) /\ q \notin E
        <4>1. g[q] = IF \E e \in E : StrictlyUnder(e, q) THEN NewDir ELSE Absent
          BY <1>6, <3>3
        <4>2. h[q] = IF (\E e \in E : StrictlyUnder(e, q)) \/ StrictlyUnder(p, q)
                     THEN NewDir ELSE Absent
          BY <2>5, <2>8, <3>3
        <4>3. Exists(g, q) <=> \E e \in E : StrictlyUnder(e, q)
          BY <1>7, <4>1 DEF Exists
        <4>. QED
          BY <1>5, <2>4, <2>8, <4>1, <4>2, <4>3
      <3>. QED
        BY <3>1, <3>2, <3>3
    <2>9. h[p] = FileNode(st[p].content, st[p].version)
      BY <1>2, <2>1, <2>5
    <2>10. made = [q \in Path |-> made[q]]
      BY <2>3 DEF Tree
    <2>. QED
      BY <1>2, <2>6, <2>7, <2>8, <2>9, <2>10
  <1>. HIDE DEF made, h
  <1>12. LoadEntry(st)[p][g] = IF Loadable(m, E \cup {p}) THEN Done(h) ELSE Raised(g)
    <2>1. CASE Loadable(m, E \cup {p})
      <3>1. EnsureFileCalls(g, p).ok /\ EnsureFileCalls(g, p).tree = made
        BY <1>4, <1>10, <2>1 DEF Done
      <3>. QED
        BY <1>3, <1>11, <2>1, <3>1
    <2>2. CASE ~Loadable(m, E \cup {p})
      <3>1. EnsureFileCalls(g, p) = Raised(g) /\ ~EnsureFileCalls(g, p).ok
        BY <1>4, <1>10, <2>2 DEF Raised
      <3>. QED
        BY <1>3, <2>2, <3>1
    <2>. QED
      BY <2>1, <2>2
  <1>. QED
    BY <1>12 DEF g, h

\* The entries among the first i of an order.
Among(S, order, i) == {p \in S : \E j \in 1..i : order[j] = p}

\* Every turn looks at a path that is not among those before it.
LEMMA AmongFacts ==
    ASSUME NEW order, Enumerates(order), NEW S \in SUBSET Path
    PROVE  /\ Len(order) \in Nat
           /\ \A i \in 1..Len(order) : order[i] \in Path
           /\ Among(S, order, 0) = {}
           /\ Among(S, order, Len(order)) = S
           /\ \A i \in 1..Len(order) :
                /\ order[i] \notin Among(S, order, i - 1)
                /\ order[i] \in S => Among(S, order, i) = Among(S, order, i - 1) \cup {order[i]}
                /\ order[i] \notin S => Among(S, order, i) = Among(S, order, i - 1)
  <1>1. order \in Seq(Path)
    BY DEF Enumerates
  <1>2. Len(order) \in Nat /\ \A i \in 1..Len(order) : order[i] \in Path
    BY <1>1, LenProperties, ElementOfSeq
  <1>3. Among(S, order, 0) = {}
    BY DEF Among
  <1>4. Among(S, order, Len(order)) = S
    BY DEF Among, Enumerates
  <1>5. ASSUME NEW i \in 1..Len(order)
        PROVE  /\ order[i] \notin Among(S, order, i - 1)
               /\ order[i] \in S => Among(S, order, i) = Among(S, order, i - 1) \cup {order[i]}
               /\ order[i] \notin S => Among(S, order, i) = Among(S, order, i - 1)
    <2>1. \A j \in 1..i - 1 : j \in 1..Len(order) /\ j # i
      BY <1>2
    <2>2. \A j \in 1..i - 1 : order[j] # order[i]
      BY <2>1 DEF Enumerates
    <2>3. order[i] \notin Among(S, order, i - 1)
      BY <2>2 DEF Among
    <2>4. \A j : j \in 1..i <=> j = i \/ j \in 1..i - 1
      BY <1>2
    <2>. QED
      BY <2>3, <2>4 DEF Among
  <1>. QED
    BY <1>2, <1>3, <1>4, <1>5

\* Where a load ends: after the last entry, or before the first that does not
\* get along with those loaded before it.
LoadEnds(f, m, st, order, i, d) ==
    \/ /\ Loadable(m, Among(Entries(st), order, i))
       /\ d = Done(Load(f, m, Among(Entries(st), order, i), st))
    \/ \E k \in 1..i :
          /\ order[k] \in Entries(st)
          /\ Loadable(m, Among(Entries(st), order, k - 1))
          /\ ~Loadable(m, Among(Entries(st), order, k - 1) \cup {order[k]})
          /\ d = Raised(Load(f, m, Among(Entries(st), order, k - 1), st))

\* Where a load is when its loop has ended.
LEMMA LoadIs ==
    ASSUME NEW f \in Tree, WellFormed(f), Bare(f), NEW m \in Path, IsDir(f, m),
           NEW st \in Store, Below(st, m), NEW order, Enumerates(order)
    PROVE  LoadEnds(f, m, st, order, Len(order), LoadCalls(f, m, st, order))
  <1>. DEFINE S == Entries(st)
              cleared == Detach(f, Children(f, m))
              ends(i) == {d \in {Done(Load(f, m, E, st)) : E \in SUBSET S}
                                 \cup {Raised(Load(f, m, E, st)) : E \in SUBSET S} :
                             LoadEnds(f, m, st, order, i, d)}
              inv == [i \in 0..Len(order) |-> ends(i)]
  <1>0. S \in SUBSET Path
    BY DEF Entries
  <1>1. /\ Len(order) \in Nat
        /\ \A i \in 1..Len(order) : order[i] \in Path
        /\ Among(S, order, 0) = {}
        /\ Among(S, order, Len(order)) = S
        /\ \A i \in 1..Len(order) :
             /\ order[i] \notin Among(S, order, i - 1)
             /\ order[i] \in S => Among(S, order, i) = Among(S, order, i - 1) \cup {order[i]}
             /\ order[i] \notin S => Among(S, order, i) = Among(S, order, i - 1)
    BY <1>0, AmongFacts
  <1>2. \A i : Among(S, order, i) \in SUBSET S
    BY DEF Among
  <1>. HIDE DEF S
  <1>3. cleared = Load(f, m, {}, st)
    <2>1. ASSUME NEW q \in Path
          PROVE  cleared[q] = Load(f, m, {}, st)[q]
      <3>1. cleared[q] = IF \E c \in Children(f, m) : Under(q, c) THEN Absent ELSE f[q]
        BY DEF Detach
      <3>2. Load(f, m, {}, st)[q] = IF ~StrictlyUnder(q, m) THEN f[q] ELSE Absent
        BY DEF Load
      <3>3. ASSUME NEW c \in Children(f, m), Under(q, c)
            PROVE  StrictlyUnder(q, m)
        <4>1. c \in Path /\ StrictlyUnder(c, m)
          BY ParentFacts DEF Children
        <4>. QED
          BY <3>3, <4>1, UnderTransitive, UnderAntisymmetric DEF StrictlyUnder
      <3>4. ASSUME StrictlyUnder(q, m), Exists(f, q)
            PROVE  \E c \in Children(f, m) : Under(q, c)
        <4>1. PICK c \in Path : c # Root /\ Parent(c) = m /\ Under(q, c)
          BY <3>4, ChildTowards
        <4>2. Exists(f, c)
          BY <3>4, <4>1 DEF WellFormed, StrictlyUnder, IsDir, Exists
        <4>. QED
          BY <4>1, <4>2 DEF Children
      <3>. QED
        BY <3>1, <3>2, <3>3, <3>4 DEF Bare
    <2>2. cleared = [q \in Path |-> cleared[q]]
      BY DEF Detach
    <2>3. Load(f, m, {}, st) = [q \in Path |-> Load(f, m, {}, st)[q]]
      BY DEF Load
    <2>. HIDE DEF cleared
    <2>. QED
      BY <2>1, <2>2, <2>3
  <1>4. Done(cleared) \in inv[0]
    <2>1. 0 \in 0..Len(order)
      BY <1>1
    <2>2. Loadable(m, {})
      BY DEF Loadable
    <2>3. LoadEnds(f, m, st, order, 0, Done(cleared))
      BY <1>1, <1>3, <2>2 DEF LoadEnds, S
    <2>4. Done(cleared) \in {Done(Load(f, m, E, st)) : E \in SUBSET S}
      BY <1>3
    <2>. HIDE DEF cleared
    <2>. QED
      BY <2>1, <2>3, <2>4
  <1>5. ASSUME NEW i \in 1..Len(order), NEW d \in inv[i - 1]
        PROVE  Continue(d, S, order[i], LoadEntry(st)) \in inv[i]
    <2>. DEFINE E == Among(S, order, i - 1)
                e == Continue(d, S, order[i], LoadEntry(st))
    <2>1. i - 1 \in 0..Len(order) /\ i \in 0..Len(order) /\ i \in 1..i
      BY <1>1
    <2>2. d \in ends(i - 1) /\ inv[i] = ends(i)
      <3>. HIDE DEF ends
      <3>. QED
        BY <2>1
    <2>. HIDE DEF inv
    <2>3. ASSUME Loadable(m, E), d = Done(Load(f, m, E, st)), order[i] \in S
          PROVE  e \in inv[i]
      <3>1. order[i] \in S \ E /\ E \in SUBSET S
        BY <1>1, <1>2, <2>3
      <3>2. e = LoadEntry(st)[order[i]][Load(f, m, E, st)]
        BY <2>3 DEF Continue, Done
      <3>3. e = IF Loadable(m, E \cup {order[i]}) THEN Done(Load(f, m, E \cup {order[i]}, st))
                ELSE Raised(Load(f, m, E, st))
        <4>. HIDE DEF e, E
        <4>. QED
          BY <2>3, <3>1, <3>2, LoadEntryIs DEF S
      <3>4. Among(S, order, i) = E \cup {order[i]}
        BY <1>1, <2>3
      <3>. HIDE DEF e
      <3>5. LoadEnds(f, m, st, order, i, e)
        <4>1. CASE Loadable(m, E \cup {order[i]})
          BY <3>3, <3>4, <4>1 DEF LoadEnds, S
        <4>2. CASE ~Loadable(m, E \cup {order[i]})
          BY <2>1, <2>3, <3>3, <4>2 DEF LoadEnds, S
        <4>. QED
          BY <4>1, <4>2
      <3>6. e \in {Done(Load(f, m, F, st)) : F \in SUBSET S}
                  \cup {Raised(Load(f, m, F, st)) : F \in SUBSET S}
        <4>1. E \cup {order[i]} \in SUBSET S
          BY <3>1
        <4>. HIDE DEF E
        <4>. QED
          BY <3>1, <3>3, <4>1
      <3>. QED
        BY <2>2, <3>5, <3>6
    <2>4. ASSUME Loadable(m, E), d = Done(Load(f, m, E, st)), order[i] \notin S
          PROVE  e \in inv[i]
      <3>1. e = d /\ Among(S, order, i) = E
        BY <1>1, <2>4 DEF Continue
      <3>2. LoadEnds(f, m, st, order, i, d)
        BY <2>4, <3>1 DEF LoadEnds, S
      <3>. HIDE DEF e, E
      <3>. QED
        BY <2>2, <3>1, <3>2
    <2>5. ASSUME NEW k \in 1..(i - 1),
                 /\ order[k] \in S
                 /\ Loadable(m, Among(S, order, k - 1))
                 /\ ~Loadable(m, Among(S, order, k - 1) \cup {order[k]})
                 /\ d = Raised(Load(f, m, Among(S, order, k - 1), st))
          PROVE  e \in inv[i]
      <3>1. e = d
        BY <2>5 DEF Continue, Raised
      <3>2. k \in 1..i
        BY <1>1
      <3>3. LoadEnds(f, m, st, order, i, d)
        BY <2>5, <3>2 DEF LoadEnds, S
      <3>. HIDE DEF e, E
      <3>. QED
        BY <2>2, <3>1, <3>3
    <2>6. \/ Loadable(m, E) /\ d = Done(Load(f, m, E, st))
          \/ \E k \in 1..(i - 1) :
                /\ order[k] \in S
                /\ Loadable(m, Among(S, order, k - 1))
                /\ ~Loadable(m, Among(S, order, k - 1) \cup {order[k]})
                /\ d = Raised(Load(f, m, Among(S, order, k - 1), st))
      BY <2>2 DEF LoadEnds, S
    <2>. HIDE DEF e, E
    <2>7. e \in inv[i]
      BY <2>3, <2>4, <2>5, <2>6 DEF inv
    <2>. QED
      BY <2>7 DEF e
  <1>6. LoadCalls(f, m, st, order) \in inv[Len(order)]
    <2>1. LoadCalls(f, m, st, order) = Loop(cleared, S, order, LoadEntry(st))
      BY DEF LoadCalls, S
    <2>. HIDE DEF inv, cleared
    <2>2. \A i \in 1..Len(order) : \A d \in inv[i - 1] :
             Continue(d, S, order[i], LoadEntry(st)) \in inv[i]
      BY <1>5
    <2>3. Loop(cleared, S, order, LoadEntry(st)) \in inv[Len(order)]
      BY <1>1, <1>4, <2>2, LoopInvariant
    <2>. QED
      BY <2>1, <2>3

  <1>7. Len(order) \in 0..Len(order)
    BY <1>1
  <1>. QED
    BY <1>6, <1>7

\* An order has one place for every path.
LEMMA BeforeFacts ==
    ASSUME NEW order, Enumerates(order)
    PROVE  /\ \A i, j \in 1..Len(order) : Before(order, order[i], order[j]) <=> i < j
           /\ \A p, q \in Path : p # q => (Before(order, p, q) <=> ~Before(order, q, p))
           /\ \A p \in Path : ~Before(order, p, p)
           /\ \A S \in SUBSET Path, k \in 1..Len(order) :
                Among(S, order, k - 1) = {q \in S : Before(order, q, order[k])}
  <1>0. Len(order) \in Nat
    BY LenProperties DEF Enumerates
  <1>1. \A i, j \in 1..Len(order) : Before(order, order[i], order[j]) <=> i < j
    BY DEF Before, Enumerates
  <1>2. \A p \in Path : \E i \in 1..Len(order) : order[i] = p
    BY DEF Enumerates
  <1>3. ASSUME NEW p \in Path, NEW q \in Path
        PROVE  /\ p # q => (Before(order, p, q) <=> ~Before(order, q, p))
               /\ ~Before(order, p, p)
    <2>1. PICK i \in 1..Len(order), j \in 1..Len(order) : order[i] = p /\ order[j] = q
      BY <1>2
    <2>2. /\ Before(order, p, q) <=> i < j
          /\ Before(order, q, p) <=> j < i
          /\ Before(order, p, p) <=> i < i
      BY <1>1, <2>1
    <2>3. p # q => i # j
      BY <2>1
    <2>. QED
      BY <1>0, <2>2, <2>3
  <1>4. ASSUME NEW S \in SUBSET Path, NEW k \in 1..Len(order)
        PROVE  Among(S, order, k - 1) = {q \in S : Before(order, q, order[k])}
    <2>1. ASSUME NEW q \in S, NEW j \in 1..k - 1, order[j] = q
          PROVE  Before(order, q, order[k])
      <3>1. j \in 1..Len(order) /\ j < k
        BY <1>0
      <3>. QED
        BY <1>1, <2>1, <3>1
    <2>2. ASSUME NEW q \in S, Before(order, q, order[k])
          PROVE  \E j \in 1..k - 1 : order[j] = q
      <3>1. PICK j \in 1..Len(order) : order[j] = q
        BY <1>2
      <3>2. j < k
        BY <1>1, <2>2, <3>1
      <3>3. j \in 1..k - 1
        BY <1>0, <3>2
      <3>. QED
        BY <3>1, <3>3
    <2>. QED
      BY <2>1, <2>2 DEF Among
  <1>. QED
    BY <1>1, <1>3, <1>4

\* What gets along still does when some of it is left out.
LEMMA LoadableSubset ==
    ASSUME NEW m, NEW E, NEW F \in SUBSET E, Loadable(m, E)
    PROVE  Loadable(m, F)
  BY DEF Loadable

\* Where a load ends in an order that has E first and then an entry that does
\* not get along with it.
LEMMA LoadEndsThere ==
    ASSUME NEW f \in Tree, NEW m \in Path, NEW st \in Store,
           NEW E \in SUBSET Entries(st), Loadable(m, E), Root \notin Entries(st),
           NEW p \in Entries(st) \ E, ~Loadable(m, E \cup {p}),
           NEW order, Enumerates(order), StartsWith(order, E, {p}), NEW d,
           LoadEnds(f, m, st, order, Len(order), d)
    PROVE  d = Raised(Load(f, m, E, st))
  <1>. DEFINE S == Entries(st)
  <1>1. S \in SUBSET Path /\ E \subseteq S /\ Root \notin S
    BY DEF Entries
  <1>2. \A q, r \in S : \/ q \in E /\ r \notin E
                        \/ q = p /\ r \notin E /\ r # p
                        => Before(order, q, r)
    BY <1>1 DEF StartsWith
  <1>3. \A i, j \in 1..Len(order) : Before(order, order[i], order[j]) => ~Before(order, order[j], order[i])
    <2>1. Len(order) \in Nat
      BY LenProperties DEF Enumerates
    <2>. QED
      BY <2>1, BeforeFacts
  <1>4. \A q, r \in S : Before(order, q, r) => ~Before(order, r, q)
    <2>1. \A q \in S : \E i \in 1..Len(order) : order[i] = q
      BY <1>1 DEF Enumerates
    <2>. HIDE DEF S
    <2>. QED
      BY <1>3, <2>1
  <1>5. Among(S, order, Len(order)) = S
    BY <1>1, AmongFacts
  <1>6. ~Loadable(m, S)
    BY <1>1, LoadableSubset
  <1>. HIDE DEF S
  <1>7. PICK k \in 1..Len(order) :
          /\ order[k] \in S
          /\ Loadable(m, Among(S, order, k - 1))
          /\ ~Loadable(m, Among(S, order, k - 1) \cup {order[k]})
          /\ d = Raised(Load(f, m, Among(S, order, k - 1), st))
    BY <1>5, <1>6 DEF LoadEnds, S
  <1>8. Among(S, order, k - 1) = {q \in S : Before(order, q, order[k])}
    BY <1>1, BeforeFacts
  <1>. DEFINE A == Among(S, order, k - 1)
              o == order[k]
  <1>9. /\ o \in S /\ A = {q \in S : Before(order, q, o)}
        /\ Loadable(m, A) /\ ~Loadable(m, A \cup {o}) /\ d = Raised(Load(f, m, A, st))
    BY <1>7, <1>8
  <1>. HIDE DEF A, o
  <1>10. p \in S
    BY DEF S
  <1>11. o \notin E
    <2>1. ASSUME o \in E
          PROVE  A \cup {o} \in SUBSET E
      BY <1>2, <1>4, <1>9, <2>1
    <2>. QED
      BY <1>9, <2>1, LoadableSubset
  <1>12. o = p
    <2>1. ASSUME o # p
          PROVE  E \cup {p} \in SUBSET A
      BY <1>1, <1>2, <1>9, <1>10, <1>11, <2>1
    <2>. QED
      BY <1>9, <2>1, LoadableSubset
  <1>13. A = E
    <2>1. ~Before(order, p, p)
      BY <1>4, <1>10
    <2>. QED
      BY <1>1, <1>2, <1>4, <1>9, <1>10, <1>12, <2>1
  <1>. QED
    BY <1>9, <1>13

\* All the ends of a load.
LEMMA LoadSums ==
    ASSUME IsFiniteSet(Path),
           NEW f \in Tree, WellFormed(f), Bare(f), NEW m \in Path, IsDir(f, m),
           NEW st \in Store, Below(st, m)
    PROVE  {LoadCalls(f, m, st, order) : order \in Orders}
             = {[tree |-> Load(f, m, E, st), ok |-> E = Entries(st)] :
                   E \in LoadOutcomes(m, Entries(st))}
  <1>. DEFINE S == Entries(st)
              end(E) == [tree |-> Load(f, m, E, st), ok |-> E = S]
  <1>1. S \in SUBSET Path /\ Root \notin S
    BY DEF Entries, Below
  <1>2. \A E : end(E) = IF E = S THEN Done(Load(f, m, E, st)) ELSE Raised(Load(f, m, E, st))
    BY DEF Done, Raised
  <1>. HIDE DEF end
  <1>3. ASSUME NEW order \in Orders
        PROVE  \E E \in LoadOutcomes(m, S) : LoadCalls(f, m, st, order) = end(E)
    <2>. DEFINE d == LoadCalls(f, m, st, order)
    <2>1. Enumerates(order)
      BY OrderAssumption
    <2>2. LoadEnds(f, m, st, order, Len(order), d)
      BY <2>1, LoadIs
    <2>3. /\ Among(S, order, Len(order)) = S
          /\ \A i \in 1..Len(order) : order[i] \notin Among(S, order, i - 1)
      BY <1>1, <2>1, AmongFacts
    <2>. HIDE DEF d
    <2>4. CASE Loadable(m, S) /\ d = Done(Load(f, m, S, st))
      <3>1. S \in LoadOutcomes(m, S)
        BY <2>4 DEF LoadOutcomes
      <3>. QED
        BY <1>2, <2>4, <3>1 DEF d
    <2>5. ASSUME NEW k \in 1..Len(order),
                 /\ order[k] \in S
                 /\ Loadable(m, Among(S, order, k - 1))
                 /\ ~Loadable(m, Among(S, order, k - 1) \cup {order[k]})
                 /\ d = Raised(Load(f, m, Among(S, order, k - 1), st))
          PROVE  \E E \in LoadOutcomes(m, S) : d = end(E)
      <3>. DEFINE E == Among(S, order, k - 1)
      <3>1. E \in SUBSET S /\ order[k] \in S \ E
        BY <2>3, <2>5 DEF Among
      <3>2. E \in LoadOutcomes(m, S)
        BY <2>5, <3>1 DEF LoadOutcomes
      <3>3. d = end(E)
        BY <1>2, <2>5, <3>1
      <3>. QED
        BY <3>2, <3>3
    <2>6. \E E \in LoadOutcomes(m, S) : d = end(E)
      BY <2>2, <2>3, <2>4, <2>5 DEF LoadEnds, d
    <2>. QED
      BY <2>6 DEF d
  <1>4. ASSUME NEW E \in LoadOutcomes(m, S)
        PROVE  \E order \in Orders : end(E) = LoadCalls(f, m, st, order)
    <2>1. E \in SUBSET S /\ Loadable(m, E)
      BY DEF LoadOutcomes
    <2>2. CASE E = S
      <3>1. PICK order \in Orders : StartsWith(order, {}, {})
        <4>1. {} \in SUBSET (Path \ {Root}) /\ {} \cap {} = {}
          OBVIOUS
        <4>. QED
          BY <4>1, OrderAssumption
      <3>2. Enumerates(order)
        BY OrderAssumption
      <3>3. LoadEnds(f, m, st, order, Len(order), LoadCalls(f, m, st, order))
        BY <3>2, LoadIs
      <3>4. Among(S, order, Len(order)) = S
        BY <1>1, <3>2, AmongFacts
      <3>5. \A k : Among(S, order, k) \in SUBSET S
        BY DEF Among
      <3>6. \A F \in SUBSET S : Loadable(m, F)
        BY <2>1, <2>2, LoadableSubset
      <3>7. \A k : order[k] \in S => Loadable(m, Among(S, order, k - 1) \cup {order[k]})
        BY <3>5, <3>6
      <3>8. LoadCalls(f, m, st, order) = Done(Load(f, m, S, st))
        BY <3>3, <3>4, <3>7 DEF LoadEnds
      <3>. QED
        BY <1>2, <2>2, <3>8
    <2>3. CASE E # S
      <3>1. PICK p \in S \ E : ~Loadable(m, E \cup {p})
        BY <2>3 DEF LoadOutcomes
      <3>2. E \in SUBSET (Path \ {Root}) /\ {p} \in SUBSET (Path \ {Root}) /\ E \cap {p} = {}
        BY <1>1, <2>1, <3>1
      <3>3. PICK order \in Orders : StartsWith(order, E, {p})
        BY <3>2, OrderAssumption
      <3>4. Enumerates(order)
        BY OrderAssumption
      <3>5. LoadEnds(f, m, st, order, Len(order), LoadCalls(f, m, st, order))
        BY <3>4, LoadIs
      <3>6. LoadCalls(f, m, st, order) = Raised(Load(f, m, E, st))
        BY <1>1, <2>1, <3>1, <3>3, <3>4, <3>5, LoadEndsThere
      <3>. QED
        BY <1>2, <2>3, <3>6
    <2>. QED
      BY <2>2, <2>3
  <1>5. {LoadCalls(f, m, st, order) : order \in Orders} = {end(E) : E \in LoadOutcomes(m, S)}
    BY <1>3, <1>4
  <1>. QED
    BY <1>5 DEF end

-----------------------------------------------------------------------------
(* The removal of a subtree, call by call. *)

\* There are finitely many paths, and so a longest one.
LEMMA PathsAreBounded ==
    ASSUME NEW order, Enumerates(order)
    PROVE  \E n \in Nat : \A p \in Path : Len(p) <= n
  <1>1. PICK m \in Nat : m = Len(order)
    BY LenProperties DEF Enumerates
  <1>2. \A i \in 1..m : order[i] \in Path /\ Len(order[i]) \in Nat
    BY <1>1, ElementOfSeq, PathFacts DEF Enumerates
  <1>. DEFINE wrong == {k \in 0..m : ~\E n \in Nat : \A i \in 1..k : Len(order[i]) <= n}
  <1>3. ASSUME NEW k \in wrong, \A j \in wrong : k <= j
        PROVE  FALSE
    <2>1. k \in 0..m
      OBVIOUS
    <2>2. CASE k = 0
      <3>1. \A i \in 1..0 : Len(order[i]) <= 0
        OBVIOUS
      <3>. QED
        BY <2>2, <3>1
    <2>3. CASE k # 0
      <3>1. k - 1 \in 0..m /\ ~(k <= k - 1) /\ k \in 1..m
        BY <2>1, <2>3
      <3>2. PICK n \in Nat : \A i \in 1..k - 1 : Len(order[i]) <= n
        BY <1>3, <3>1
      <3>3. PICK l \in Nat : l = Len(order[k])
        BY <1>2, <3>1
      <3>4. \A i \in 1..k : Len(order[i]) \in Nat /\ (i = k \/ i \in 1..k - 1)
        <4>1. \A i \in 1..k : i \in 1..m /\ (i = k \/ i \in 1..k - 1)
          BY <2>1
        <4>. QED
          BY <1>2, <4>1
      <3>5. ASSUME NEW i \in 1..k
            PROVE  Len(order[i]) <= n + l
        <4>1. PICK x \in Nat : x = Len(order[i])
          BY <3>4
        <4>2. CASE i = k
          <5>1. x = l
            BY <3>3, <4>1, <4>2
          <5>. QED
            BY <4>1, <5>1
        <4>3. CASE i # k
          <5>1. x <= n
            BY <3>2, <3>4, <4>1, <4>3
          <5>2. x <= n + l
            BY <5>1
          <5>. QED
            BY <4>1, <5>2
        <4>. QED
          BY <4>2, <4>3
      <3>6. n + l \in Nat
        OBVIOUS
      <3>. QED
        BY <3>5, <3>6
    <2>. QED
      BY <2>2, <2>3
  <1>4. wrong = {}
    <2>1. wrong \in SUBSET Nat
      OBVIOUS
    <2>. QED
      BY <1>3, <2>1, LeastElement
  <1>5. PICK n \in Nat : \A i \in 1..m : Len(order[i]) <= n
    <2>1. m \in 0..m
      OBVIOUS
    <2>. QED
      BY <1>4, <2>1
  <1>6. \A p \in Path : Len(p) <= n
    BY <1>1, <1>5 DEF Enumerates
  <1>. QED
    BY <1>6

\* A loop over S knows its call by the members of S.
LEMMA LoopSameCalls ==
    ASSUME NEW f, NEW S, NEW order, Len(order) \in Nat, NEW call, NEW other,
           \A p \in S : other[p] = call[p]
    PROVE  Loop(f, S, order, other) = Loop(f, S, order, call)
  <1>1. PICK after : /\ Turns(after, f, S, order, call, Len(order))
                     /\ Loop(f, S, order, call) = after[Len(order)]
    BY LoopIs
  <1>3. /\ after[0] = Done(f)
        /\ \A i \in 1..Len(order) : after[i] = Continue(after[i - 1], S, order[i], call)
    BY <1>1, TurnFacts
  <1>. DEFINE inv == [i \in 0..Len(order) |-> {after[i]}]
  <1>4. Done(f) \in inv[0]
    <2>1. 0 \in 0..Len(order)
      OBVIOUS
    <2>. QED
      BY <1>3, <2>1
  <1>5. ASSUME NEW i \in 1..Len(order), NEW done \in inv[i - 1]
        PROVE  Continue(done, S, order[i], other) \in inv[i]
    <2>1. i - 1 \in 0..Len(order) /\ i \in 0..Len(order)
      OBVIOUS
    <2>2. done = after[i - 1]
      BY <2>1
    <2>3. Continue(done, S, order[i], other) = Continue(done, S, order[i], call)
      BY DEF Continue
    <2>. QED
      BY <1>3, <2>1, <2>2, <2>3
  <1>6. Loop(f, S, order, other) \in inv[Len(order)]
    <2>. HIDE DEF inv
    <2>. QED
      BY <1>4, <1>5, LoopInvariant
  <1>7. Len(order) \in 0..Len(order)
    OBVIOUS
  <1>. QED
    BY <1>1, <1>6, <1>7

-----------------------------------------------------------------------------
(* remove. *)

\* One call of remove, and a function that gives it for every path of S.
RemoveOne(remove, order, q, g) ==
    LET below == Loop(g, Children(g, q), order, remove)
    IN  IF Protected(g, q) \/ Protected(g, Parent(q)) THEN Raised(g)
        ELSE IF below.ok THEN Done([below.tree EXCEPT ![q] = Absent])
        ELSE below
Removes(remove, order, S) ==
    \A q \in S : remove[q] = [g \in Tree |-> RemoveOne(remove, order, q, g)]

\* The recursion ends, as the calls go down.
LEMMA RemovesExists ==
    ASSUME NEW order, Enumerates(order)
    PROVE  \E remove : /\ remove = [q \in Path |-> remove[q]]
                       /\ Removes(remove, order, Path)
  <1>1. PICK n \in Nat : \A p \in Path : Len(p) <= n
    BY PathsAreBounded
  <1>2. Len(order) \in Nat
    BY LenProperties DEF Enumerates
  <1>3. \A p \in Path : Len(p) \in Nat
    BY PathFacts
  <1>. DEFINE Deep(k) == {q \in Path : Len(q) + k > n}
              Solves(remove, k) == /\ remove = [q \in Path |-> remove[q]]
                                   /\ Removes(remove, order, Deep(k))
              wrong == {k \in Nat : ~\E remove : Solves(remove, k)}
  <1>4. ASSUME NEW k \in wrong, \A j \in wrong : k <= j
        PROVE  FALSE
    <2>1. k \in Nat
      OBVIOUS
    <2>2. CASE k = 0
      <3>. DEFINE remove == [q \in Path |-> Absent]
      <3>1. Deep(0) = {}
        BY <1>1, <1>3
      <3>2. Removes(remove, order, Deep(0))
        <4>. HIDE DEF Deep, remove
        <4>. QED
          BY <3>1 DEF Removes
      <3>3. remove = [q \in Path |-> remove[q]]
        OBVIOUS
      <3>. HIDE DEF remove, Deep
      <3>. QED
        BY <2>2, <3>2, <3>3
    <2>3. CASE k # 0
      <3>1. k - 1 \in Nat /\ ~(k <= k - 1)
        BY <2>1, <2>3
      <3>2. PICK remove : Solves(remove, k - 1)
        BY <1>4, <3>1
      <3>. DEFINE more == [q \in Path |->
                              IF q \in Deep(k - 1) THEN remove[q]
                              ELSE [g \in Tree |-> RemoveOne(remove, order, q, g)]]
      <3>3. ASSUME NEW q \in Deep(k), NEW g
            PROVE  RemoveOne(more, order, q, g) = RemoveOne(remove, order, q, g)
        <4>1. ASSUME NEW c \in Children(g, q)
              PROVE  more[c] = remove[c]
          <5>1. c \in Path /\ c # Root /\ Parent(c) = q /\ q \in Path
            BY DEF Children
          <5>2. Len(q) = Len(c) - 1 /\ Len(c) \in Nat /\ Len(q) \in Nat
            BY <1>3, <5>1, ParentFacts
          <5>3. Len(q) + k > n
            OBVIOUS
          <5>4. Len(c) + (k - 1) > n
            BY <2>1, <5>2, <5>3
          <5>. QED
            BY <5>1, <5>4
        <4>. HIDE DEF more
        <4>2. Loop(g, Children(g, q), order, more) = Loop(g, Children(g, q), order, remove)
          BY <1>2, <4>1, LoopSameCalls
        <4>. QED
          BY <4>2 DEF RemoveOne
      <3>4. ASSUME NEW q \in Deep(k)
            PROVE  more[q] = [g \in Tree |-> RemoveOne(more, order, q, g)]
        <4>1. more[q] = [g \in Tree |-> RemoveOne(remove, order, q, g)]
          <5>1. q \in Path
            OBVIOUS
          <5>2. q \in Deep(k - 1) => remove[q] = [g \in Tree |-> RemoveOne(remove, order, q, g)]
            BY <3>2 DEF Removes
          <5>. HIDE DEF Deep
          <5>. QED
            BY <5>1, <5>2
        <4>. HIDE DEF more
        <4>. QED
          BY <3>3, <4>1
      <3>5. more = [q \in Path |-> more[q]]
        OBVIOUS
      <3>. HIDE DEF more, Deep
      <3>6. Solves(more, k)
        BY <3>4, <3>5 DEF Removes
      <3>. QED
        BY <3>6
    <2>. QED
      BY <2>2, <2>3
  <1>5. wrong = {}
    <2>1. wrong \in SUBSET Nat
      OBVIOUS
    <2>. HIDE DEF wrong
    <2>. QED
      BY <1>4, <2>1, LeastElement
  <1>6. PICK remove : Solves(remove, n + 1)
    <2>1. n + 1 \in Nat
      OBVIOUS
    <2>. HIDE DEF Solves
    <2>. QED
      BY <1>5, <2>1
  <1>7. Deep(n + 1) = Path
    BY <1>3
  <1>. QED
    BY <1>6, <1>7

\* What a removal does, call by call.
LEMMA RemoveIs ==
    ASSUME NEW order, Enumerates(order)
    PROVE  \E remove : /\ \A q \in Path, g \in Tree : remove[q][g] = RemoveOne(remove, order, q, g)
                       /\ \A f \in Tree, p \in Path : RemoveCalls(f, p, order) = remove[p][f]
  <1>. DEFINE remove == CHOOSE remove : remove =
                  [q \in Path |-> [g \in Tree |-> RemoveOne(remove, order, q, g)]]
  <1>1. \A f, p : RemoveCalls(f, p, order) = remove[p][f]
    BY DEF RemoveCalls, RemoveOne
  <1>2. PICK r : r = [q \in Path |-> r[q]] /\ Removes(r, order, Path)
    BY RemovesExists
  <1>3. r = [q \in Path |-> [g \in Tree |-> RemoveOne(r, order, q, g)]]
    BY <1>2 DEF Removes
  <1>4. remove = [q \in Path |-> [g \in Tree |-> RemoveOne(remove, order, q, g)]]
    BY <1>3
  <1>. HIDE DEF remove
  <1>5. \A q \in Path, g \in Tree : remove[q][g] = RemoveOne(remove, order, q, g)
    BY <1>4
  <1>. QED
    BY <1>1, <1>5

\* x is met before its sibling on the way to b.
Sooner(order, x, b) ==
    \A c \in Path \ {Root} : Under(b, c) /\ Parent(c) = Parent(x) => Before(order, x, c)

\* Where the ways to b and a part, the one to b comes first.
Precedes(order, b, a) ==
    \E c, d \in Path \ {Root} :
        Parent(c) = Parent(d) /\ Under(b, c) /\ Under(a, d) /\ Before(order, c, d)

FinishedFirst(f, p, b, order) == {x \in FinishedBefore(f, p, b) : Sooner(order, x, b)}

\* How a removal ends: with everything gone, or at the first node that stops it.
RemoveEnds(f, p, order, d) ==
    \/ Stops(f, p) = {} /\ d = Done(Detach(f, {p}))
    \/ \E b \in Stops(f, p) :
          /\ d = Raised(Detach(f, FinishedFirst(f, p, b, order)))
          /\ \A a \in Stops(f, p) \ {b} : Precedes(order, b, a)

\* What a removal of c may do depends on what is below c.
LEMMA SameBelow ==
    ASSUME NEW f \in Tree, NEW g \in Tree, NEW c \in Path,
           \A x \in Path : Under(x, c) => g[x] = f[x]
    PROVE  /\ Stops(g, c) = Stops(f, c)
           /\ \A b, order : FinishedFirst(g, c, b, order) = FinishedFirst(f, c, b, order)
  <1>1. \A x \in Path : Under(x, c) => /\ Exists(g, x) <=> Exists(f, x)
                                       /\ Protected(g, x) <=> Protected(f, x)
    BY DEF Exists, Protected
  <1>2. Subtree(g, c) = Subtree(f, c)
    BY <1>1 DEF Subtree
  <1>3. \A x \in Path : Under(x, c) => Subtree(g, x) = Subtree(f, x)
    BY <1>1, UnderTransitive DEF Subtree
  <1>4. \A x, y \in Path : Under(x, c) /\ y \in Subtree(f, x) => y \in Path /\ Under(y, c)
    BY UnderTransitive DEF Subtree
  <1>5. Stops(g, c) = Stops(f, c)
    BY <1>1, <1>2 DEF Stops, Subtree
  <1>6. ASSUME NEW x \in Subtree(f, c)
        PROVE  /\ Subtree(g, x) = Subtree(f, x)
               /\ \A y \in Subtree(f, x) : Protected(g, y) <=> Protected(f, y)
    <2>1. x \in Path /\ Under(x, c)
      BY DEF Subtree
    <2>2. \A y \in Subtree(f, x) : y \in Path
      BY DEF Subtree
    <2>. QED
      BY <1>1, <1>3, <1>4, <2>1, <2>2
  <1>7. \A b : FinishedBefore(g, c, b) = FinishedBefore(f, c, b)
    BY <1>2, <1>6 DEF FinishedBefore
  <1>. QED
    BY <1>5, <1>7 DEF FinishedFirst

\* To take out twice is to take out both.
LEMMA DetachTwice ==
    ASSUME NEW f \in Tree, NEW D, NEW F
    PROVE  Detach(Detach(f, D), F) = Detach(f, D \cup F)
  <1>. DEFINE g == Detach(f, D)
              h == Detach(g, F)
              k == Detach(f, D \cup F)
  <1>1. h = [q \in Path |-> h[q]] /\ k = [q \in Path |-> k[q]]
    BY DEF Detach
  <1>2. ASSUME NEW q \in Path
        PROVE  h[q] = k[q]
    <2>1. g[q] = IF \E t \in D : Under(q, t) THEN Absent ELSE f[q]
      BY DEF Detach
    <2>2. k[q] = IF \E t \in D \cup F : Under(q, t) THEN Absent ELSE f[q]
      BY DEF Detach
    <2>. HIDE DEF g, k
    <2>3. h[q] = IF \E t \in F : Under(q, t) THEN Absent ELSE g[q]
      BY DEF Detach
    <2>. QED
      BY <2>1, <2>2, <2>3
  <1>. HIDE DEF h, k
  <1>3. h = k
    BY <1>1, <1>2
  <1>. QED
    BY <1>3 DEF h, k

\* Children are side by side, and one of them is on the way to what is below.
LEMMA ChildrenFacts ==
    ASSUME NEW f \in Tree, WellFormed(f), NEW q \in Path
    PROVE  /\ Children(f, q) \in SUBSET (Path \ {Root})
           /\ \A c \in Children(f, q) : Parent(c) = q /\ Exists(f, c) /\ StrictlyUnder(c, q)
           /\ \A c, d \in Path \ {Root} : \A x \in Path :
                 Parent(c) = Parent(d) /\ Under(x, c) /\ Under(x, d) => c = d
           /\ \A x \in Path : StrictlyUnder(x, q) /\ Exists(f, x) =>
                 \E c \in Children(f, q) : Under(x, c)
  <1>1. ASSUME NEW c \in Children(f, q)
        PROVE  c \in Path \ {Root} /\ Parent(c) = q /\ Exists(f, c) /\ StrictlyUnder(c, q)
    BY ParentFacts DEF Children
  <1>2. ASSUME NEW c \in Path \ {Root}, NEW d \in Path \ {Root}, NEW x \in Path,
               Parent(c) = Parent(d), Under(x, c), Under(x, d)
        PROVE  c = d
    <2>1. Len(c) = Len(d)
      <3>1. Len(Parent(c)) = Len(c) - 1 /\ Len(Parent(c)) = Len(d) - 1
        BY <1>2, ParentFacts
      <3>2. Len(c) \in Nat /\ Len(d) \in Nat
        BY PathFacts
      <3>. QED
        BY <3>1, <3>2
    <2>. QED
      BY <1>2, <2>1 DEF Under
  <1>3. ASSUME NEW x \in Path, StrictlyUnder(x, q), Exists(f, x)
        PROVE  \E c \in Children(f, q) : Under(x, c)
    <2>1. PICK c \in Path : c # Root /\ Parent(c) = q /\ Under(x, c)
      BY <1>3, ChildTowards
    <2>2. Exists(f, c)
      BY <1>3, <2>1 DEF WellFormed, StrictlyUnder, IsDir, Exists
    <2>. QED
      BY <2>1, <2>2 DEF Children
  <1>. QED
    BY <1>1, <1>2, <1>3

\* The nodes that stop a removal of q are those that stop that of its children.
LEMMA ChildStops ==
    ASSUME NEW f \in Tree, WellFormed(f), NEW q \in Path, ~Protected(f, q)
    PROVE  /\ \A c \in Children(f, q) : \A b \in Stops(f, c) : b \in Stops(f, q)
           /\ \A b \in Stops(f, q) :
                 /\ b \in Path
                 /\ StrictlyUnder(b, q)
                 /\ \E c \in Children(f, q) : Under(b, c)
                 /\ \A c \in Children(f, q) : Under(b, c) => b \in Stops(f, c)
  <1>1. \A c \in Children(f, q) : c \in Path /\ c # Root /\ Parent(c) = q /\ StrictlyUnder(c, q)
    BY ChildrenFacts
  <1>2. ASSUME NEW c \in Children(f, q), NEW b \in Stops(f, c)
        PROVE  b \in Stops(f, q)
    <2>1. /\ b \in Path /\ Under(b, c) /\ Exists(f, b) /\ Protected(f, b)
          /\ \A x \in Path : Under(x, c) /\ StrictlyUnder(b, x) => ~Protected(f, x)
      BY DEF Stops, Subtree
    <2>2. Under(b, q)
      BY <1>1, <2>1, UnderTransitive DEF StrictlyUnder
    <2>3. ASSUME NEW x \in Path, Under(x, q), StrictlyUnder(b, x)
          PROVE  ~Protected(f, x)
      <3>1. CASE Under(x, c)
        BY <2>1, <2>3, <3>1
      <3>2. CASE ~Under(x, c)
        <4>1. StrictlyUnder(c, x)
          BY <1>1, <2>1, <2>3, <3>2, UnderComparable DEF StrictlyUnder
        <4>2. Under(q, x)
          BY <1>1, <4>1, UnderParent
        <4>3. x = q
          BY <2>3, <4>2, UnderAntisymmetric
        <4>. QED
          BY <4>3
      <3>. QED
        BY <3>1, <3>2
    <2>. QED
      BY <2>1, <2>2, <2>3 DEF Stops, Subtree
  <1>3. ASSUME NEW b \in Stops(f, q)
        PROVE  /\ b \in Path
               /\ StrictlyUnder(b, q)
               /\ \E c \in Children(f, q) : Under(b, c)
               /\ \A c \in Children(f, q) : Under(b, c) => b \in Stops(f, c)
    <2>1. /\ b \in Path /\ Under(b, q) /\ Exists(f, b) /\ Protected(f, b)
          /\ \A x \in Path : Under(x, q) /\ StrictlyUnder(b, x) => ~Protected(f, x)
      BY DEF Stops, Subtree
    <2>2. StrictlyUnder(b, q)
      BY <2>1 DEF StrictlyUnder
    <2>3. \E c \in Children(f, q) : Under(b, c)
      BY <2>1, <2>2, ChildrenFacts
    <2>4. ASSUME NEW c \in Children(f, q), Under(b, c)
          PROVE  b \in Stops(f, c)
      <3>1. \A x \in Path : Under(x, c) => Under(x, q)
        BY <1>1, UnderTransitive DEF StrictlyUnder
      <3>. QED
        BY <2>1, <2>4, <3>1 DEF Stops, Subtree
    <2>. QED
      BY <2>1, <2>2, <2>3, <2>4
  <1>. QED
    BY <1>2, <1>3

\* What is finished before b in q: the children before the one on the way to b,
\* and what is finished before b in that one.
LEMMA FinishedStep ==
    ASSUME NEW f \in Tree, WellFormed(f), NEW q \in Path,
           NEW order, Enumerates(order),
           NEW c \in Children(f, q), NEW b \in Stops(f, c),
           \A x \in Children(f, q) : Before(order, x, c) => Stops(f, x) = {}
    PROVE  FinishedFirst(f, q, b, order)
             = {x \in Children(f, q) : Before(order, x, c)} \cup FinishedFirst(f, c, b, order)
  <1>0. /\ c \in Path /\ c # Root /\ Parent(c) = q /\ StrictlyUnder(c, q)
        /\ b \in Path /\ Under(b, c)
    BY ChildrenFacts DEF Stops, Subtree
  <1>1. ASSUME NEW x \in Children(f, q), Before(order, x, c)
        PROVE  x \in FinishedFirst(f, q, b, order)
    <2>1. /\ x \in Path \ {Root} /\ Parent(x) = q /\ Exists(f, x) /\ StrictlyUnder(x, q)
      BY ChildrenFacts
    <2>2. x # c
      BY <1>0, <1>1, BeforeFacts
    <2>3. ~Under(b, x)
      BY <1>0, <2>1, <2>2, ChildrenFacts
    <2>4. \A r \in Subtree(f, x) : ~Protected(f, r)
      BY <1>1, <2>1, RemovalStops DEF Subtree
    <2>5. StrictlyUnder(b, Parent(x))
      BY <1>0, <2>1, UnderTransitive, UnderAntisymmetric DEF StrictlyUnder
    <2>6. x \in FinishedBefore(f, q, b)
      BY <2>1, <2>3, <2>4, <2>5 DEF FinishedBefore, Subtree, StrictlyUnder
    <2>7. Sooner(order, x, b)
      BY <1>0, <1>1, <2>1, ChildrenFacts DEF Sooner
    <2>. QED
      BY <2>6, <2>7 DEF FinishedFirst
  <1>2. ASSUME NEW x \in FinishedFirst(f, c, b, order)
        PROVE  x \in FinishedFirst(f, q, b, order)
    <2>1. /\ x \in Path /\ Under(x, c) /\ Exists(f, x) /\ x # c
          /\ StrictlyUnder(b, Parent(x)) /\ ~Under(b, x) /\ Sooner(order, x, b)
          /\ \A r \in Subtree(f, x) : ~Protected(f, r)
      BY DEF FinishedFirst, FinishedBefore, Subtree
    <2>2. Under(x, q) /\ x # q
      BY <1>0, <2>1, UnderTransitive, UnderAntisymmetric DEF StrictlyUnder
    <2>. QED
      BY <2>1, <2>2 DEF FinishedFirst, FinishedBefore, Subtree
  <1>3. ASSUME NEW x \in FinishedFirst(f, q, b, order)
        PROVE  \/ x \in Children(f, q) /\ Before(order, x, c)
               \/ x \in FinishedFirst(f, c, b, order)
    <2>1. /\ x \in Path /\ Under(x, q) /\ Exists(f, x) /\ x # q
          /\ StrictlyUnder(b, Parent(x)) /\ ~Under(b, x) /\ Sooner(order, x, b)
          /\ \A r \in Subtree(f, x) : ~Protected(f, r)
      BY DEF FinishedFirst, FinishedBefore, Subtree
    <2>2. x # Root /\ Under(Parent(x), q) /\ Parent(x) \in Path /\ StrictlyUnder(x, Parent(x))
      <3>1. x # Root /\ Under(Parent(x), q)
        BY <2>1, UnderParent DEF StrictlyUnder
      <3>. QED
        BY <2>1, <3>1, ParentFacts
    <2>3. CASE Parent(x) = q
      <3>1. x \in Children(f, q)
        BY <2>1, <2>2, <2>3 DEF Children
      <3>2. Before(order, x, c)
        BY <1>0, <2>1, <2>3 DEF Sooner
      <3>. QED
        BY <3>1, <3>2
    <2>4. CASE Parent(x) # q
      <3>1. Under(Parent(x), c)
        <4>1. Under(b, Parent(x))
          BY <2>1 DEF StrictlyUnder
        <4>2. Under(Parent(x), c) \/ Under(c, Parent(x))
          BY <1>0, <2>2, <4>1, UnderComparable
        <4>3. ASSUME Under(c, Parent(x)), Parent(x) # c
              PROVE  FALSE
          <5>1. Under(q, Parent(x))
            BY <1>0, <2>2, <4>3, UnderParent DEF StrictlyUnder
          <5>. QED
            BY <2>2, <2>4, <5>1, UnderAntisymmetric
        <4>. QED
          BY <1>0, <4>2, <4>3, PathFacts
      <3>2. Under(x, c) /\ x # c
        BY <1>0, <2>1, <2>2, <2>4, <3>1, UnderTransitive DEF StrictlyUnder
      <3>3. x \in FinishedFirst(f, c, b, order)
        BY <2>1, <3>2 DEF FinishedFirst, FinishedBefore, Subtree
      <3>. QED
        BY <3>3
    <2>. QED
      BY <2>3, <2>4
  <1>. QED
    BY <1>1, <1>2, <1>3

\* Where the loop over the children of q is after i turns.
ChildrenEnds(g, q, order, i, d) ==
    LET done(k) == Among(Children(g, q), order, k)
    IN  \/ /\ \A c \in done(i) : Stops(g, c) = {}
           /\ d = Done(Detach(g, done(i)))
        \/ \E k \in 1..i :
              /\ order[k] \in Children(g, q)
              /\ \A c \in done(k - 1) : Stops(g, c) = {}
              /\ \E b \in Stops(g, order[k]) :
                    /\ d = Raised(Detach(g, done(k - 1) \cup FinishedFirst(g, order[k], b, order)))
                    /\ \A a \in Stops(g, order[k]) \ {b} : Precedes(order, b, a)

\* One more child, when all before it have gone.
LEMMA ChildEnds ==
    ASSUME NEW g \in Tree, WellFormed(g), Bare(g), NEW q \in Path, ~Protected(g, q),
           NEW order, NEW remove, NEW D \in SUBSET Children(g, q),
           NEW c \in Children(g, q) \ D,
           \A h \in Tree : WellFormed(h) /\ Bare(h) /\ Exists(h, c) /\ ~Protected(h, Parent(c))
              => RemoveEnds(h, c, order, remove[c][h])
    PROVE  LET d == remove[c][Detach(g, D)]
           IN  \/ Stops(g, c) = {} /\ d = Done(Detach(g, D \cup {c}))
               \/ \E b \in Stops(g, c) :
                     /\ d = Raised(Detach(g, D \cup FinishedFirst(g, c, b, order)))
                     /\ \A a \in Stops(g, c) \ {b} : Precedes(order, b, a)
  <1>. DEFINE h == Detach(g, D)
              d == remove[c][h]
  <1>1. /\ c \in Path \ {Root} /\ Parent(c) = q /\ Exists(g, c) /\ StrictlyUnder(c, q)
        /\ D \in SUBSET Path /\ Root \notin D
    BY ChildrenFacts
  <1>2. h \in Tree /\ WellFormed(h) /\ Bare(h)
        /\ \A x \in Path : (\A t \in D : ~Under(x, t)) => h[x] = g[x]
    BY <1>1, DetachFacts, BareOperators
  <1>. HIDE DEF h
  <1>3. ASSUME NEW t \in D, NEW x \in Path, Under(x, t), Under(x, c)
        PROVE  FALSE
    <2>1. t \in Path \ {Root} /\ Parent(t) = q /\ t # c
      BY ChildrenFacts
    <2>2. t = c
      BY <1>1, <1>3, <2>1, ChildrenFacts
    <2>. QED
      BY <2>1, <2>2
  <1>4. \A x \in Path : Under(x, c) => h[x] = g[x]
    BY <1>2, <1>3
  <1>5. h[q] = g[q]
    <2>1. \A t \in D : ~Under(q, t)
      <3>1. ASSUME NEW t \in D, Under(q, t)
            PROVE  FALSE
        <4>1. t \in Path /\ StrictlyUnder(t, q)
          BY ChildrenFacts
        <4>. QED
          BY <3>1, <4>1, UnderAntisymmetric DEF StrictlyUnder
      <3>. QED
        BY <3>1
    <2>. QED
      BY <1>2, <2>1
  <1>6. Exists(h, c) /\ ~Protected(h, Parent(c))
    BY <1>1, <1>4, <1>5, PathFacts DEF Exists, Protected
  <1>7. RemoveEnds(h, c, order, d)
    BY <1>2, <1>6
  <1>8. /\ Stops(h, c) = Stops(g, c)
        /\ \A b : FinishedFirst(h, c, b, order) = FinishedFirst(g, c, b, order)
    BY <1>1, <1>2, <1>4, SameBelow
  <1>9. \A F : Detach(h, F) = Detach(g, D \cup F)
    BY DetachTwice DEF h
  <1>. HIDE DEF d
  <1>10. \/ Stops(g, c) = {} /\ d = Done(Detach(g, D \cup {c}))
         \/ \E b \in Stops(g, c) :
               /\ d = Raised(Detach(g, D \cup FinishedFirst(g, c, b, order)))
               /\ \A a \in Stops(g, c) \ {b} : Precedes(order, b, a)
    BY <1>7, <1>8, <1>9 DEF RemoveEnds
  <1>. QED
    BY <1>10 DEF d, h

\* Where the loop of a removal over the children has ended.
LEMMA ChildrenLoop ==
    ASSUME NEW g \in Tree, WellFormed(g), Bare(g), NEW q \in Path, ~Protected(g, q),
           NEW order, Enumerates(order), NEW remove,
           \A c \in Children(g, q), h \in Tree :
              WellFormed(h) /\ Bare(h) /\ Exists(h, c) /\ ~Protected(h, Parent(c))
                 => RemoveEnds(h, c, order, remove[c][h])
    PROVE  ChildrenEnds(g, q, order, Len(order), Loop(g, Children(g, q), order, remove))
  <1>. DEFINE C == Children(g, q)
              all == {Done(Detach(g, T)) : T \in SUBSET Path}
                       \cup {Raised(Detach(g, T)) : T \in SUBSET Path}
              ends(i) == {d \in all : ChildrenEnds(g, q, order, i, d)}
              inv == [i \in 0..Len(order) |-> ends(i)]
  <1>0. C \in SUBSET Path
    BY DEF Children
  <1>1. /\ Len(order) \in Nat
        /\ Among(C, order, 0) = {}
        /\ \A i \in 1..Len(order) :
             /\ order[i] \notin Among(C, order, i - 1)
             /\ order[i] \in C => Among(C, order, i) = Among(C, order, i - 1) \cup {order[i]}
             /\ order[i] \notin C => Among(C, order, i) = Among(C, order, i - 1)
    <2>. HIDE DEF C
    <2>. QED
      BY <1>0, AmongFacts
  <1>2. \A i : Among(C, order, i) \in SUBSET C
    BY DEF Among
  <1>3. \A c, b : FinishedFirst(g, c, b, order) \in SUBSET Path
    BY DEF FinishedFirst, FinishedBefore, Subtree
  <1>4. \A i, d : ChildrenEnds(g, q, order, i, d) => d \in all
    <2>1. ASSUME NEW i, NEW d, ChildrenEnds(g, q, order, i, d)
          PROVE  \E T \in SUBSET Path : d = Done(Detach(g, T)) \/ d = Raised(Detach(g, T))
      <3>1. \A k : Among(C, order, k) \in SUBSET Path
        BY <1>0, <1>2
      <3>2. CASE d = Done(Detach(g, Among(C, order, i)))
        BY <3>1, <3>2
      <3>3. CASE \E k, c, b :
                    d = Raised(Detach(g, Among(C, order, k) \cup FinishedFirst(g, c, b, order)))
        <4>1. PICK k, c, b :
                    d = Raised(Detach(g, Among(C, order, k) \cup FinishedFirst(g, c, b, order)))
          BY <3>3
        <4>2. Among(C, order, k) \cup FinishedFirst(g, c, b, order) \in SUBSET Path
          BY <1>3, <3>1
        <4>. QED
          BY <4>1, <4>2
      <3>. QED
        BY <2>1, <3>2, <3>3 DEF ChildrenEnds
    <2>2. ASSUME NEW d, NEW T \in SUBSET Path, d = Done(Detach(g, T)) \/ d = Raised(Detach(g, T))
          PROVE  d \in all
      BY <2>2
    <2>. HIDE DEF all
    <2>. QED
      BY <2>1, <2>2
  <1>5. Done(g) \in inv[0]
    <2>1. 0 \in 0..Len(order)
      BY <1>1
    <2>2. Detach(g, {}) = g
      BY DEF Detach, Tree
    <2>3. ChildrenEnds(g, q, order, 0, Done(g))
      BY <1>1, <2>2 DEF ChildrenEnds
    <2>. HIDE DEF all
    <2>. QED
      BY <1>4, <2>1, <2>3
  <1>. HIDE DEF all
  <1>6. ASSUME NEW i \in 1..Len(order), NEW d \in inv[i - 1]
        PROVE  Continue(d, C, order[i], remove) \in inv[i]
    <2>. DEFINE e == Continue(d, C, order[i], remove)
                D == Among(C, order, i - 1)
                c == order[i]
    <2>1. i - 1 \in 0..Len(order) /\ i \in 0..Len(order) /\ i \in 1..i
          /\ \A k \in 1..i - 1 : k \in 1..i
      BY <1>1
    <2>2. ChildrenEnds(g, q, order, i - 1, d)
      BY <2>1
    <2>. HIDE DEF e
    <2>3. ASSUME \A x \in D : Stops(g, x) = {}, d = Done(Detach(g, D)), c \in C
          PROVE  ChildrenEnds(g, q, order, i, e)
      <3>1. c \notin D /\ Among(C, order, i) = D \cup {c} /\ D \in SUBSET C
        BY <1>1, <1>2, <2>3
      <3>2. e = remove[c][Detach(g, D)]
        BY <2>3 DEF e, Continue, Done
      <3>. HIDE DEF D, C, c
      <3>3. \/ Stops(g, c) = {} /\ e = Done(Detach(g, D \cup {c}))
            \/ \E b \in Stops(g, c) :
                  /\ e = Raised(Detach(g, D \cup FinishedFirst(g, c, b, order)))
                  /\ \A a \in Stops(g, c) \ {b} : Precedes(order, b, a)
        <4>1. D \in SUBSET Children(g, q) /\ c \in Children(g, q) \ D
          BY <2>3, <3>1 DEF C
        <4>2. \A h \in Tree : WellFormed(h) /\ Bare(h) /\ Exists(h, c) /\ ~Protected(h, Parent(c))
                 => RemoveEnds(h, c, order, remove[c][h])
          BY <4>1
        <4>. QED
          BY <3>2, <4>1, <4>2, ChildEnds
      <3>4. CASE Stops(g, c) = {} /\ e = Done(Detach(g, D \cup {c}))
        <4>1. \A x \in D \cup {c} : Stops(g, x) = {}
          BY <2>3, <3>4
        <4>. QED
          BY <3>1, <3>4, <4>1 DEF ChildrenEnds, C
      <3>5. CASE \E b \in Stops(g, c) :
                  /\ e = Raised(Detach(g, D \cup FinishedFirst(g, c, b, order)))
                  /\ \A a \in Stops(g, c) \ {b} : Precedes(order, b, a)
        BY <2>1, <2>3, <3>5 DEF ChildrenEnds, C, D, c
      <3>. QED
        BY <3>3, <3>4, <3>5
    <2>4. ASSUME \A x \in D : Stops(g, x) = {}, d = Done(Detach(g, D)), c \notin C
          PROVE  ChildrenEnds(g, q, order, i, e)
      <3>1. e = d /\ Among(C, order, i) = D
        BY <1>1, <2>4 DEF e, Continue
      <3>. QED
        BY <2>4, <3>1 DEF ChildrenEnds
    <2>5. ASSUME NEW k \in 1..i - 1, order[k] \in C,
                 \A x \in Among(C, order, k - 1) : Stops(g, x) = {},
                 \E b \in Stops(g, order[k]) :
                    /\ d = Raised(Detach(g, Among(C, order, k - 1)
                                               \cup FinishedFirst(g, order[k], b, order)))
                    /\ \A a \in Stops(g, order[k]) \ {b} : Precedes(order, b, a)
          PROVE  ChildrenEnds(g, q, order, i, e)
      <3>1. e = d
        BY <2>5 DEF e, Continue, Raised
      <3>2. k \in 1..i
        BY <2>1
      <3>. QED
        BY <2>5, <3>1, <3>2 DEF ChildrenEnds
    <2>6. ChildrenEnds(g, q, order, i, e)
      <3>1. \/ (\A x \in D : Stops(g, x) = {}) /\ d = Done(Detach(g, D))
            \/ \E k \in 1..i - 1 :
                 /\ order[k] \in C
                 /\ \A x \in Among(C, order, k - 1) : Stops(g, x) = {}
                 /\ \E b \in Stops(g, order[k]) :
                       /\ d = Raised(Detach(g, Among(C, order, k - 1)
                                               \cup FinishedFirst(g, order[k], b, order)))
                       /\ \A a \in Stops(g, order[k]) \ {b} : Precedes(order, b, a)
        BY <2>2 DEF ChildrenEnds
      <3>. HIDE DEF D, C, c
      <3>. QED
        BY <2>3, <2>4, <2>5, <3>1
    <2>7. e \in inv[i]
      BY <1>4, <2>1, <2>6
    <2>. QED
      BY <2>7 DEF e
  <1>7. Loop(g, C, order, remove) \in inv[Len(order)]
    <2>. HIDE DEF inv, C
    <2>. QED
      BY <1>1, <1>5, <1>6, LoopInvariant
  <1>8. Len(order) \in 0..Len(order)
    BY <1>1
  <1>. QED
    BY <1>7, <1>8

\* One call of remove, when the calls for its children end as they should.
LEMMA RemoveOneEnds ==
    ASSUME NEW g \in Tree, WellFormed(g), Bare(g), NEW q \in Path, q # Root, Exists(g, q),
           ~Protected(g, Parent(q)), NEW order, Enumerates(order), NEW remove,
           \A c \in Children(g, q), h \in Tree :
              WellFormed(h) /\ Bare(h) /\ Exists(h, c) /\ ~Protected(h, Parent(c))
                 => RemoveEnds(h, c, order, remove[c][h])
    PROVE  RemoveEnds(g, q, order, RemoveOne(remove, order, q, g))
  <1>. DEFINE C == Children(g, q)
              below == Loop(g, C, order, remove)
              d == RemoveOne(remove, order, q, g)
  <1>1. d = IF Protected(g, q) THEN Raised(g)
            ELSE IF below.ok THEN Done([below.tree EXCEPT ![q] = Absent])
            ELSE below
    BY DEF RemoveOne
  <1>2. C \in SUBSET Path
    BY DEF Children
  <1>3. CASE Protected(g, q)
    <2>1. q \in Stops(g, q)
      BY <1>3, PathFacts, UnderAntisymmetric DEF Stops, Subtree, StrictlyUnder
    <2>2. \A a \in Stops(g, q) : a = q
      BY <1>3, PathFacts DEF Stops, Subtree, StrictlyUnder
    <2>3. FinishedFirst(g, q, q, order) = {}
      <3>1. ASSUME NEW x \in FinishedFirst(g, q, q, order)
            PROVE  FALSE
        <4>1. x \in Path /\ Under(x, q) /\ x # q /\ StrictlyUnder(q, Parent(x))
          BY DEF FinishedFirst, FinishedBefore, Subtree
        <4>2. x # Root /\ Under(Parent(x), q) /\ Parent(x) \in Path
          <5>1. x # Root /\ Under(Parent(x), q)
            BY <4>1, UnderParent DEF StrictlyUnder
          <5>. QED
            BY <4>1, <5>1, ParentFacts
        <4>. QED
          BY <4>1, <4>2, UnderAntisymmetric DEF StrictlyUnder
      <3>. QED
        BY <3>1
    <2>4. Detach(g, {}) = g
      BY DEF Detach, Tree
    <2>5. d = Raised(Detach(g, FinishedFirst(g, q, q, order)))
      BY <1>1, <1>3, <2>3, <2>4
    <2>. HIDE DEF d
    <2>6. RemoveEnds(g, q, order, d)
      BY <2>1, <2>2, <2>5 DEF RemoveEnds
    <2>. QED
      BY <2>6 DEF d
  <1>4. CASE ~Protected(g, q)
    <2>1. ChildrenEnds(g, q, order, Len(order), below)
      BY <1>4, ChildrenLoop
    <2>2. /\ Len(order) \in Nat
          /\ \A i \in 1..Len(order) : order[i] \in Path
          /\ Among(C, order, Len(order)) = C
          /\ \A k \in 1..Len(order) :
               Among(C, order, k - 1) = {x \in C : Before(order, x, order[k])}
      <3>. HIDE DEF C
      <3>. QED
        BY <1>2, AmongFacts, BeforeFacts
    <2>3. d = IF below.ok THEN Done([below.tree EXCEPT ![q] = Absent]) ELSE below
      BY <1>1, <1>4
    <2>. HIDE DEF below, d
    <2>4. CASE (\A c \in C : Stops(g, c) = {}) /\ below = Done(Detach(g, C))
      <3>1. Stops(g, q) = {}
        BY <1>4, <2>4, ChildStops
      <3>2. d = Done([Detach(g, C) EXCEPT ![q] = Absent])
        BY <2>3, <2>4 DEF Done
      <3>. DEFINE h == Detach(g, C)
                  k == Detach(g, {q})
      <3>3. ASSUME NEW x \in Path
            PROVE  k[x] = IF x = q THEN Absent ELSE h[x]
        <4>1. k[x] = IF Under(x, q) THEN Absent ELSE g[x]
          BY DEF Detach
        <4>2. h[x] = IF \E c \in C : Under(x, c) THEN Absent ELSE g[x]
          BY DEF Detach
        <4>3. ASSUME NEW c \in C, Under(x, c)
              PROVE  Under(x, q)
          <5>1. c \in Path /\ StrictlyUnder(c, q)
            BY ChildrenFacts
          <5>. QED
            BY <4>3, <5>1, UnderTransitive DEF StrictlyUnder
        <4>4. ASSUME Under(x, q), x # q, ~\E c \in C : Under(x, c)
              PROVE  g[x] = Absent
          <5>1. ~Exists(g, x)
            BY <4>4, ChildrenFacts DEF StrictlyUnder
          <5>. QED
            BY <5>1 DEF Bare
        <4>5. Under(q, q)
          BY PathFacts
        <4>. HIDE DEF h, k
        <4>. QED
          BY <4>1, <4>2, <4>3, <4>4, <4>5
      <3>4. h = [x \in Path |-> h[x]] /\ k = [x \in Path |-> k[x]]
        BY DEF Detach
      <3>. HIDE DEF h, k
      <3>5. [h EXCEPT ![q] = Absent] = [x \in Path |-> IF x = q THEN Absent ELSE h[x]]
        BY <3>4
      <3>6. [h EXCEPT ![q] = Absent] = k
        BY <3>3, <3>4, <3>5
      <3>7. d = Done(k)
        BY <3>2, <3>6 DEF h
      <3>. QED
        BY <3>1, <3>7 DEF RemoveEnds, d, k
    <2>5. ASSUME NEW n \in 1..Len(order), order[n] \in C,
                 \A x \in Among(C, order, n - 1) : Stops(g, x) = {},
                 NEW b \in Stops(g, order[n]),
                 below = Raised(Detach(g, Among(C, order, n - 1)
                                            \cup FinishedFirst(g, order[n], b, order))),
                 \A a \in Stops(g, order[n]) \ {b} : Precedes(order, b, a)
          PROVE  RemoveEnds(g, q, order, d)
      <3>1. PICK c \in C : c = order[n]
        BY <2>5
      <3>. DEFINE D == {x \in C : Before(order, x, c)}
      <3>2. Among(C, order, n - 1) = D
        BY <2>2, <3>1
      <3>3. \A x \in C : Before(order, x, c) => Stops(g, x) = {}
        BY <2>5, <3>2
      <3>4. b \in Stops(g, c) /\ below = Raised(Detach(g, D \cup FinishedFirst(g, c, b, order)))
            /\ \A a \in Stops(g, c) \ {b} : Precedes(order, b, a)
        BY <2>5, <3>1, <3>2
      <3>5. FinishedFirst(g, q, b, order) = D \cup FinishedFirst(g, c, b, order)
        BY <3>3, <3>4, FinishedStep
      <3>6. b \in Stops(g, q)
        BY <1>4, <3>4, ChildStops
      <3>. HIDE DEF D
      <3>7. d = Raised(Detach(g, FinishedFirst(g, q, b, order)))
        <4>1. ~below.ok
          BY <3>4 DEF Raised
        <4>. QED
          BY <2>3, <3>4, <3>5, <4>1
      <3>8. ASSUME NEW a \in Stops(g, q) \ {b}
            PROVE  Precedes(order, b, a)
        <4>1. PICK x \in C : Under(a, x) /\ a \in Stops(g, x)
          BY <1>4, ChildStops
        <4>2. CASE x = c
          BY <3>4, <4>1, <4>2
        <4>3. CASE x # c
          <5>1. ~Before(order, x, c)
            BY <3>3, <4>1
          <5>2. /\ x \in Path \ {Root} /\ c \in Path \ {Root}
                /\ Parent(x) = q /\ Parent(c) = q
            BY ChildrenFacts
          <5>3. Before(order, c, x)
            BY <4>3, <5>1, <5>2, BeforeFacts
          <5>4. Under(b, c)
            BY <3>4 DEF Stops, Subtree
          <5>. QED
            BY <4>1, <5>2, <5>3, <5>4 DEF Precedes
        <4>. QED
          BY <4>2, <4>3
      <3>. QED
        BY <3>6, <3>7, <3>8 DEF RemoveEnds
    <2>6. \/ (\A c \in C : Stops(g, c) = {}) /\ below = Done(Detach(g, C))
          \/ \E n \in 1..Len(order) :
               /\ order[n] \in C
               /\ \A x \in Among(C, order, n - 1) : Stops(g, x) = {}
               /\ \E b \in Stops(g, order[n]) :
                     /\ below = Raised(Detach(g, Among(C, order, n - 1)
                                                   \cup FinishedFirst(g, order[n], b, order)))
                     /\ \A a \in Stops(g, order[n]) \ {b} : Precedes(order, b, a)
      BY <2>1, <2>2 DEF ChildrenEnds
    <2>7. RemoveEnds(g, q, order, d)
      <3>1. CASE (\A c \in C : Stops(g, c) = {}) /\ below = Done(Detach(g, C))
        BY <2>4, <3>1 DEF d
      <3>. HIDE DEF C
      <3>. QED
        BY <2>5, <2>6, <3>1
    <2>. QED
      BY <2>7 DEF d
  <1>. QED
    BY <1>3, <1>4

\* A removal ends as RemoveEnds says, whatever it is called for.
LEMMA RemoveCallsEnds ==
    ASSUME NEW order, Enumerates(order), NEW f \in Tree, WellFormed(f), Bare(f),
           NEW p \in Path, p # Root, Exists(f, p), ~Protected(f, Parent(p))
    PROVE  RemoveEnds(f, p, order, RemoveCalls(f, p, order))
  <1>1. PICK remove : /\ \A q \in Path, g \in Tree : remove[q][g] = RemoveOne(remove, order, q, g)
                      /\ \A h \in Tree, q \in Path : RemoveCalls(h, q, order) = remove[q][h]
    BY RemoveIs
  <1>2. PICK n \in Nat : \A q \in Path : Len(q) <= n
    BY PathsAreBounded
  <1>. DEFINE Ends(q) == \A g \in Tree :
                  WellFormed(g) /\ Bare(g) /\ Exists(g, q) /\ ~Protected(g, Parent(q))
                     => RemoveEnds(g, q, order, remove[q][g])
              wrong == {k \in Nat : \E q \in Path : q # Root /\ n - Len(q) = k /\ ~Ends(q)}
  <1>3. ASSUME NEW k \in wrong, \A j \in wrong : k <= j
        PROVE  FALSE
    <2>1. PICK q \in Path : q # Root /\ n - Len(q) = k /\ ~Ends(q)
      OBVIOUS
    <2>2. PICK g \in Tree : /\ WellFormed(g) /\ Bare(g) /\ Exists(g, q) /\ ~Protected(g, Parent(q))
                            /\ ~RemoveEnds(g, q, order, remove[q][g])
      BY <2>1
    <2>. HIDE DEF Ends
    <2>3. ASSUME NEW c \in Children(g, q)
          PROVE  Ends(c)
      <3>1. c \in Path /\ c # Root /\ Parent(c) = q
        BY DEF Children
      <3>2. PICK l \in Nat : l = Len(c)
        BY <3>1, PathFacts
      <3>3. Len(q) = l - 1 /\ l <= n
        BY <1>2, <3>1, <3>2, ParentFacts
      <3>4. n - l \in Nat /\ n - l = k - 1 /\ k \in Nat
        BY <2>1, <3>2, <3>3
      <3>5. ~(k <= n - l)
        BY <3>4
      <3>6. n - l \notin wrong
        BY <1>3, <3>5
      <3>. QED
        BY <3>1, <3>2, <3>4, <3>6
    <2>4. \A c \in Children(g, q), h \in Tree :
              WellFormed(h) /\ Bare(h) /\ Exists(h, c) /\ ~Protected(h, Parent(c))
                 => RemoveEnds(h, c, order, remove[c][h])
      BY <2>3 DEF Ends
    <2>5. RemoveEnds(g, q, order, RemoveOne(remove, order, q, g))
      BY <2>1, <2>2, <2>4, RemoveOneEnds
    <2>. QED
      BY <1>1, <2>2, <2>5
  <1>4. wrong = {}
    <2>1. wrong \in SUBSET Nat
      OBVIOUS
    <2>. HIDE DEF wrong
    <2>. QED
      BY <1>3, <2>1, LeastElement
  <1>5. Ends(p)
    <2>1. Len(p) \in Nat /\ Len(p) <= n
      BY <1>2, PathFacts
    <2>2. n - Len(p) \in Nat
      BY <2>1
    <2>. HIDE DEF Ends
    <2>. QED
      BY <1>4, <2>2
  <1>. QED
    BY <1>1, <1>5

\* What is finished before b lies beside the way to b, and holds no protected node.
LEMMA FinishedFacts ==
    ASSUME NEW f \in Tree, NEW p \in Path, NEW b \in Stops(f, p),
           NEW x \in FinishedBefore(f, p, b)
    PROVE  /\ x \in Path \ {Root} /\ Under(x, p) /\ x # p
           /\ b \in Path /\ ~Under(b, x) /\ StrictlyUnder(b, Parent(x))
           /\ \A a \in Stops(f, p) : ~Under(a, x)
           /\ \E c \in Path \ {Root} : Under(b, c) /\ Parent(c) = Parent(x)
  <1>1. /\ x \in Path /\ Under(x, p) /\ x # p
        /\ ~Under(b, x) /\ StrictlyUnder(b, Parent(x))
        /\ \A r \in Subtree(f, x) : ~Protected(f, r)
    BY DEF FinishedBefore, Subtree
  <1>2. \A a \in Stops(f, p) : a \in Path /\ Exists(f, a) /\ Protected(f, a)
    BY DEF Stops, Subtree
  <1>3. x # Root
    BY <1>1, UnderParent DEF StrictlyUnder
  <1>4. \A a \in Stops(f, p) : ~Under(a, x)
    BY <1>1, <1>2 DEF Subtree
  <1>5. \E c \in Path \ {Root} : Under(b, c) /\ Parent(c) = Parent(x)
    BY <1>1, <1>2, <1>3, ParentFacts, ChildTowards
  <1>. QED
    BY <1>1, <1>2, <1>3, <1>4, <1>5

\* In an order that has the tops first and then the way to b, a removal takes
\* out the tops and ends with b.
LEMMA RemovalStopsThere ==
    ASSUME NEW f \in Tree, WellFormed(f), NEW p \in Path, NEW b \in Stops(f, p),
           NEW tops \in SUBSET FinishedBefore(f, p, b),
           NEW order, Enumerates(order),
           StartsWith(order, tops, {c \in Path \ {Root} : Under(b, c)}),
           NEW d, RemoveEnds(f, p, order, d)
    PROVE  d = Raised(Detach(f, tops))
  <1>. DEFINE Way == {c \in Path \ {Root} : Under(b, c)}
  <1>1. \A x \in tops : x \in Path \ {Root} /\ x \notin Way
    BY FinishedFacts
  <1>2. \A x, y \in Path \ {Root} : \/ x \in tops /\ y \notin tops
                                    \/ x \in Way /\ y \notin tops \cup Way
                                    => Before(order, x, y)
    BY DEF StartsWith
  <1>3. \A x, y \in Path : Before(order, x, y) => ~Before(order, y, x)
    BY BeforeFacts
  <1>4. b \in Path
    BY DEF Stops, Subtree
  <1>5. PICK a \in Stops(f, p) :
          /\ d = Raised(Detach(f, FinishedFirst(f, p, a, order)))
          /\ a # b => Precedes(order, a, b)
    BY DEF RemoveEnds
  <1>6. a = b
    <2>1. SUFFICES ASSUME Precedes(order, a, b)
                   PROVE  FALSE
      BY <1>5
    <2>2. PICK c \in Path \ {Root}, e \in Path \ {Root} :
            Parent(c) = Parent(e) /\ Under(a, c) /\ Under(b, e) /\ Before(order, c, e)
      BY <2>1 DEF Precedes
    <2>3. c # e /\ ~Before(order, e, c)
      BY <1>3, <2>2
    <2>4. c \notin Way
      BY <1>4, <2>2, <2>3, ChildrenFacts, RootFacts
    <2>5. e \in Way
      BY <2>2
    <2>6. c \in tops
      BY <1>2, <2>3, <2>4, <2>5
    <2>. QED
      BY <2>2, <2>6, FinishedFacts
  <1>7. ASSUME NEW x \in FinishedBefore(f, p, b)
        PROVE  x \in tops <=> Sooner(order, x, b)
    <2>1. x \in Path \ {Root} /\ x \notin Way
      BY FinishedFacts
    <2>2. PICK c \in Way : Parent(c) = Parent(x)
      BY FinishedFacts
    <2>3. ASSUME x \in tops
          PROVE  Sooner(order, x, b)
      BY <1>1, <1>2, <2>1, <2>3 DEF Sooner
    <2>4. ASSUME x \notin tops
          PROVE  ~Sooner(order, x, b)
      <3>1. Before(order, c, x)
        BY <1>2, <2>1, <2>2, <2>4
      <3>2. ~Before(order, x, c)
        BY <1>3, <2>1, <3>1
      <3>. QED
        BY <2>2, <3>2 DEF Sooner
    <2>. QED
      BY <2>3, <2>4
  <1>8. FinishedFirst(f, p, b, order) = tops
    BY <1>7 DEF FinishedFirst
  <1>. QED
    BY <1>5, <1>6, <1>8

\* All the ends of a removal.
LEMMA RemovalSums ==
    ASSUME IsFiniteSet(Path),
           NEW f \in Tree, WellFormed(f), Bare(f), NEW p \in Path \ {Root},
           Exists(f, p), ~Protected(f, Parent(p))
    PROVE  LET ends == {RemoveCalls(f, p, order) : order \in Orders}
           IN  /\ {e.tree : e \in ends} = {Detach(f, tops) : tops \in RemovalOutcomes(f, p)}
               /\ \A e \in ends : e.ok = ~Exists(e.tree, p)
  <1>. DEFINE ends == {RemoveCalls(f, p, order) : order \in Orders}
  <1>1. \A order \in Orders : Enumerates(order)
    BY OrderAssumption
  <1>2. \A order \in Orders : RemoveEnds(f, p, order, RemoveCalls(f, p, order))
    BY <1>1, RemoveCallsEnds
  <1>3. /\ Done(Detach(f, {p})).tree = Detach(f, {p})
        /\ \A tops : Raised(Detach(f, tops)).tree = Detach(f, tops)
    BY DEF Done, Raised
  <1>4. ASSUME NEW e \in ends
        PROVE  /\ \E tops \in RemovalOutcomes(f, p) : e.tree = Detach(f, tops)
               /\ e.ok = ~Exists(e.tree, p)
    <2>1. PICK order \in Orders : e = RemoveCalls(f, p, order)
      OBVIOUS
    <2>2. RemoveEnds(f, p, order, e)
      BY <1>2, <2>1
    <2>3. CASE Stops(f, p) = {} /\ e = Done(Detach(f, {p}))
      <3>1. {p} \in RemovalOutcomes(f, p)
        BY <2>3 DEF RemovalOutcomes
      <3>2. e.tree = Detach(f, {p})
        BY <1>3, <2>3
      <3>3. ~Exists(Detach(f, {p}), p)
        BY NodeFacts, PathFacts DEF Detach, Exists
      <3>4. e.ok = TRUE
        BY <2>3 DEF Done
      <3>. QED
        BY <3>1, <3>2, <3>3, <3>4
    <2>4. ASSUME NEW b \in Stops(f, p), e = Raised(Detach(f, FinishedFirst(f, p, b, order)))
          PROVE  /\ \E tops \in RemovalOutcomes(f, p) : e.tree = Detach(f, tops)
                 /\ e.ok = ~Exists(e.tree, p)
      <3>. DEFINE tops == FinishedFirst(f, p, b, order)
      <3>1. tops \in SUBSET FinishedBefore(f, p, b)
        BY DEF FinishedFirst
      <3>2. tops \in RemovalOutcomes(f, p)
        BY <3>1 DEF RemovalOutcomes
      <3>3. \A x \in tops : ~Under(p, x)
        <4>1. ASSUME NEW x \in tops
              PROVE  ~Under(p, x)
          <5>1. x \in Path /\ Under(x, p) /\ x # p
            BY <3>1, FinishedFacts
          <5>. QED
            BY <5>1, UnderAntisymmetric
        <4>. QED
          BY <4>1
      <3>4. Exists(Detach(f, tops), p)
        BY <3>3 DEF Detach, Exists
      <3>5. e.tree = Detach(f, tops) /\ e.ok = FALSE
        BY <2>4 DEF Raised
      <3>. HIDE DEF tops
      <3>. QED
        BY <3>2, <3>4, <3>5
    <2>. QED
      BY <2>2, <2>3, <2>4 DEF RemoveEnds
  <1>5. ASSUME NEW tops \in RemovalOutcomes(f, p)
        PROVE  \E e \in ends : e.tree = Detach(f, tops)
    <2>1. CASE Stops(f, p) = {}
      <3>1. PICK order \in Orders : TRUE
        <4>1. {} \in SUBSET (Path \ {Root}) /\ {} \cap {} = {}
          OBVIOUS
        <4>. QED
          BY <4>1, OrderAssumption
      <3>2. tops = {p}
        BY <2>1 DEF RemovalOutcomes
      <3>3. RemoveCalls(f, p, order) = Done(Detach(f, {p}))
        BY <1>2, <2>1 DEF RemoveEnds
      <3>. QED
        BY <1>3, <3>2, <3>3
    <2>2. CASE Stops(f, p) # {}
      <3>1. PICK b \in Stops(f, p) : tops \in SUBSET FinishedBefore(f, p, b)
        BY <2>2 DEF RemovalOutcomes
      <3>. DEFINE Way == {c \in Path \ {Root} : Under(b, c)}
      <3>2. /\ tops \in SUBSET (Path \ {Root})
            /\ Way \in SUBSET (Path \ {Root})
            /\ tops \cap Way = {}
        BY <3>1, FinishedFacts
      <3>. HIDE DEF Way
      <3>3. PICK order \in Orders : StartsWith(order, tops, Way)
        BY <3>2, OrderAssumption
      <3>4. RemoveCalls(f, p, order) = Raised(Detach(f, tops))
        BY <1>1, <1>2, <3>1, <3>3, RemovalStopsThere DEF Way
      <3>. QED
        BY <1>3, <3>4
    <2>. QED
      BY <2>1, <2>2
  <1>6. {e.tree : e \in ends} = {Detach(f, tops) : tops \in RemovalOutcomes(f, p)}
    <2>. HIDE DEF ends
    <2>. QED
      BY <1>4, <1>5
  <1>. QED
    BY <1>4, <1>6

-----------------------------------------------------------------------------
(* restore, depth by depth. *)

\* One more node of the snapshot.
LEMMA RestoreNodeIs ==
    ASSUME NEW g \in Tree, WellFormed(g), NEW T, Restored(g, T),
           NEW p \in Subtree(g, Root) \ T,
           \A q \in Subtree(g, Root) : Len(q) < Len(p) => q \in T
    PROVE  RestoreNode(g, RestoreTree(g, T), p) =
             IF p \in Unrestorable(g) THEN Raised(RestoreTree(g, T))
             ELSE Done(RestoreTree(g, T \cup {p}))
  <1>. DEFINE f == RestoreTree(g, T)
              h == RestoreTree(g, T \cup {p})
  <1>1. /\ p \in Path /\ Exists(g, p) /\ p # Root
        /\ Parent(p) \in Path /\ StrictlyUnder(p, Parent(p))
    <2>1. p \in Path /\ Exists(g, p) /\ p # Root
      BY DEF Restored, Subtree
    <2>. QED
      BY <2>1, ParentFacts
  <1>2. /\ f \in Tree /\ WellFormed(f)
        /\ \A q \in Path : f[q] = IF q \in T THEN g[q] ELSE Absent
        /\ \A q \in Path : Exists(f, q) <=> q \in T
    BY RestoredFacts
  <1>3. \A q \in Path : h[q] = IF q = p THEN g[p] ELSE f[q]
    BY DEF RestoreTree
  <1>4. h = [q \in Path |-> h[q]]
    BY DEF RestoreTree
  <1>. HIDE DEF f, h
  <1>5. \A q \in Path : StrictlyUnder(p, q) => q \in T /\ IsDir(f, q)
    <2>1. ASSUME NEW q \in Path, StrictlyUnder(p, q)
          PROVE  q \in T /\ IsDir(f, q)
      <3>1. IsDir(g, q)
        BY <1>1, <2>1 DEF WellFormed
      <3>2. q \in Subtree(g, Root)
        BY <3>1, PathFacts DEF Subtree, IsDir, Exists
      <3>3. q \in T
        BY <1>1, <2>1, <3>2, StrictlyUnderLength
      <3>. QED
        BY <1>2, <3>1, <3>3 DEF IsDir
    <2>. QED
      BY <2>1
  <1>6. \A q \in Path : Under(Parent(p), q) => StrictlyUnder(p, q)
    BY <1>1, UnderTransitive, UnderAntisymmetric DEF StrictlyUnder
  <1>7. ~Exists(f, p) /\ ~IsDir(f, p) /\ ~IsFile(f, p)
    BY <1>1, <1>2 DEF Exists, IsDir, IsFile
  <1>8. CanMakeDirs(f, p) /\ CanMakeDirs(f, Parent(p)) /\ CanEnsureFile(f, p)
    <2>1. CanMakeDirs(f, p)
      BY <1>5, <1>7 DEF CanMakeDirs, IsDir, IsFile, StrictlyUnder
    <2>2. CanMakeDirs(f, Parent(p))
      BY <1>5, <1>6 DEF CanMakeDirs, IsDir, IsFile
    <2>. QED
      BY <1>1, <1>7, <2>2, <2>1 DEF CanEnsureFile
  <1>9. ASSUME NEW made \in Tree, \A q \in Path \ {p} : made[q] = f[q]
        PROVE  [made EXCEPT ![p] = g[p]] = h
    <2>1. made = [q \in Path |-> made[q]]
      BY DEF Tree
    <2>2. [made EXCEPT ![p] = g[p]] = [q \in Path |-> IF q = p THEN g[p] ELSE made[q]]
      BY <2>1
    <2>3. \A q \in Path : h[q] = IF q = p THEN g[p] ELSE made[q]
      BY <1>3, <1>9
    <2>. QED
      BY <1>4, <2>2, <2>3
  <1>10. MakeDirs(f, p) \in Tree /\ \A q \in Path \ {p} : MakeDirs(f, p)[q] = f[q]
    <2>1. MakeDirs(f, p) \in Tree
      BY <1>1, <1>2, <1>8, MakeDirsFacts
    <2>2. ASSUME NEW q \in Path \ {p}
          PROVE  MakeDirs(f, p)[q] = f[q]
      <3>1. MakeDirs(f, p)[q] = IF Under(p, q) /\ ~Exists(f, q) THEN NewDir ELSE f[q]
        BY DEF MakeDirs
      <3>2. Under(p, q) => Exists(f, q)
        BY <1>2, <1>5 DEF StrictlyUnder
      <3>. QED
        BY <3>1, <3>2
    <2>. QED
      BY <2>1, <2>2
  <1>11. EnsureFile(f, p) \in Tree /\ \A q \in Path \ {p} : EnsureFile(f, p)[q] = f[q]
    <2>1. EnsureFile(f, p) \in Tree
      BY <1>1, <1>2, <1>8, EnsureFileFacts
    <2>2. ASSUME NEW q \in Path \ {p}
          PROVE  EnsureFile(f, p)[q] = f[q]
      <3>1. EnsureFile(f, p)[q] =
              IF Under(Parent(p), q) /\ ~Exists(f, q) THEN NewDir ELSE f[q]
        BY DEF EnsureFile, MakeDirs
      <3>2. Under(Parent(p), q) => Exists(f, q)
        BY <1>2, <1>5, <1>6
      <3>. QED
        BY <3>1, <3>2
    <2>. QED
      BY <2>1, <2>2
  <1>12. /\ ResolveDirCalls(f, p) = Done(MakeDirs(f, p))
         /\ EnsureFileCalls(f, p) = Done(EnsureFile(f, p))
    BY <1>1, <1>2, <1>8, ResolveDirIs, EnsureFileIs
  <1>13. Protected(f, Parent(p)) <=> Protected(g, Parent(p))
    <2>1. Parent(p) \in T /\ f[Parent(p)] = g[Parent(p)] /\ Exists(f, Parent(p))
      BY <1>1, <1>2, <1>5
    <2>2. Exists(g, Parent(p))
      BY <2>1 DEF Exists
    <2>. QED
      BY <2>1, <2>2 DEF Protected
  <1>14. p \in Unrestorable(g) <=> IsDir(g, p) /\ Protected(g, Parent(p))
    BY <1>1 DEF Unrestorable
  <1>. DEFINE made == IF IsDir(g, p)
                      THEN IF Protected(f, Parent(p)) THEN Raised(f) ELSE Done(MakeDirs(f, p))
                      ELSE Done(EnsureFile(f, p))
  <1>15. RestoreNode(g, f, p) = IF made.ok THEN Done([made.tree EXCEPT ![p] = g[p]]) ELSE made
    BY <1>1, <1>12 DEF RestoreNode
  <1>16. RestoreNode(g, f, p) = IF p \in Unrestorable(g) THEN Raised(f) ELSE Done(h)
    <2>1. CASE p \in Unrestorable(g)
      <3>1. made = Raised(f)
        BY <1>13, <1>14, <2>1
      <3>. HIDE DEF made
      <3>. QED
        BY <1>15, <2>1, <3>1 DEF Raised
    <2>2. CASE p \notin Unrestorable(g)
      <3>1. made = Done(MakeDirs(f, p)) \/ made = Done(EnsureFile(f, p))
        BY <1>13, <1>14, <2>2
      <3>. HIDE DEF made
      <3>2. made.ok /\ [made.tree EXCEPT ![p] = g[p]] = h
        <4>1. CASE made = Done(MakeDirs(f, p))
          <5>1. made.ok /\ made.tree = MakeDirs(f, p)
            BY <4>1 DEF Done
          <5>. QED
            BY <1>9, <1>10, <5>1
        <4>2. CASE made = Done(EnsureFile(f, p))
          <5>1. made.ok /\ made.tree = EnsureFile(f, p)
            BY <4>2 DEF Done
          <5>. QED
            BY <1>9, <1>11, <5>1
        <4>. QED
          BY <3>1, <4>1, <4>2
      <3>. QED
        BY <1>15, <2>2, <3>2
    <2>. QED
      BY <2>1, <2>2
  <1>. QED
    BY <1>16 DEF f, h

\* One call of walk, and a function that gives it for every path of S.
WalkOne(walk, g, n, order, q, h) ==
    LET done == IF q \in ByDepth(Subtree(g, Root), n) THEN RestoreNode(g, h, q) ELSE Done(h)
    IN  IF done.ok THEN Loop(done.tree, Children(g, q), order, walk) ELSE done
Walks(walk, g, n, order, S) ==
    \A q \in S : walk[q] = [h \in Tree |-> WalkOne(walk, g, n, order, q, h)]

\* The walk calls itself for what is deeper: it is defined for all paths.
LEMMA WalksExist ==
    ASSUME NEW order, Enumerates(order), NEW g, NEW depth
    PROVE  \E walk : /\ walk = [q \in Path |-> walk[q]]
                     /\ Walks(walk, g, depth, order, Path)
  <1>1. PICK n \in Nat : \A p \in Path : Len(p) <= n
    BY PathsAreBounded
  <1>2. Len(order) \in Nat
    BY LenProperties DEF Enumerates
  <1>3. \A p \in Path : Len(p) \in Nat
    BY PathFacts
  <1>. DEFINE Deep(k) == {q \in Path : Len(q) + k > n}
              Solves(walk, k) == /\ walk = [q \in Path |-> walk[q]]
                                 /\ Walks(walk, g, depth, order, Deep(k))
              wrong == {k \in Nat : ~\E walk : Solves(walk, k)}
  <1>4. ASSUME NEW k \in wrong, \A j \in wrong : k <= j
        PROVE  FALSE
    <2>1. k \in Nat
      OBVIOUS
    <2>2. CASE k = 0
      <3>. DEFINE walk == [q \in Path |-> Absent]
      <3>1. Deep(0) = {}
        BY <1>1, <1>3
      <3>2. Walks(walk, g, depth, order, Deep(0))
        <4>. HIDE DEF Deep, walk
        <4>. QED
          BY <3>1 DEF Walks
      <3>3. walk = [q \in Path |-> walk[q]]
        OBVIOUS
      <3>. HIDE DEF walk, Deep
      <3>. QED
        BY <2>2, <3>2, <3>3
    <2>3. CASE k # 0
      <3>1. k - 1 \in Nat /\ ~(k <= k - 1)
        BY <2>1, <2>3
      <3>2. PICK walk : Solves(walk, k - 1)
        BY <1>4, <3>1
      <3>. DEFINE more == [q \in Path |->
                              IF q \in Deep(k - 1) THEN walk[q]
                              ELSE [h \in Tree |-> WalkOne(walk, g, depth, order, q, h)]]
      <3>3. ASSUME NEW q \in Deep(k), NEW h
            PROVE  WalkOne(more, g, depth, order, q, h) = WalkOne(walk, g, depth, order, q, h)
        <4>1. ASSUME NEW c \in Children(g, q)
              PROVE  more[c] = walk[c]
          <5>1. c \in Path /\ c # Root /\ Parent(c) = q /\ q \in Path
            BY DEF Children
          <5>2. Len(q) = Len(c) - 1 /\ Len(c) \in Nat /\ Len(q) \in Nat
            BY <1>3, <5>1, ParentFacts
          <5>3. Len(q) + k > n
            OBVIOUS
          <5>4. Len(c) + (k - 1) > n
            BY <2>1, <5>2, <5>3
          <5>. QED
            BY <5>1, <5>4
        <4>. HIDE DEF more
        <4>2. \A t : Loop(t, Children(g, q), order, more) = Loop(t, Children(g, q), order, walk)
          BY <1>2, <4>1, LoopSameCalls
        <4>. QED
          BY <4>2 DEF WalkOne
      <3>4. ASSUME NEW q \in Deep(k)
            PROVE  more[q] = [h \in Tree |-> WalkOne(more, g, depth, order, q, h)]
        <4>1. more[q] = [h \in Tree |-> WalkOne(walk, g, depth, order, q, h)]
          <5>1. q \in Path
            OBVIOUS
          <5>2. q \in Deep(k - 1) => walk[q] = [h \in Tree |-> WalkOne(walk, g, depth, order, q, h)]
            BY <3>2 DEF Walks
          <5>. HIDE DEF Deep
          <5>. QED
            BY <5>1, <5>2
        <4>. HIDE DEF more
        <4>. QED
          BY <3>3, <4>1
      <3>5. more = [q \in Path |-> more[q]]
        OBVIOUS
      <3>. HIDE DEF more, Deep
      <3>6. Solves(more, k)
        BY <3>4, <3>5 DEF Walks
      <3>. QED
        BY <3>6
    <2>. QED
      BY <2>2, <2>3
  <1>5. wrong = {}
    <2>1. wrong \in SUBSET Nat
      OBVIOUS
    <2>. HIDE DEF wrong
    <2>. QED
      BY <1>4, <2>1, LeastElement
  <1>6. PICK walk : Solves(walk, n + 1)
    <2>1. n + 1 \in Nat
      OBVIOUS
    <2>. HIDE DEF Solves
    <2>. QED
      BY <1>5, <2>1
  <1>7. Deep(n + 1) = Path
    BY <1>3
  <1>. QED
    BY <1>6, <1>7

\* What the walk of a depth does, call by call.
LEMMA WalkIs ==
    ASSUME NEW order, Enumerates(order), NEW g, NEW n
    PROVE  \E walk : /\ \A q \in Path, h \in Tree : walk[q][h] = WalkOne(walk, g, n, order, q, h)
                     /\ \A f : RestoreDepth(g, f, n, order) = walk[Root][f]
  <1>. DEFINE walk == CHOOSE walk : walk =
                  [q \in Path |-> [h \in Tree |-> WalkOne(walk, g, n, order, q, h)]]
  <1>1. \A f : RestoreDepth(g, f, n, order) = walk[Root][f]
    BY DEF RestoreDepth, WalkOne
  <1>2. PICK w : w = [q \in Path |-> w[q]] /\ Walks(w, g, n, order, Path)
    BY WalksExist
  <1>3. w = [q \in Path |-> [h \in Tree |-> WalkOne(w, g, n, order, q, h)]]
    BY <1>2 DEF Walks
  <1>4. walk = [q \in Path |-> [h \in Tree |-> WalkOne(walk, g, n, order, q, h)]]
    BY <1>3
  <1>. HIDE DEF walk
  <1>5. \A q \in Path, h \in Tree : walk[q][h] = WalkOne(walk, g, n, order, q, h)
    BY <1>4
  <1>. QED
    BY <1>1, <1>5

\* The nodes at a depth that are below some of Y, and those that mkdir refuses.
AtDepth(g, n, Y) == {x \in ByDepth(Subtree(g, Root), n) : \E y \in Y : Under(x, y)}
Refusals(g, n, q) == {c \in Unrestorable(g) : Under(c, q) /\ Len(c) = n}

SoonBeside(g, q, b, order) == {y \in Beside(g, b) : StrictlyUnder(y, q) /\ Sooner(order, y, b)}

\* How the walk below q ends at depth n.
WalkEnds(g, n, q, T, order, d) ==
    \/ Refusals(g, n, q) = {} /\ d = Done(RestoreTree(g, T \cup AtDepth(g, n, {q})))
    \/ \E b \in Refusals(g, n, q) :
          /\ d = Raised(RestoreTree(g, T \cup AtDepth(g, n, SoonBeside(g, q, b, order))))
          /\ \A a \in Refusals(g, n, q) \ {b} : Precedes(order, b, a)

\* What is back when the walk of depth n is on its way.
Ready(g, n, T) ==
    /\ T \in SUBSET Subtree(g, Root)
    /\ Root \in T
    /\ \A q \in Subtree(g, Root) : Len(q) < n => q \in T
    /\ \A q \in T : Len(q) <= n

\* The nodes that are refused below q are those below its children.
LEMMA ChildRefusals ==
    ASSUME NEW g \in Tree, WellFormed(g), NEW q \in Path, NEW n, q \notin Refusals(g, n, q)
    PROVE  /\ \A c \in Children(g, q) : \A b \in Refusals(g, n, c) : b \in Refusals(g, n, q)
           /\ \A b \in Refusals(g, n, q) :
                 /\ b \in Path
                 /\ StrictlyUnder(b, q)
                 /\ \E c \in Children(g, q) : Under(b, c)
                 /\ \A c \in Children(g, q) : Under(b, c) => b \in Refusals(g, n, c)
  <1>1. \A c \in Children(g, q) : c \in Path /\ StrictlyUnder(c, q)
    BY ChildrenFacts
  <1>2. \A b \in Unrestorable(g) : b \in Path /\ Exists(g, b)
    BY DEF Unrestorable, IsDir, Exists
  <1>3. \A c \in Children(g, q) : \A b \in Refusals(g, n, c) : b \in Refusals(g, n, q)
    BY <1>1, <1>2, UnderTransitive DEF Refusals, StrictlyUnder
  <1>4. ASSUME NEW b \in Refusals(g, n, q)
        PROVE  /\ b \in Path
               /\ StrictlyUnder(b, q)
               /\ \E c \in Children(g, q) : Under(b, c)
               /\ \A c \in Children(g, q) : Under(b, c) => b \in Refusals(g, n, c)
    <2>1. b \in Unrestorable(g) /\ Under(b, q) /\ Len(b) = n /\ b # q
      BY DEF Refusals
    <2>2. b \in Path /\ Exists(g, b) /\ StrictlyUnder(b, q)
      BY <1>2, <2>1 DEF StrictlyUnder
    <2>3. \E c \in Children(g, q) : Under(b, c)
      BY <2>2, ChildrenFacts
    <2>. QED
      BY <2>1, <2>2, <2>3 DEF Refusals
  <1>. QED
    BY <1>3, <1>4

\* What comes before b below q: the children before the one on the way to b, and
\* what comes before b below that one.
LEMMA BesideStep ==
    ASSUME NEW g \in Tree, WellFormed(g), NEW q \in Path, NEW n,
           NEW order, Enumerates(order),
           NEW c \in Children(g, q), NEW b \in Refusals(g, n, c),
           NEW D, D = {x \in Children(g, q) : Before(order, x, c)},
           \A x \in D : Refusals(g, n, x) = {}
    PROVE  SoonBeside(g, q, b, order) = D \cup SoonBeside(g, c, b, order)
  <1>0. /\ c \in Path /\ c # Root /\ Parent(c) = q /\ StrictlyUnder(c, q)
        /\ b \in Path /\ Under(b, c) /\ Len(b) = n
    BY ChildrenFacts DEF Refusals, Unrestorable
  <1>1. ASSUME NEW x \in Children(g, q), Before(order, x, c)
        PROVE  x \in SoonBeside(g, q, b, order)
    <2>1. /\ x \in Path \ {Root} /\ Parent(x) = q /\ Exists(g, x) /\ StrictlyUnder(x, q)
      BY ChildrenFacts
    <2>2. x # c
      BY <1>0, <1>1, BeforeFacts
    <2>3. ~Under(b, x)
      BY <1>0, <2>1, <2>2, ChildrenFacts
    <2>4. \A r \in Unrestorable(g) : Under(r, x) => Len(r) # Len(b)
      BY <1>0, <1>1 DEF Refusals
    <2>5. StrictlyUnder(b, Parent(x))
      BY <1>0, <2>1, UnderTransitive, UnderAntisymmetric DEF StrictlyUnder
    <2>6. x \in Beside(g, b)
      BY <2>1, <2>3, <2>4, <2>5, PathFacts DEF Beside, Subtree
    <2>7. Sooner(order, x, b)
      BY <1>0, <1>1, <2>1, ChildrenFacts DEF Sooner
    <2>. QED
      BY <2>1, <2>6, <2>7 DEF SoonBeside
  <1>2. ASSUME NEW x \in SoonBeside(g, c, b, order)
        PROVE  x \in SoonBeside(g, q, b, order)
    <2>1. x \in Beside(g, b) /\ StrictlyUnder(x, c) /\ Sooner(order, x, b) /\ x \in Path
      BY DEF SoonBeside, Beside, Subtree
    <2>2. StrictlyUnder(x, q)
      BY <1>0, <2>1, UnderTransitive, UnderAntisymmetric DEF StrictlyUnder
    <2>. QED
      BY <2>1, <2>2 DEF SoonBeside
  <1>3. ASSUME NEW x \in SoonBeside(g, q, b, order)
        PROVE  \/ x \in Children(g, q) /\ Before(order, x, c)
               \/ x \in SoonBeside(g, c, b, order)
    <2>1. /\ x \in Beside(g, b) /\ StrictlyUnder(x, q) /\ Sooner(order, x, b)
          /\ x \in Path /\ Exists(g, x) /\ StrictlyUnder(b, Parent(x)) /\ ~Under(b, x)
      BY DEF SoonBeside, Beside, Subtree
    <2>2. x # Root /\ Under(Parent(x), q) /\ Parent(x) \in Path /\ StrictlyUnder(x, Parent(x))
      <3>1. x # Root /\ Under(Parent(x), q)
        BY <2>1, UnderParent
      <3>. QED
        BY <2>1, <3>1, ParentFacts
    <2>3. CASE Parent(x) = q
      <3>1. x \in Children(g, q)
        BY <2>1, <2>2, <2>3 DEF Children
      <3>2. Before(order, x, c)
        BY <1>0, <2>1, <2>3 DEF Sooner
      <3>. QED
        BY <3>1, <3>2
    <2>4. CASE Parent(x) # q
      <3>1. Under(Parent(x), c)
        <4>1. Under(b, Parent(x))
          BY <2>1 DEF StrictlyUnder
        <4>2. Under(Parent(x), c) \/ Under(c, Parent(x))
          BY <1>0, <2>2, <4>1, UnderComparable
        <4>3. ASSUME Under(c, Parent(x)), Parent(x) # c
              PROVE  FALSE
          <5>1. Under(q, Parent(x))
            BY <1>0, <2>2, <4>3, UnderParent DEF StrictlyUnder
          <5>. QED
            BY <2>2, <2>4, <5>1, UnderAntisymmetric
        <4>. QED
          BY <1>0, <4>2, <4>3, PathFacts
      <3>2. StrictlyUnder(x, c)
        BY <1>0, <2>1, <2>2, <2>4, <3>1, UnderTransitive DEF StrictlyUnder
      <3>. QED
        BY <2>1, <3>2 DEF SoonBeside
    <2>. QED
      BY <2>3, <2>4
  <1>. QED
    BY <1>1, <1>2, <1>3

\* Nodes of one depth, below some paths.
LEMMA AtDepthFacts ==
    ASSUME NEW g \in Tree, NEW n, NEW Y, NEW Z
    PROVE  /\ AtDepth(g, n, Y) \in SUBSET Subtree(g, Root)
           /\ AtDepth(g, n, {}) = {}
           /\ AtDepth(g, n, Y) \cup AtDepth(g, n, Z) = AtDepth(g, n, Y \cup Z)
           /\ \A x \in AtDepth(g, n, Y) : Len(x) = n
  BY DEF AtDepth, ByDepth

\* More nodes of the depth may be back.
LEMMA ReadyFacts ==
    ASSUME NEW g \in Tree, NEW n \in Nat, NEW T, Ready(g, n, T)
    PROVE  /\ Restored(g, T)
           /\ \A Y : Ready(g, n, T \cup AtDepth(g, n, Y))
  <1>1. \A x \in Subtree(g, Root) : x \in Path /\ Len(x) \in Nat
    BY PathFacts DEF Subtree
  <1>2. Restored(g, T)
    BY <1>1 DEF Ready, Restored
  <1>3. \A Y : Ready(g, n, T \cup AtDepth(g, n, Y))
    <2>1. ASSUME NEW Y
          PROVE  Ready(g, n, T \cup AtDepth(g, n, Y))
      BY AtDepthFacts DEF Ready
    <2>. QED
      BY <2>1
  <1>. QED
    BY <1>2, <1>3

\* Where the loop over the children of q is after i turns.
WalkLoopEnds(g, n, q, T, order, i, d) ==
    LET done(k) == Among(Children(g, q), order, k)
    IN  \/ /\ \A c \in done(i) : Refusals(g, n, c) = {}
           /\ d = Done(RestoreTree(g, T \cup AtDepth(g, n, done(i))))
        \/ \E k \in 1..i :
              /\ order[k] \in Children(g, q)
              /\ \A c \in done(k - 1) : Refusals(g, n, c) = {}
              /\ \E b \in Refusals(g, n, order[k]) :
                    /\ d = Raised(RestoreTree(g, T \cup AtDepth(g, n, done(k - 1)
                                                     \cup SoonBeside(g, order[k], b, order))))
                    /\ \A a \in Refusals(g, n, order[k]) \ {b} : Precedes(order, b, a)

\* One more child.
LEMMA WalkChild ==
    ASSUME NEW g \in Tree, WellFormed(g), NEW n \in Nat, NEW q \in Path,
           NEW T, Ready(g, n, T), NEW order, NEW walk,
           NEW D \in SUBSET Children(g, q), NEW c \in Children(g, q) \ D,
           T \cap AtDepth(g, n, {c}) = {},
           \A U : Ready(g, n, U) /\ U \cap AtDepth(g, n, {c}) = {}
              => WalkEnds(g, n, c, U, order, walk[c][RestoreTree(g, U)])
    PROVE  LET d == walk[c][RestoreTree(g, T \cup AtDepth(g, n, D))]
           IN  \/ /\ Refusals(g, n, c) = {}
                  /\ d = Done(RestoreTree(g, T \cup AtDepth(g, n, D \cup {c})))
               \/ \E b \in Refusals(g, n, c) :
                     /\ d = Raised(RestoreTree(g, T \cup AtDepth(g, n, D
                                                     \cup SoonBeside(g, c, b, order))))
                     /\ \A a \in Refusals(g, n, c) \ {b} : Precedes(order, b, a)
  <1>. DEFINE U == T \cup AtDepth(g, n, D)
              d == walk[c][RestoreTree(g, U)]
  <1>1. Ready(g, n, U)
    BY ReadyFacts
  <1>2. U \cap AtDepth(g, n, {c}) = {}
    <2>1. ASSUME NEW x \in AtDepth(g, n, D), x \in AtDepth(g, n, {c})
          PROVE  FALSE
      <3>1. x \in Path /\ Under(x, c)
        BY <2>1 DEF AtDepth, ByDepth, Subtree
      <3>2. PICK y \in D : Under(x, y)
        BY DEF AtDepth
      <3>3. y \in Path \ {Root} /\ c \in Path \ {Root} /\ Parent(y) = q /\ Parent(c) = q
        BY ChildrenFacts
      <3>4. y = c
        BY <3>1, <3>2, <3>3, ChildrenFacts
      <3>. QED
        BY <3>4
    <2>. QED
      BY <2>1
  <1>. HIDE DEF U
  <1>3. WalkEnds(g, n, c, U, order, d)
    BY <1>1, <1>2
  <1>4. \A Y : U \cup AtDepth(g, n, Y) = T \cup AtDepth(g, n, D \cup Y)
    <2>1. ASSUME NEW Y
          PROVE  U \cup AtDepth(g, n, Y) = T \cup AtDepth(g, n, D \cup Y)
      <3>1. AtDepth(g, n, D) \cup AtDepth(g, n, Y) = AtDepth(g, n, D \cup Y)
        BY AtDepthFacts
      <3>. QED
        BY <3>1 DEF U
    <2>. QED
      BY <2>1
  <1>. HIDE DEF d
  <1>5. \/ /\ Refusals(g, n, c) = {}
           /\ d = Done(RestoreTree(g, T \cup AtDepth(g, n, D \cup {c})))
        \/ \E b \in Refusals(g, n, c) :
              /\ d = Raised(RestoreTree(g, T \cup AtDepth(g, n, D \cup SoonBeside(g, c, b, order))))
              /\ \A a \in Refusals(g, n, c) \ {b} : Precedes(order, b, a)
    BY <1>3, <1>4 DEF WalkEnds
  <1>. QED
    BY <1>5 DEF d, U

\* Where the loop of a walk over the children has ended.
LEMMA WalkLoop ==
    ASSUME NEW g \in Tree, WellFormed(g), NEW n \in Nat, NEW q \in Path,
           NEW T, Ready(g, n, T), NEW order, Enumerates(order), NEW walk,
           \A c \in Children(g, q) : T \cap AtDepth(g, n, {c}) = {},
           \A c \in Children(g, q) : \A U :
              Ready(g, n, U) /\ U \cap AtDepth(g, n, {c}) = {}
                 => WalkEnds(g, n, c, U, order, walk[c][RestoreTree(g, U)])
    PROVE  WalkLoopEnds(g, n, q, T, order, Len(order),
                        Loop(RestoreTree(g, T), Children(g, q), order, walk))
  <1>. DEFINE C == Children(g, q)
              all == {Done(RestoreTree(g, U)) : U \in SUBSET Subtree(g, Root)}
                       \cup {Raised(RestoreTree(g, U)) : U \in SUBSET Subtree(g, Root)}
              ends(i) == {d \in all : WalkLoopEnds(g, n, q, T, order, i, d)}
              inv == [i \in 0..Len(order) |-> ends(i)]
  <1>0. C \in SUBSET Path
    BY DEF Children
  <1>1. /\ Len(order) \in Nat
        /\ Among(C, order, 0) = {}
        /\ \A i \in 1..Len(order) :
             /\ order[i] \notin Among(C, order, i - 1)
             /\ order[i] \in C => Among(C, order, i) = Among(C, order, i - 1) \cup {order[i]}
             /\ order[i] \notin C => Among(C, order, i) = Among(C, order, i - 1)
    <2>. HIDE DEF C
    <2>. QED
      BY <1>0, AmongFacts
  <1>2. \A i : Among(C, order, i) \in SUBSET C
    BY DEF Among
  <1>3. \A Y : T \cup AtDepth(g, n, Y) \in SUBSET Subtree(g, Root)
    BY AtDepthFacts DEF Ready
  <1>4. \A i, d : WalkLoopEnds(g, n, q, T, order, i, d) => d \in all
    <2>1. ASSUME NEW i, NEW d, WalkLoopEnds(g, n, q, T, order, i, d)
          PROVE  \E Y : \/ d = Done(RestoreTree(g, T \cup AtDepth(g, n, Y)))
                        \/ d = Raised(RestoreTree(g, T \cup AtDepth(g, n, Y)))
      BY <2>1 DEF WalkLoopEnds
    <2>2. ASSUME NEW d, NEW Y, \/ d = Done(RestoreTree(g, T \cup AtDepth(g, n, Y)))
                               \/ d = Raised(RestoreTree(g, T \cup AtDepth(g, n, Y)))
          PROVE  d \in all
      BY <1>3, <2>2
    <2>. HIDE DEF all
    <2>. QED
      BY <2>1, <2>2
  <1>5. Done(RestoreTree(g, T)) \in inv[0]
    <2>1. 0 \in 0..Len(order)
      BY <1>1
    <2>2. T \cup AtDepth(g, n, {}) = T
      BY AtDepthFacts
    <2>3. WalkLoopEnds(g, n, q, T, order, 0, Done(RestoreTree(g, T)))
      BY <1>1, <2>2 DEF WalkLoopEnds
    <2>. HIDE DEF all
    <2>. QED
      BY <1>4, <2>1, <2>3
  <1>. HIDE DEF all
  <1>6. ASSUME NEW i \in 1..Len(order), NEW d \in inv[i - 1]
        PROVE  Continue(d, C, order[i], walk) \in inv[i]
    <2>. DEFINE e == Continue(d, C, order[i], walk)
                D == Among(C, order, i - 1)
                c == order[i]
    <2>1. i - 1 \in 0..Len(order) /\ i \in 0..Len(order) /\ i \in 1..i
          /\ \A k \in 1..i - 1 : k \in 1..i
      BY <1>1
    <2>2. WalkLoopEnds(g, n, q, T, order, i - 1, d)
      BY <2>1
    <2>. HIDE DEF e
    <2>3. ASSUME \A x \in D : Refusals(g, n, x) = {},
                 d = Done(RestoreTree(g, T \cup AtDepth(g, n, D))), c \in C
          PROVE  WalkLoopEnds(g, n, q, T, order, i, e)
      <3>1. c \notin D /\ Among(C, order, i) = D \cup {c} /\ D \in SUBSET C
        BY <1>1, <1>2, <2>3
      <3>2. e = walk[c][RestoreTree(g, T \cup AtDepth(g, n, D))]
        BY <2>3 DEF e, Continue, Done
      <3>. HIDE DEF D, C, c
      <3>3. \/ /\ Refusals(g, n, c) = {}
               /\ e = Done(RestoreTree(g, T \cup AtDepth(g, n, D \cup {c})))
            \/ \E b \in Refusals(g, n, c) :
                  /\ e = Raised(RestoreTree(g, T \cup AtDepth(g, n, D
                                                  \cup SoonBeside(g, c, b, order))))
                  /\ \A a \in Refusals(g, n, c) \ {b} : Precedes(order, b, a)
        <4>1. D \in SUBSET Children(g, q) /\ c \in Children(g, q) \ D
          BY <2>3, <3>1 DEF C
        <4>2. /\ T \cap AtDepth(g, n, {c}) = {}
              /\ \A U : Ready(g, n, U) /\ U \cap AtDepth(g, n, {c}) = {}
                   => WalkEnds(g, n, c, U, order, walk[c][RestoreTree(g, U)])
          BY <4>1
        <4>3. LET x == walk[c][RestoreTree(g, T \cup AtDepth(g, n, D))]
              IN  \/ /\ Refusals(g, n, c) = {}
                     /\ x = Done(RestoreTree(g, T \cup AtDepth(g, n, D \cup {c})))
                  \/ \E b \in Refusals(g, n, c) :
                        /\ x = Raised(RestoreTree(g, T \cup AtDepth(g, n, D
                                                        \cup SoonBeside(g, c, b, order))))
                        /\ \A a \in Refusals(g, n, c) \ {b} : Precedes(order, b, a)
          BY <4>1, <4>2, WalkChild
        <4>. QED
          BY <3>2, <4>3
      <3>4. CASE /\ Refusals(g, n, c) = {}
                 /\ e = Done(RestoreTree(g, T \cup AtDepth(g, n, D \cup {c})))
        <4>1. \A x \in D \cup {c} : Refusals(g, n, x) = {}
          BY <2>3, <3>4
        <4>. QED
          BY <3>1, <3>4, <4>1 DEF WalkLoopEnds, C
      <3>5. CASE \E b \in Refusals(g, n, c) :
                  /\ e = Raised(RestoreTree(g, T \cup AtDepth(g, n, D
                                                  \cup SoonBeside(g, c, b, order))))
                  /\ \A a \in Refusals(g, n, c) \ {b} : Precedes(order, b, a)
        BY <2>1, <2>3, <3>5 DEF WalkLoopEnds, C, D, c
      <3>. QED
        BY <3>3, <3>4, <3>5
    <2>4. ASSUME \A x \in D : Refusals(g, n, x) = {},
                 d = Done(RestoreTree(g, T \cup AtDepth(g, n, D))), c \notin C
          PROVE  WalkLoopEnds(g, n, q, T, order, i, e)
      <3>1. e = d /\ Among(C, order, i) = D
        BY <1>1, <2>4 DEF e, Continue
      <3>. QED
        BY <2>4, <3>1 DEF WalkLoopEnds
    <2>5. ASSUME NEW k \in 1..i - 1, order[k] \in C,
                 \A x \in Among(C, order, k - 1) : Refusals(g, n, x) = {},
                 \E b \in Refusals(g, n, order[k]) :
                    /\ d = Raised(RestoreTree(g, T \cup AtDepth(g, n, Among(C, order, k - 1)
                                                     \cup SoonBeside(g, order[k], b, order))))
                    /\ \A a \in Refusals(g, n, order[k]) \ {b} : Precedes(order, b, a)
          PROVE  WalkLoopEnds(g, n, q, T, order, i, e)
      <3>1. e = d
        BY <2>5 DEF e, Continue, Raised
      <3>2. k \in 1..i
        BY <2>1
      <3>. QED
        BY <2>5, <3>1, <3>2 DEF WalkLoopEnds
    <2>6. WalkLoopEnds(g, n, q, T, order, i, e)
      <3>1. \/ /\ \A x \in D : Refusals(g, n, x) = {}
               /\ d = Done(RestoreTree(g, T \cup AtDepth(g, n, D)))
            \/ \E k \in 1..i - 1 :
                 /\ order[k] \in C
                 /\ \A x \in Among(C, order, k - 1) : Refusals(g, n, x) = {}
                 /\ \E b \in Refusals(g, n, order[k]) :
                       /\ d = Raised(RestoreTree(g, T \cup AtDepth(g, n, Among(C, order, k - 1)
                                                     \cup SoonBeside(g, order[k], b, order))))
                       /\ \A a \in Refusals(g, n, order[k]) \ {b} : Precedes(order, b, a)
        BY <2>2 DEF WalkLoopEnds
      <3>. HIDE DEF D, C, c
      <3>. QED
        BY <2>3, <2>4, <2>5, <3>1
    <2>7. e \in inv[i]
      BY <1>4, <2>1, <2>6
    <2>. QED
      BY <2>7 DEF e
  <1>7. Loop(RestoreTree(g, T), C, order, walk) \in inv[Len(order)]
    <2>. HIDE DEF inv, C
    <2>. QED
      BY <1>1, <1>5, <1>6, LoopInvariant
  <1>8. Len(order) \in 0..Len(order)
    BY <1>1
  <1>. QED
    BY <1>7, <1>8

\* Where the way into q has been, a walk makes nothing of that depth below q.
LEMMA BelowDepth ==
    ASSUME NEW g \in Tree, WellFormed(g), NEW q \in Path, NEW c \in Children(g, q)
    PROVE  AtDepth(g, Len(q), {c}) = {} /\ Refusals(g, Len(q), c) = {}
  <1>1. c \in Path /\ StrictlyUnder(c, q) /\ Len(q) < Len(c) /\ Len(q) \in Nat /\ Len(c) \in Nat
    BY ChildrenFacts, StrictlyUnderLength, PathFacts
  <1>2. ASSUME NEW x \in Path, Under(x, c)
        PROVE  Len(x) # Len(q)
    <2>1. Len(c) <= Len(x) /\ Len(x) \in Nat
      BY <1>2, PathFacts DEF Under
    <2>. QED
      BY <1>1, <2>1
  <1>. QED
    BY <1>2 DEF AtDepth, ByDepth, Refusals, Unrestorable, Subtree

\* Nothing of the depth of q is below q but q.
LEMMA OwnDepth ==
    ASSUME NEW g \in Tree, NEW q \in Path
    PROVE  /\ q \in Subtree(g, Root) => AtDepth(g, Len(q), {q}) = {q}
           /\ Refusals(g, Len(q), q) \in SUBSET {q}
           /\ q \in Unrestorable(g) => Refusals(g, Len(q), q) = {q}
           /\ \A order : SoonBeside(g, q, q, order) = {}
  <1>1. ASSUME NEW x \in Path, Under(x, q), Len(x) = Len(q)
        PROVE  x = q
    <2>1. Len(q) \in Nat
      BY PathFacts
    <2>. QED
      BY <1>1, <2>1, StrictlyUnderLength DEF StrictlyUnder
  <1>2. Under(q, q)
    BY PathFacts
  <1>3. q \in Subtree(g, Root) => AtDepth(g, Len(q), {q}) = {q}
    BY <1>1, <1>2 DEF AtDepth, ByDepth, Subtree
  <1>4. Refusals(g, Len(q), q) \in SUBSET {q}
    BY <1>1 DEF Refusals, Unrestorable
  <1>5. q \in Unrestorable(g) => q \in Refusals(g, Len(q), q)
    BY <1>2 DEF Refusals
  <1>6. ASSUME NEW order, NEW y \in SoonBeside(g, q, q, order)
        PROVE  FALSE
    <2>1. /\ y \in Path /\ y # Root /\ StrictlyUnder(y, q) /\ StrictlyUnder(q, Parent(y))
      BY DEF SoonBeside, Beside, Subtree
    <2>2. Under(Parent(y), q) /\ Parent(y) \in Path
      BY <2>1, UnderParent, ParentFacts
    <2>. QED
      BY <2>1, <2>2, UnderAntisymmetric DEF StrictlyUnder
  <1>. QED
    BY <1>3, <1>4, <1>5, <1>6

\* How the walk ends below q when it ends so below its children.
LEMMA WalkOneEnds ==
    ASSUME NEW g \in Tree, WellFormed(g), NEW n \in Nat, NEW q \in Path,
           NEW T, Ready(g, n, T), T \cap AtDepth(g, n, {q}) = {},
           NEW order, Enumerates(order), NEW walk,
           \A c \in Children(g, q) : \A U :
              Ready(g, n, U) /\ U \cap AtDepth(g, n, {c}) = {}
                 => WalkEnds(g, n, c, U, order, walk[c][RestoreTree(g, U)])
    PROVE  WalkEnds(g, n, q, T, order, WalkOne(walk, g, n, order, q, RestoreTree(g, T)))
  <1>. DEFINE C == Children(g, q)
              d == WalkOne(walk, g, n, order, q, RestoreTree(g, T))
  <1>1. C \in SUBSET Path /\ \A c \in C : c \in Path /\ StrictlyUnder(c, q)
    BY ChildrenFacts
  <1>2. /\ Len(order) \in Nat
        /\ \A i \in 1..Len(order) : order[i] \in Path
        /\ Among(C, order, Len(order)) = C
        /\ \A k \in 1..Len(order) :
             Among(C, order, k - 1) = {x \in C : Before(order, x, order[k])}
    <2>. HIDE DEF C
    <2>. QED
      BY <1>1, AmongFacts, BeforeFacts
  <1>3. CASE q \in ByDepth(Subtree(g, Root), n)
    <2>1. q \in Subtree(g, Root) /\ Len(q) = n
      BY <1>3 DEF ByDepth
    <2>2. /\ AtDepth(g, n, {q}) = {q}
          /\ Refusals(g, n, q) \in SUBSET {q}
          /\ q \in Unrestorable(g) => Refusals(g, n, q) = {q}
          /\ SoonBeside(g, q, q, order) = {}
      BY <2>1, OwnDepth
    <2>3. q \notin T
      BY <2>2
    <2>4. RestoreNode(g, RestoreTree(g, T), q) =
             IF q \in Unrestorable(g) THEN Raised(RestoreTree(g, T))
             ELSE Done(RestoreTree(g, T \cup {q}))
      <3>1. Restored(g, T) /\ \A x \in Subtree(g, Root) : Len(x) < Len(q) => x \in T
        BY <2>1, ReadyFacts DEF Ready
      <3>. QED
        BY <2>1, <2>3, <3>1, RestoreNodeIs
    <2>5. CASE q \in Unrestorable(g)
      <3>1. d = Raised(RestoreTree(g, T))
        BY <1>3, <2>4, <2>5 DEF WalkOne, Raised
      <3>2. T \cup AtDepth(g, n, SoonBeside(g, q, q, order)) = T
        BY <2>2, AtDepthFacts
      <3>. HIDE DEF d
      <3>3. WalkEnds(g, n, q, T, order, d)
        BY <2>2, <2>5, <3>1, <3>2 DEF WalkEnds
      <3>. QED
        BY <3>3 DEF d
    <2>6. CASE q \notin Unrestorable(g)
      <3>. DEFINE U == T \cup AtDepth(g, n, {q})
      <3>1. d = Loop(RestoreTree(g, U), C, order, walk)
        BY <1>3, <2>2, <2>4, <2>6 DEF WalkOne, Done
      <3>2. Ready(g, n, U)
        BY ReadyFacts
      <3>. HIDE DEF U, d
      <3>3. \A c \in Children(g, q) : AtDepth(g, n, {c}) = {} /\ Refusals(g, n, c) = {}
        BY <2>1, BelowDepth
      <3>4. WalkLoopEnds(g, n, q, U, order, Len(order), d)
        BY <3>1, <3>2, <3>3, WalkLoop
      <3>5. d = Done(RestoreTree(g, U \cup AtDepth(g, n, C)))
        BY <1>2, <3>3, <3>4 DEF WalkLoopEnds
      <3>6. AtDepth(g, n, C) = {}
        BY <3>3 DEF AtDepth
      <3>7. Refusals(g, n, q) = {}
        BY <2>2, <2>6 DEF Refusals
      <3>8. WalkEnds(g, n, q, T, order, d)
        BY <3>5, <3>6, <3>7 DEF WalkEnds, U
      <3>. QED
        BY <3>8 DEF d
    <2>. QED
      BY <2>5, <2>6
  <1>4. CASE q \notin ByDepth(Subtree(g, Root), n)
    <2>1. d = Loop(RestoreTree(g, T), C, order, walk)
      BY <1>4 DEF WalkOne, Done
    <2>. HIDE DEF d
    <2>2. AtDepth(g, n, {q}) = AtDepth(g, n, C)
      <3>1. ASSUME NEW x \in AtDepth(g, n, {q})
            PROVE  x \in AtDepth(g, n, C)
        <4>1. x \in ByDepth(Subtree(g, Root), n) /\ Under(x, q)
          BY DEF AtDepth
        <4>2. x \in Path /\ Exists(g, x) /\ StrictlyUnder(x, q)
          BY <1>4, <4>1 DEF ByDepth, Subtree, StrictlyUnder
        <4>3. \E c \in C : Under(x, c)
          BY <4>2, ChildrenFacts
        <4>. QED
          BY <4>1, <4>3 DEF AtDepth
      <3>2. ASSUME NEW x \in AtDepth(g, n, C)
            PROVE  x \in AtDepth(g, n, {q})
        <4>1. x \in ByDepth(Subtree(g, Root), n) /\ x \in Path
          BY DEF AtDepth, ByDepth, Subtree
        <4>2. PICK c \in C : Under(x, c)
          BY DEF AtDepth
        <4>3. Under(x, q)
          BY <1>1, <4>1, <4>2, UnderTransitive DEF StrictlyUnder
        <4>. QED
          BY <4>1, <4>3 DEF AtDepth
      <3>. QED
        BY <3>1, <3>2
    <2>3. \A c \in Children(g, q) : T \cap AtDepth(g, n, {c}) = {}
      <3>1. \A c \in Children(g, q) : AtDepth(g, n, {c}) \in SUBSET AtDepth(g, n, {q})
        BY <2>2 DEF AtDepth
      <3>. QED
        BY <3>1
    <2>4. WalkLoopEnds(g, n, q, T, order, Len(order), d)
      BY <2>1, <2>3, WalkLoop
    <2>5. q \notin Refusals(g, n, q)
      <3>1. \A x \in Unrestorable(g) : x \in Subtree(g, Root)
        BY PathFacts DEF Unrestorable, Subtree, IsDir, Exists
      <3>. QED
        BY <1>4, <3>1 DEF Refusals, ByDepth
    <2>6. CASE (\A c \in C : Refusals(g, n, c) = {}) /\ d = Done(RestoreTree(g, T \cup AtDepth(g, n, C)))
      <3>1. Refusals(g, n, q) = {}
        BY <2>5, <2>6, ChildRefusals
      <3>. QED
        BY <2>2, <2>6, <3>1 DEF WalkEnds, d
    <2>7. ASSUME NEW k \in 1..Len(order), order[k] \in C,
                 \A x \in Among(C, order, k - 1) : Refusals(g, n, x) = {},
                 NEW b \in Refusals(g, n, order[k]),
                 d = Raised(RestoreTree(g, T \cup AtDepth(g, n, Among(C, order, k - 1)
                                                \cup SoonBeside(g, order[k], b, order)))),
                 \A a \in Refusals(g, n, order[k]) \ {b} : Precedes(order, b, a)
          PROVE  WalkEnds(g, n, q, T, order, d)
      <3>1. PICK c \in C : c = order[k]
        BY <2>7
      <3>. DEFINE D == {x \in C : Before(order, x, c)}
      <3>2. Among(C, order, k - 1) = D
        BY <1>2, <3>1
      <3>3. \A x \in C : Before(order, x, c) => Refusals(g, n, x) = {}
        BY <2>7, <3>2
      <3>4. /\ b \in Refusals(g, n, c)
            /\ d = Raised(RestoreTree(g, T \cup AtDepth(g, n, D \cup SoonBeside(g, c, b, order))))
            /\ \A a \in Refusals(g, n, c) \ {b} : Precedes(order, b, a)
        BY <2>7, <3>1, <3>2
      <3>5. SoonBeside(g, q, b, order) = D \cup SoonBeside(g, c, b, order)
        <4>1. /\ c \in Children(g, q) /\ b \in Refusals(g, n, c)
              /\ D = {x \in Children(g, q) : Before(order, x, c)}
              /\ \A x \in D : Refusals(g, n, x) = {}
          BY <3>3, <3>4
        <4>. HIDE DEF C, D
        <4>. QED
          BY <4>1, BesideStep
      <3>6. b \in Refusals(g, n, q)
        BY <2>5, <3>4, ChildRefusals
      <3>. HIDE DEF D
      <3>7. d = Raised(RestoreTree(g, T \cup AtDepth(g, n, SoonBeside(g, q, b, order))))
        BY <3>4, <3>5
      <3>8. ASSUME NEW a \in Refusals(g, n, q) \ {b}
            PROVE  Precedes(order, b, a)
        <4>1. PICK x \in C : Under(a, x) /\ a \in Refusals(g, n, x)
          BY <2>5, ChildRefusals
        <4>2. CASE x = c
          BY <3>4, <4>1, <4>2
        <4>3. CASE x # c
          <5>1. ~Before(order, x, c)
            BY <3>3, <4>1
          <5>2. /\ x \in Path \ {Root} /\ c \in Path \ {Root}
                /\ Parent(x) = q /\ Parent(c) = q
            BY ChildrenFacts
          <5>3. Before(order, c, x)
            BY <4>3, <5>1, <5>2, BeforeFacts
          <5>4. Under(b, c)
            BY <3>4 DEF Refusals
          <5>. QED
            BY <4>1, <5>2, <5>3, <5>4 DEF Precedes
        <4>. QED
          BY <4>2, <4>3
      <3>. QED
        BY <3>6, <3>7, <3>8 DEF WalkEnds
    <2>8. \/ (\A c \in C : Refusals(g, n, c) = {}) /\ d = Done(RestoreTree(g, T \cup AtDepth(g, n, C)))
          \/ \E k \in 1..Len(order) :
               /\ order[k] \in C
               /\ \A x \in Among(C, order, k - 1) : Refusals(g, n, x) = {}
               /\ \E b \in Refusals(g, n, order[k]) :
                     /\ d = Raised(RestoreTree(g, T \cup AtDepth(g, n, Among(C, order, k - 1)
                                                \cup SoonBeside(g, order[k], b, order))))
                     /\ \A a \in Refusals(g, n, order[k]) \ {b} : Precedes(order, b, a)
      BY <1>2, <2>4 DEF WalkLoopEnds
    <2>9. WalkEnds(g, n, q, T, order, d)
      <3>1. CASE (\A c \in C : Refusals(g, n, c) = {}) /\ d = Done(RestoreTree(g, T \cup AtDepth(g, n, C)))
        BY <2>6, <3>1 DEF d
      <3>. HIDE DEF C
      <3>. QED
        BY <2>7, <2>8, <3>1
    <2>. QED
      BY <2>9 DEF d
  <1>. QED
    BY <1>3, <1>4

\* The walk of a depth ends below every path as WalkEnds says.
LEMMA WalkCallsEnds ==
    ASSUME NEW g \in Tree, WellFormed(g), NEW n \in Nat, NEW order, Enumerates(order),
           NEW walk, \A q \in Path, h \in Tree : walk[q][h] = WalkOne(walk, g, n, order, q, h)
    PROVE  \A q \in Path : \A T :
              Ready(g, n, T) /\ T \cap AtDepth(g, n, {q}) = {}
                 => WalkEnds(g, n, q, T, order, walk[q][RestoreTree(g, T)])
  <1>1. PICK m \in Nat : \A q \in Path : Len(q) <= m
    BY PathsAreBounded
  <1>. DEFINE Ends(q) == \A T : Ready(g, n, T) /\ T \cap AtDepth(g, n, {q}) = {}
                            => WalkEnds(g, n, q, T, order, walk[q][RestoreTree(g, T)])
              wrong == {k \in Nat : \E q \in Path : m - Len(q) = k /\ ~Ends(q)}
  <1>2. ASSUME NEW k \in wrong, \A j \in wrong : k <= j
        PROVE  FALSE
    <2>1. PICK q \in Path : m - Len(q) = k /\ ~Ends(q)
      OBVIOUS
    <2>2. PICK T : /\ Ready(g, n, T) /\ T \cap AtDepth(g, n, {q}) = {}
                   /\ ~WalkEnds(g, n, q, T, order, walk[q][RestoreTree(g, T)])
      BY <2>1
    <2>. HIDE DEF Ends
    <2>3. ASSUME NEW c \in Children(g, q)
          PROVE  Ends(c)
      <3>1. c \in Path /\ c # Root /\ Parent(c) = q
        BY DEF Children
      <3>2. PICK l \in Nat : l = Len(c)
        BY <3>1, PathFacts
      <3>3. Len(q) = l - 1 /\ l <= m
        BY <1>1, <3>1, <3>2, ParentFacts
      <3>4. m - l \in Nat /\ m - l = k - 1 /\ k \in Nat
        BY <2>1, <3>2, <3>3
      <3>5. ~(k <= m - l)
        BY <3>4
      <3>6. m - l \notin wrong
        BY <1>2, <3>5
      <3>. QED
        BY <3>1, <3>2, <3>4, <3>6
    <2>4. RestoreTree(g, T) \in Tree
      BY <2>2, ReadyFacts, RestoredFacts
    <2>5. WalkEnds(g, n, q, T, order, WalkOne(walk, g, n, order, q, RestoreTree(g, T)))
      BY <2>2, <2>3, WalkOneEnds DEF Ends
    <2>6. walk[q][RestoreTree(g, T)] = WalkOne(walk, g, n, order, q, RestoreTree(g, T))
      BY <2>4
    <2>. QED
      BY <2>2, <2>5, <2>6
  <1>3. wrong = {}
    <2>1. wrong \in SUBSET Nat
      OBVIOUS
    <2>. HIDE DEF wrong
    <2>. QED
      BY <1>2, <2>1, LeastElement
  <1>4. ASSUME NEW q \in Path
        PROVE  Ends(q)
    <2>1. Len(q) \in Nat /\ Len(q) <= m
      BY <1>1, PathFacts
    <2>2. m - Len(q) \in Nat
      BY <2>1
    <2>. HIDE DEF Ends
    <2>. QED
      BY <1>3, <2>2
  <1>. QED
    BY <1>4

\* The nodes that are less deep than n.
Shallow(g, n) == {x \in Subtree(g, Root) : Len(x) < n}

\* Where a restore is when it is through with the depths below n.
DepthEnds(g, order, n, d) ==
    \/ /\ \A b \in Unrestorable(g) : n <= Len(b)
       /\ d = Done(IF n = 0 THEN EmptyTree ELSE RestoreTree(g, Shallow(g, n)))
    \/ \E b \in RestoreStops(g) :
          /\ d = Raised(RestoreTree(g, MadeBefore(g, b)
                            \cup MadeBeside(g, b, {y \in Beside(g, b) : Sooner(order, y, b)})))
          /\ \A a \in RestoreStops(g) \ {b} : Precedes(order, b, a)

\* What mkdir refuses is in the tree, and is not its root.
LEMMA UnrestorableFacts ==
    ASSUME NEW g \in Tree, WellFormed(g)
    PROVE  /\ Unrestorable(g) \in SUBSET Subtree(g, Root)
           /\ \A b \in Unrestorable(g) : b \in Path /\ Len(b) \in Nat \ {0}
           /\ Root \in Subtree(g, Root) /\ Len(Root) = 0
  <1>1. \A b \in Unrestorable(g) : b \in Path /\ b # Root /\ Exists(g, b)
    BY DEF Unrestorable, IsDir, Exists
  <1>2. Root \in Subtree(g, Root)
    BY RootFacts, PathFacts DEF WellFormed, Subtree, IsDir, Exists
  <1>3. Len(Root) = 0
    BY DEF Root
  <1>. QED
    BY <1>1, <1>2, <1>3, PathFacts, ParentFacts DEF Subtree

\* The root, which is there already, gets its policy back.
LEMMA RestoreRootIs ==
    ASSUME NEW g \in Tree, WellFormed(g), NEW order, Enumerates(order)
    PROVE  RestoreDepth(g, EmptyTree, 0, order) = Done(RestoreTree(g, {Root}))
  <1>1. PICK walk : /\ \A q \in Path, h \in Tree : walk[q][h] = WalkOne(walk, g, 0, order, q, h)
                    /\ \A f : RestoreDepth(g, f, 0, order) = walk[Root][f]
    BY WalkIs
  <1>2. RestoreNode(g, EmptyTree, Root) = Done(RestoreTree(g, {Root}))
    <2>. DEFINE h == RestoreTree(g, {Root})
                made == MakeDirs(EmptyTree, Root)
    <2>1. EmptyTree \in Tree /\ WellFormed(EmptyTree)
      BY EmptyTreeFacts
    <2>2. CanMakeDirs(EmptyTree, Root)
      BY <2>1, RootFacts, NodeFacts DEF CanMakeDirs, IsFile, IsDir, WellFormed
    <2>3. ResolveDirCalls(EmptyTree, Root) = Done(made)
      BY <2>1, <2>2, RootFacts, ResolveDirIs
    <2>4. made = [p \in Path |-> made[p]] /\ h = [p \in Path |-> h[p]]
      BY DEF MakeDirs, RestoreTree
    <2>5. ASSUME NEW p \in Path
          PROVE  h[p] = IF p = Root THEN g[Root] ELSE made[p]
      <3>1. made[p] = IF Under(Root, p) /\ ~Exists(EmptyTree, p) THEN NewDir ELSE EmptyTree[p]
        BY DEF MakeDirs
      <3>2. h[p] = IF p = Root THEN g[p] ELSE Absent
        BY DEF RestoreTree
      <3>3. p # Root => EmptyTree[p] = Absent
        BY DEF EmptyTree
      <3>. HIDE DEF made, h
      <3>. QED
        BY <3>1, <3>2, <3>3, RootFacts
    <2>6. IsDir(g, Root)
      BY DEF WellFormed
    <2>7. RestoreNode(g, EmptyTree, Root) = Done([made EXCEPT ![Root] = g[Root]])
      BY <2>3, <2>6 DEF RestoreNode, Done
    <2>. HIDE DEF made, h
    <2>8. [made EXCEPT ![Root] = g[Root]] = [p \in Path |-> IF p = Root THEN g[Root] ELSE made[p]]
      BY <2>4
    <2>9. h = [made EXCEPT ![Root] = g[Root]]
      BY <2>4, <2>5, <2>8
    <2>. QED
      BY <2>7, <2>9 DEF h
  <1>3. Root \in ByDepth(Subtree(g, Root), 0)
    BY UnrestorableFacts DEF ByDepth
  <1>. DEFINE d == Loop(RestoreTree(g, {Root}), Children(g, Root), order, walk)
  <1>4. RestoreDepth(g, EmptyTree, 0, order) = d
    <2>1. walk[Root][EmptyTree] = WalkOne(walk, g, 0, order, Root, EmptyTree)
      BY <1>1, RootFacts, EmptyTreeFacts
    <2>2. WalkOne(walk, g, 0, order, Root, EmptyTree) = d
      BY <1>2, <1>3 DEF WalkOne, Done
    <2>. QED
      BY <1>1, <2>1, <2>2
  <1>5. Ready(g, 0, {Root})
    <2>1. \A q \in Subtree(g, Root) : Len(q) \in Nat
      BY PathFacts DEF Subtree
    <2>. QED
      BY <2>1, UnrestorableFacts DEF Ready
  <1>6. \A c \in Children(g, Root) : AtDepth(g, 0, {c}) = {} /\ Refusals(g, 0, c) = {}
    BY BelowDepth, RootFacts, UnrestorableFacts
  <1>7. WalkLoopEnds(g, 0, Root, {Root}, order, Len(order), d)
    <2>1. \A c \in Children(g, Root) : c \in Path
      BY DEF Children
    <2>2. \A c \in Children(g, Root) : \A U :
              Ready(g, 0, U) /\ U \cap AtDepth(g, 0, {c}) = {}
                 => WalkEnds(g, 0, c, U, order, walk[c][RestoreTree(g, U)])
      BY <1>1, <2>1, WalkCallsEnds
    <2>3. \A c \in Children(g, Root) : {Root} \cap AtDepth(g, 0, {c}) = {}
      BY <1>6
    <2>. QED
      BY <1>5, <2>2, <2>3, RootFacts, WalkLoop
  <1>. HIDE DEF d
  <1>8. \A i : Among(Children(g, Root), order, i) \in SUBSET Children(g, Root)
    BY DEF Among
  <1>9. Len(order) \in Nat
    BY LenProperties DEF Enumerates
  <1>10. d = Done(RestoreTree(g, {Root} \cup AtDepth(g, 0, Among(Children(g, Root), order, Len(order)))))
    BY <1>6, <1>7 DEF WalkLoopEnds
  <1>11. AtDepth(g, 0, Among(Children(g, Root), order, Len(order))) = {}
    BY <1>6, <1>8 DEF AtDepth
  <1>. QED
    BY <1>4, <1>10, <1>11

\* One depth more.
LEMMA RestoreDepthEnds ==
    ASSUME NEW g \in Tree, WellFormed(g), NEW order, Enumerates(order), NEW n \in Nat,
           \A b \in Unrestorable(g) : n <= Len(b)
    PROVE  DepthEnds(g, order, n + 1,
                     RestoreDepth(g, IF n = 0 THEN EmptyTree ELSE RestoreTree(g, Shallow(g, n)),
                                  n, order))
  <1>0. \A x \in Subtree(g, Root) : x \in Path /\ Len(x) \in Nat /\ (Len(x) = 0 => x = Root)
    BY PathFacts, ParentFacts DEF Subtree
  <1>1. CASE n = 0
    <2>1. Shallow(g, 1) = {Root}
      BY <1>0, UnrestorableFacts DEF Shallow
    <2>2. \A b \in Unrestorable(g) : 1 <= Len(b)
      BY UnrestorableFacts
    <2>. QED
      BY <1>1, <2>1, <2>2, RestoreRootIs DEF DepthEnds
  <1>2. CASE n # 0
    <2>. DEFINE T == Shallow(g, n)
                d == RestoreDepth(g, RestoreTree(g, T), n, order)
    <2>1. Ready(g, n, T) /\ T \cap AtDepth(g, n, {Root}) = {}
      <3>1. Ready(g, n, T)
        BY <1>0, <1>2, UnrestorableFacts DEF Ready, Shallow
      <3>2. \A x \in T : Len(x) # n
        BY <1>0 DEF Shallow
      <3>. HIDE DEF T
      <3>. QED
        BY <3>1, <3>2, AtDepthFacts
    <2>. HIDE DEF T
    <2>2. WalkEnds(g, n, Root, T, order, d)
      <3>1. PICK walk :
              /\ \A q \in Path, h \in Tree : walk[q][h] = WalkOne(walk, g, n, order, q, h)
              /\ \A f : RestoreDepth(g, f, n, order) = walk[Root][f]
        BY WalkIs
      <3>2. WalkEnds(g, n, Root, T, order, walk[Root][RestoreTree(g, T)])
        BY <2>1, <3>1, RootFacts, WalkCallsEnds
      <3>. QED
        BY <3>1, <3>2
    <2>. HIDE DEF d
    <2>3. Refusals(g, n, Root) = {b \in Unrestorable(g) : Len(b) = n}
      BY UnrestorableFacts, PathFacts DEF Refusals
    <2>4. CASE Refusals(g, n, Root) = {} /\ d = Done(RestoreTree(g, T \cup AtDepth(g, n, {Root})))
      <3>1. T \cup AtDepth(g, n, {Root}) = Shallow(g, n + 1)
        <4>1. AtDepth(g, n, {Root}) = {x \in Subtree(g, Root) : Len(x) = n}
          BY DEF AtDepth, ByDepth, Subtree
        <4>2. \A x \in Subtree(g, Root) : Len(x) < n + 1 <=> Len(x) < n \/ Len(x) = n
          BY <1>0
        <4>. QED
          BY <4>1, <4>2 DEF T, Shallow
      <3>2. \A b \in Unrestorable(g) : n + 1 <= Len(b)
        BY <2>3, <2>4, UnrestorableFacts
      <3>3. n + 1 # 0
        OBVIOUS
      <3>4. DepthEnds(g, order, n + 1, d)
        BY <2>4, <3>1, <3>2, <3>3 DEF DepthEnds
      <3>. QED
        BY <1>2, <3>4 DEF d, T
    <2>5. ASSUME NEW b \in Refusals(g, n, Root),
                 d = Raised(RestoreTree(g, T \cup AtDepth(g, n, SoonBeside(g, Root, b, order)))),
                 \A a \in Refusals(g, n, Root) \ {b} : Precedes(order, b, a)
          PROVE  DepthEnds(g, order, n + 1, d)
      <3>1. RestoreStops(g) = Refusals(g, n, Root)
        BY <2>3, <2>5, UnrestorableFacts DEF RestoreStops
      <3>2. Len(b) = n
        BY <2>3
      <3>3. T = MadeBefore(g, b)
        BY <3>2 DEF T, Shallow, MadeBefore
      <3>4. SoonBeside(g, Root, b, order) = {y \in Beside(g, b) : Sooner(order, y, b)}
        <4>1. \A y \in Beside(g, b) : StrictlyUnder(y, Root)
          BY DEF Beside, Subtree, StrictlyUnder
        <4>. QED
          BY <4>1 DEF SoonBeside
      <3>5. \A Q : AtDepth(g, n, Q) = MadeBeside(g, b, Q)
        BY <3>2 DEF AtDepth, ByDepth, MadeBeside
      <3>. QED
        BY <2>5, <3>1, <3>3, <3>4, <3>5 DEF DepthEnds
    <2>6. DepthEnds(g, order, n + 1, d)
      <3>1. CASE Refusals(g, n, Root) = {} /\ d = Done(RestoreTree(g, T \cup AtDepth(g, n, {Root})))
        BY <1>2, <2>4, <3>1 DEF d, T
      <3>. QED
        BY <2>2, <2>5, <3>1 DEF WalkEnds
    <2>. QED
      BY <1>2, <2>6 DEF d, T
  <1>. QED
    BY <1>1, <1>2

\* MaxDepth is the length of the longest path, if there is an order of them all.
LEMMA MaxDepthFacts ==
    ASSUME NEW order, Enumerates(order)
    PROVE  MaxDepth \in Nat /\ \A p \in Path : Len(p) <= MaxDepth
  <1>. DEFINE lengths == {Len(p) : p \in Path}
              bounds == {n \in Nat : \A p \in Path : Len(p) <= n}
  <1>1. \A p \in Path : Len(p) \in Nat
    BY PathFacts
  <1>2. bounds # {} /\ bounds \in SUBSET Nat
    BY PathsAreBounded
  <1>3. PICK n \in bounds : \A m \in bounds : n <= m
    <2>. HIDE DEF bounds
    <2>. QED
      BY <1>2, LeastElement
  <1>4. n \in lengths
    <2>1. SUFFICES ASSUME n \notin lengths
                   PROVE  FALSE
      OBVIOUS
    <2>2. n \in Nat /\ \A p \in Path : Len(p) <= n /\ Len(p) # n
      BY <2>1
    <2>3. CASE n = 0
      BY <1>1, <2>2, <2>3, RootFacts
    <2>4. CASE n # 0
      <3>1. n - 1 \in Nat /\ \A p \in Path : Len(p) <= n - 1
        BY <1>1, <2>2, <2>4
      <3>2. n - 1 \in bounds
        BY <3>1
      <3>. HIDE DEF bounds
      <3>. QED
        BY <1>3, <2>2, <3>2
    <2>. QED
      BY <2>3, <2>4
  <1>5. \E k \in lengths : \A p \in Path : Len(p) <= k
    BY <1>4
  <1>6. MaxDepth \in lengths /\ \A p \in Path : Len(p) <= MaxDepth
    BY <1>5 DEF MaxDepth
  <1>. QED
    BY <1>1, <1>6

\* How a restore ends: with everything back, or at the first directory that
\* mkdir refuses.
RestoreEnds(g, order, d) ==
    \/ Unrestorable(g) = {} /\ d = Done(RestoreTree(g, Subtree(g, Root)))
    \/ \E b \in RestoreStops(g) :
          /\ d = Raised(RestoreTree(g, MadeBefore(g, b)
                            \cup MadeBeside(g, b, {y \in Beside(g, b) : Sooner(order, y, b)})))
          /\ \A a \in RestoreStops(g) \ {b} : Precedes(order, b, a)

\* A restore ends as RestoreEnds says.
LEMMA RestoreCallsEnds ==
    ASSUME NEW g \in Tree, WellFormed(g), NEW order, Enumerates(order)
    PROVE  RestoreEnds(g, order, RestoreCalls(g, order))
  <1>1. PICK m \in Nat : m = MaxDepth
    BY MaxDepthFacts
  <1>. DEFINE depths == [n \in 1..MaxDepth + 1 |-> n - 1]
              restore == [n \in 0..MaxDepth |-> [f \in Tree |-> RestoreDepth(g, f, n, order)]]
              all == {Done(RestoreTree(g, T)) : T \in SUBSET Path}
                       \cup {Raised(RestoreTree(g, T)) : T \in SUBSET Path} \cup {Done(EmptyTree)}
              ends(i) == {d \in all : DepthEnds(g, order, i, d)}
              inv == [i \in 0..m + 1 |-> ends(i)]
              d == Loop(EmptyTree, 0..MaxDepth, depths, restore)
  <1>2. /\ Len(depths) = m + 1
        /\ \A i \in 1..m + 1 : depths[i] = i - 1 /\ i - 1 \in 0..MaxDepth
    BY <1>1
  <1>3. \A n, f : n \in 0..m /\ f \in Tree => restore[n][f] = RestoreDepth(g, f, n, order)
    BY <1>1
  <1>4. RestoreCalls(g, order) = d
    BY DEF RestoreCalls
  <1>. HIDE DEF depths, restore
  <1>5. \A i, e : DepthEnds(g, order, i, e) => e \in all
    <2>1. ASSUME NEW i, NEW e, DepthEnds(g, order, i, e)
          PROVE  \/ e = Done(EmptyTree)
                 \/ e = Done(RestoreTree(g, Shallow(g, i)))
                 \/ \E b, Q : e = Raised(RestoreTree(g, MadeBefore(g, b) \cup MadeBeside(g, b, Q)))
      BY <2>1 DEF DepthEnds
    <2>2. \A i : Shallow(g, i) \in SUBSET Path
      BY DEF Shallow, Subtree
    <2>3. \A b, Q : MadeBefore(g, b) \cup MadeBeside(g, b, Q) \in SUBSET Path
      BY DEF MadeBefore, MadeBeside, Subtree
    <2>4. ASSUME NEW e, NEW T \in SUBSET Path,
                 e = Done(RestoreTree(g, T)) \/ e = Raised(RestoreTree(g, T))
          PROVE  e \in all
      BY <2>4
    <2>5. Done(EmptyTree) \in all
      OBVIOUS
    <2>. HIDE DEF all
    <2>6. ASSUME NEW i, NEW e, DepthEnds(g, order, i, e)
          PROVE  e \in all
      <3>1. CASE e = Done(EmptyTree)
        BY <2>5, <3>1
      <3>2. CASE e = Done(RestoreTree(g, Shallow(g, i)))
        BY <2>2, <2>4, <3>2
      <3>3. ASSUME NEW b, NEW Q,
                   e = Raised(RestoreTree(g, MadeBefore(g, b) \cup MadeBeside(g, b, Q)))
            PROVE  e \in all
        BY <2>3, <2>4, <3>3
      <3>. QED
        BY <2>1, <2>6, <3>1, <3>2, <3>3
    <2>. QED
      BY <2>6
  <1>6. Done(EmptyTree) \in inv[0]
    <2>1. \A b \in Unrestorable(g) : 0 <= Len(b)
      BY UnrestorableFacts
    <2>2. DepthEnds(g, order, 0, Done(EmptyTree))
      BY <2>1 DEF DepthEnds
    <2>. HIDE DEF all
    <2>. QED
      BY <1>5, <2>2
  <1>. HIDE DEF all
  <1>7. ASSUME NEW i \in 1..m + 1, NEW e \in inv[i - 1]
        PROVE  Continue(e, 0..MaxDepth, depths[i], restore) \in inv[i]
    <2>. DEFINE n == i - 1
                next == Continue(e, 0..MaxDepth, depths[i], restore)
                f == IF n = 0 THEN EmptyTree ELSE RestoreTree(g, Shallow(g, n))
    <2>1. n \in 0..m /\ n \in Nat /\ n \in 0..m + 1 /\ i = n + 1 /\ i \in 0..m + 1
      OBVIOUS
    <2>2. DepthEnds(g, order, n, e)
      BY <2>1
    <2>3. depths[i] = n /\ n \in 0..MaxDepth
      BY <1>2
    <2>. HIDE DEF n, next
    <2>4. ASSUME \A b \in Unrestorable(g) : n <= Len(b), e = Done(f)
          PROVE  DepthEnds(g, order, i, next)
      <3>1. f \in Tree
        BY NodeFacts, EmptyTreeFacts DEF RestoreTree, Tree
      <3>2. next = RestoreDepth(g, f, n, order)
        <4>. HIDE DEF f
        <4>1. e.ok /\ e.tree = f
          BY <2>4 DEF Done
        <4>2. next = restore[n][f]
          BY <2>3, <4>1 DEF next, Continue
        <4>. QED
          BY <1>3, <2>1, <3>1, <4>2
      <3>. QED
        BY <2>1, <2>4, <3>2, RestoreDepthEnds
    <2>5. ASSUME NEW b \in RestoreStops(g),
                 e = Raised(RestoreTree(g, MadeBefore(g, b)
                            \cup MadeBeside(g, b, {y \in Beside(g, b) : Sooner(order, y, b)}))),
                 \A a \in RestoreStops(g) \ {b} : Precedes(order, b, a)
          PROVE  DepthEnds(g, order, i, next)
      <3>1. next = e
        BY <2>5 DEF next, Continue, Raised
      <3>. QED
        BY <2>5, <3>1 DEF DepthEnds
    <2>6. DepthEnds(g, order, i, next)
      BY <2>2, <2>4, <2>5 DEF DepthEnds
    <2>7. next \in inv[i]
      BY <1>5, <2>1, <2>6
    <2>. QED
      BY <2>7 DEF next
  <1>8. d \in inv[m + 1]
    <2>1. Len(depths) \in Nat
      BY <1>2
    <2>. HIDE DEF inv
    <2>2. \A i \in 1..Len(depths) : \A e \in inv[i - 1] :
             Continue(e, 0..MaxDepth, depths[i], restore) \in inv[i]
      BY <1>2, <1>7
    <2>3. Loop(EmptyTree, 0..MaxDepth, depths, restore) \in inv[Len(depths)]
      BY <1>6, <2>1, <2>2, LoopInvariant
    <2>. QED
      BY <1>2, <2>3
  <1>. HIDE DEF d
  <1>9. DepthEnds(g, order, m + 1, d)
    <2>1. m + 1 \in 0..m + 1
      OBVIOUS
    <2>. QED
      BY <1>8, <2>1
  <1>10. ASSUME \A b \in Unrestorable(g) : m + 1 <= Len(b)
         PROVE  Unrestorable(g) = {} /\ Shallow(g, m + 1) = Subtree(g, Root)
    <2>1. \A p \in Path : Len(p) \in Nat /\ Len(p) <= m
      BY <1>1, MaxDepthFacts, PathFacts
    <2>2. Unrestorable(g) = {}
      BY <1>10, <2>1, UnrestorableFacts
    <2>3. \A x \in Subtree(g, Root) : x \in Path
      BY DEF Subtree
    <2>4. \A x \in Subtree(g, Root) : Len(x) < m + 1
      BY <2>1, <2>3
    <2>. QED
      BY <2>2, <2>4 DEF Shallow
  <1>11. m + 1 # 0
    OBVIOUS
  <1>12. RestoreEnds(g, order, d)
    BY <1>9, <1>10, <1>11 DEF DepthEnds, RestoreEnds
  <1>. QED
    BY <1>4, <1>12

\* What lies beside the way to b.
LEMMA BesideFacts ==
    ASSUME NEW g \in Tree, WellFormed(g), NEW b \in RestoreStops(g), NEW x \in Beside(g, b)
    PROVE  /\ x \in Path \ {Root} /\ b \in Path /\ ~Under(b, x)
           /\ \A a \in RestoreStops(g) : ~Under(a, x)
           /\ \E c \in Path \ {Root} : Under(b, c) /\ Parent(c) = Parent(x)
  <1>1. /\ x \in Path \ {Root} /\ StrictlyUnder(b, Parent(x)) /\ ~Under(b, x)
        /\ \A c \in Unrestorable(g) : Under(c, x) => Len(c) # Len(b)
    BY DEF Beside, Subtree
  <1>2. /\ RestoreStops(g) \in SUBSET Unrestorable(g)
        /\ \A a, c \in RestoreStops(g) : Len(a) <= Len(c) /\ Len(c) <= Len(a)
    BY DEF RestoreStops
  <1>3. \A a \in RestoreStops(g) : a \in Path /\ Len(a) \in Nat
    BY <1>2, UnrestorableFacts
  <1>4. \A a \in RestoreStops(g) : Len(a) = Len(b)
    BY <1>2, <1>3
  <1>5. \A a \in RestoreStops(g) : ~Under(a, x)
    BY <1>1, <1>2, <1>4
  <1>6. \E c \in Path \ {Root} : Under(b, c) /\ Parent(c) = Parent(x)
    BY <1>1, <1>3, ParentFacts, ChildTowards
  <1>. QED
    BY <1>1, <1>3, <1>5, <1>6

\* In an order that has Q first and then the way to b, a restore makes the nodes
\* of Q and ends with b.
LEMMA RestoreStopsThere ==
    ASSUME NEW g \in Tree, WellFormed(g), NEW b \in RestoreStops(g),
           NEW Q \in SUBSET Beside(g, b),
           NEW order, Enumerates(order),
           StartsWith(order, Q, {c \in Path \ {Root} : Under(b, c)}),
           NEW d, RestoreEnds(g, order, d)
    PROVE  d = Raised(RestoreTree(g, MadeBefore(g, b) \cup MadeBeside(g, b, Q)))
  <1>. DEFINE Way == {c \in Path \ {Root} : Under(b, c)}
              First(a) == {y \in Beside(g, a) : Sooner(order, y, a)}
  <1>1. \A x \in Q : x \in Path \ {Root} /\ x \notin Way
    BY BesideFacts
  <1>2. \A x, y \in Path \ {Root} : \/ x \in Q /\ y \notin Q
                                    \/ x \in Way /\ y \notin Q \cup Way
                                    => Before(order, x, y)
    BY DEF StartsWith
  <1>3. \A x, y \in Path : Before(order, x, y) => ~Before(order, y, x)
    BY BeforeFacts
  <1>4. b \in Path /\ Unrestorable(g) # {}
    BY UnrestorableFacts DEF RestoreStops
  <1>5. PICK a \in RestoreStops(g) :
          /\ d = Raised(RestoreTree(g, MadeBefore(g, a) \cup MadeBeside(g, a, First(a))))
          /\ a # b => Precedes(order, a, b)
    BY <1>4 DEF RestoreEnds
  <1>6. a = b
    <2>1. SUFFICES ASSUME Precedes(order, a, b)
                   PROVE  FALSE
      BY <1>5
    <2>2. PICK c \in Path \ {Root}, e \in Path \ {Root} :
            Parent(c) = Parent(e) /\ Under(a, c) /\ Under(b, e) /\ Before(order, c, e)
      BY <2>1 DEF Precedes
    <2>3. c # e /\ ~Before(order, e, c)
      BY <1>3, <2>2
    <2>4. c \notin Way
      BY <1>4, <2>2, <2>3, ChildrenFacts, RootFacts
    <2>5. e \in Way
      BY <2>2
    <2>6. c \in Q
      BY <1>2, <2>3, <2>4, <2>5
    <2>. QED
      BY <2>2, <2>6, BesideFacts
  <1>7. ASSUME NEW x \in Beside(g, b)
        PROVE  x \in Q <=> Sooner(order, x, b)
    <2>1. x \in Path \ {Root} /\ x \notin Way
      BY BesideFacts
    <2>2. PICK c \in Way : Parent(c) = Parent(x)
      BY BesideFacts
    <2>3. ASSUME x \in Q
          PROVE  Sooner(order, x, b)
      BY <1>1, <1>2, <2>1, <2>3 DEF Sooner
    <2>4. ASSUME x \notin Q
          PROVE  ~Sooner(order, x, b)
      <3>1. Before(order, c, x)
        BY <1>2, <2>1, <2>2, <2>4
      <3>2. ~Before(order, x, c)
        BY <1>3, <2>1, <3>1
      <3>. QED
        BY <2>2, <3>2 DEF Sooner
    <2>. QED
      BY <2>3, <2>4
  <1>8. First(b) = Q
    BY <1>7
  <1>. QED
    BY <1>5, <1>6, <1>8

\* All the ends of a restore.
LEMMA RestoreSums ==
    ASSUME IsFiniteSet(Path), NEW g \in Tree, WellFormed(g)
    PROVE  {RestoreCalls(g, order) : order \in Orders}
             = {[tree |-> RestoreTree(g, T), ok |-> T = Subtree(g, Root)] :
                   T \in RestoreOutcomes(g)}
  <1>. DEFINE ends == {RestoreCalls(g, order) : order \in Orders}
              all == Subtree(g, Root)
              End(T) == [tree |-> RestoreTree(g, T), ok |-> T = all]
              Stopped(b, Q) == MadeBefore(g, b) \cup MadeBeside(g, b, Q)
  <1>1. \A order \in Orders : Enumerates(order)
    BY OrderAssumption
  <1>2. \A order \in Orders : RestoreEnds(g, order, RestoreCalls(g, order))
    BY <1>1, RestoreCallsEnds
  <1>3. Done(RestoreTree(g, all)) = End(all)
    BY DEF Done
  <1>4. ASSUME NEW b \in RestoreStops(g), NEW Q \in SUBSET Beside(g, b)
        PROVE  Raised(RestoreTree(g, Stopped(b, Q))) = End(Stopped(b, Q))
    <2>1. b \in all /\ b \in Path /\ Len(b) \in Nat
      BY UnrestorableFacts DEF RestoreStops
    <2>2. b \notin MadeBefore(g, b)
      BY <2>1 DEF MadeBefore
    <2>3. b \notin MadeBeside(g, b, Q)
      BY BesideFacts DEF MadeBeside
    <2>4. (Stopped(b, Q) = all) = FALSE
      BY <2>1, <2>2, <2>3
    <2>. HIDE DEF Stopped, all
    <2>. QED
      BY <2>4 DEF Raised
  <1>5. ASSUME NEW order \in Orders
        PROVE  \E T \in RestoreOutcomes(g) : RestoreCalls(g, order) = End(T)
    <2>. DEFINE d == RestoreCalls(g, order)
                First(b) == {y \in Beside(g, b) : Sooner(order, y, b)}
    <2>1. RestoreEnds(g, order, d)
      BY <1>2
    <2>. HIDE DEF d
    <2>2. CASE Unrestorable(g) = {} /\ d = Done(RestoreTree(g, all))
      <3>1. all \in RestoreOutcomes(g)
        BY <2>2 DEF RestoreOutcomes
      <3>. HIDE DEF all
      <3>. QED
        BY <1>3, <2>2, <3>1 DEF d
    <2>3. ASSUME NEW b \in RestoreStops(g), d = Raised(RestoreTree(g, Stopped(b, First(b))))
          PROVE  \E T \in RestoreOutcomes(g) : d = End(T)
      <3>1. First(b) \in SUBSET Beside(g, b) /\ Unrestorable(g) # {}
        BY DEF RestoreStops
      <3>. HIDE DEF First
      <3>2. Stopped(b, First(b)) \in RestoreOutcomes(g)
        BY <3>1 DEF RestoreOutcomes
      <3>3. d = End(Stopped(b, First(b)))
        BY <1>4, <2>3, <3>1
      <3>. HIDE DEF Stopped, End
      <3>. QED
        BY <3>2, <3>3
    <2>4. \E T \in RestoreOutcomes(g) : d = End(T)
      <3>1. CASE Unrestorable(g) = {} /\ d = Done(RestoreTree(g, all))
        BY <2>2, <3>1 DEF d
      <3>. HIDE DEF End
      <3>. QED
        BY <2>1, <2>3, <3>1 DEF RestoreEnds
    <2>. QED
      BY <2>4 DEF d
  <1>6. ASSUME NEW T \in RestoreOutcomes(g)
        PROVE  \E order \in Orders : RestoreCalls(g, order) = End(T)
    <2>1. CASE Unrestorable(g) = {}
      <3>1. PICK order \in Orders : TRUE
        <4>1. {} \in SUBSET (Path \ {Root}) /\ {} \cap {} = {}
          OBVIOUS
        <4>. QED
          BY <4>1, OrderAssumption
      <3>2. T = all
        BY <2>1 DEF RestoreOutcomes
      <3>3. RestoreCalls(g, order) = Done(RestoreTree(g, all))
        BY <1>2, <2>1 DEF RestoreEnds, RestoreStops
      <3>. HIDE DEF End
      <3>. QED
        BY <1>3, <3>2, <3>3
    <2>2. CASE Unrestorable(g) # {}
      <3>1. PICK b \in RestoreStops(g) : \E Q \in SUBSET Beside(g, b) : T = Stopped(b, Q)
        BY <2>2 DEF RestoreOutcomes
      <3>2. PICK Q \in SUBSET Beside(g, b) : T = Stopped(b, Q)
        BY <3>1
      <3>. DEFINE Way == {c \in Path \ {Root} : Under(b, c)}
      <3>3. /\ Q \in SUBSET (Path \ {Root})
            /\ Way \in SUBSET (Path \ {Root})
            /\ Q \cap Way = {}
        BY BesideFacts
      <3>. HIDE DEF Way
      <3>4. PICK order \in Orders : StartsWith(order, Q, Way)
        BY <3>3, OrderAssumption
      <3>5. RestoreCalls(g, order) = Raised(RestoreTree(g, Stopped(b, Q)))
        BY <1>1, <1>2, <3>4, RestoreStopsThere DEF Way
      <3>. HIDE DEF End, Stopped
      <3>. QED
        BY <1>4, <3>2, <3>5
    <2>. QED
      BY <2>1, <2>2
  <1>7. ends = {End(T) : T \in RestoreOutcomes(g)}
    <2>. HIDE DEF End
    <2>. QED
      BY <1>5, <1>6
  <1>. QED
    BY <1>7
=============================================================================
