---------------------------- MODULE Shell_proofs ----------------------------
(***************************************************************************)
(* What a line of commands promises, for every universe of paths, every    *)
(* set of lines, every policy and whatever other clients write to the      *)
(* adapters while it runs.                                                 *)
(***************************************************************************)
EXTENDS ShellProperties, VFS_proofs

-----------------------------------------------------------------------------
(* Texts put one after the other. *)

\* g[i] is the first i elements of s put together.
Flattens(g, s, n) ==
    g = [i \in 1..n |-> IF i = 1 THEN s[1] ELSE g[i - 1] \o s[i]]

StartAlike(s, t, n) == \A i \in 1..n : s[i] = t[i]

LEMMA FlattenIs ==
    ASSUME NEW s \in Seq(Seq(Data)), s # << >>, NEW h, Flattens(h, s, Len(s))
    PROVE  \E g : Flattens(g, s, Len(s)) /\ Seqs!FlattenSeq(s) = g[Len(s)]
  <1>. DEFINE g == CHOOSE g : g = [i \in 1..Len(s) |-> IF i = 1 THEN s[i] ELSE g[i - 1] \o s[i]]
  <1>1. Len(s) # 0
    BY EmptySeq
  <1>2. Seqs!FlattenSeq(s) = g[Len(s)]
    BY <1>1 DEF Seqs!FlattenSeq
  <1>3. h = [i \in 1..Len(s) |-> IF i = 1 THEN s[i] ELSE h[i - 1] \o s[i]]
    BY DEF Flattens
  <1>4. g = [i \in 1..Len(s) |-> IF i = 1 THEN s[i] ELSE g[i - 1] \o s[i]]
    BY <1>3
  <1>5. Flattens(g, s, Len(s))
    BY <1>4 DEF Flattens
  <1>. QED
    BY <1>2, <1>5

LEMMA FlattensStep ==
    ASSUME NEW s, NEW n, NEW g, Flattens(g, s, n), NEW i \in 1..n
    PROVE  g[i] = IF i = 1 THEN s[1] ELSE g[i - 1] \o s[i]
  BY DEF Flattens

LEMMA FlattensExists ==
    ASSUME NEW s \in Seq(Seq(Data)), NEW n \in 0..Len(s)
    PROVE  \E g : Flattens(g, s, n)
  <1>. DEFINE S == {k \in Nat : ~\E g : Flattens(g, s, k)}
  <1>1. ASSUME NEW m \in S, \A k \in S : m <= k
        PROVE  FALSE
    <2>1. m \in Nat
      OBVIOUS
    <2>2. CASE m = 0
      <3>. DEFINE g == [i \in 1..m |-> << >>]
      <3>1. 1..m = {}
        BY <2>2
      <3>2. g = [i \in 1..m |-> IF i = 1 THEN s[1] ELSE g[i - 1] \o s[i]]
        BY <3>1
      <3>. QED
        BY <3>2 DEF Flattens
    <2>3. CASE m # 0
      <3>1. m - 1 \in Nat /\ ~(m <= m - 1)
        BY <2>1, <2>3
      <3>2. PICK h : Flattens(h, s, m - 1)
        BY <1>1, <3>1
      <3>. DEFINE g == [i \in 1..m |-> IF i = m THEN IF m = 1 THEN s[1] ELSE h[m - 1] \o s[m]
                                       ELSE h[i]]
      <3>3. ASSUME NEW i \in 1..m
            PROVE  g[i] = IF i = 1 THEN s[1] ELSE g[i - 1] \o s[i]
        <4>1. CASE i = m
          <5>1. i # 1 => i - 1 \in 1..m /\ i - 1 # m
            BY <2>1, <4>1
          <5>. QED
            BY <4>1, <5>1
        <4>2. CASE i # m
          <5>1. i \in 1..(m - 1) /\ (i # 1 => i - 1 \in 1..m /\ i - 1 # m)
            BY <2>1, <4>2
          <5>2. h[i] = IF i = 1 THEN s[1] ELSE h[i - 1] \o s[i]
            BY <3>2, <5>1 DEF Flattens
          <5>. QED
            BY <4>2, <5>1, <5>2
        <4>. QED
          BY <4>1, <4>2
      <3>4. g = [i \in 1..m |-> IF i = 1 THEN s[1] ELSE g[i - 1] \o s[i]]
        BY <3>3
      <3>. HIDE DEF g
      <3>. QED
        BY <3>4 DEF Flattens
    <2>. QED
      BY <2>2, <2>3
  <1>2. S = {}
    BY <1>1, LeastElement
  <1>3. n \in Nat
    BY LenProperties
  <1>. QED
    BY <1>2, <1>3

LEMMA FlattensAgree ==
    ASSUME NEW s, NEW t, NEW n \in Nat, NEW m \in Nat, NEW g, NEW h, n <= m,
           Flattens(g, s, n), Flattens(h, t, m), StartAlike(s, t, n)
    PROVE  StartAlike(g, h, n)
  <1>. DEFINE S == {k \in 1..n : g[k] # h[k]}
  <1>1. ASSUME NEW k \in S, \A j \in S : k <= j
        PROVE  FALSE
    <2>1. k \in 1..n /\ k \in 1..m
      OBVIOUS
    <2>2. g[k] = IF k = 1 THEN s[1] ELSE g[k - 1] \o s[k]
      BY <2>1 DEF Flattens
    <2>3. h[k] = IF k = 1 THEN t[1] ELSE h[k - 1] \o t[k]
      BY <2>1 DEF Flattens
    <2>4. CASE k = 1
      BY <2>1, <2>2, <2>3, <2>4 DEF StartAlike
    <2>5. CASE k # 1
      <3>1. k - 1 \in 1..n /\ ~(k <= k - 1)
        BY <2>1, <2>5
      <3>2. g[k - 1] = h[k - 1]
        BY <1>1, <3>1
      <3>. QED
        BY <2>1, <2>2, <2>3, <2>5, <3>2 DEF StartAlike
    <2>. QED
      BY <2>4, <2>5
  <1>2. S \subseteq Nat
    OBVIOUS
  <1>3. S = {}
    BY <1>1, <1>2, LeastElement
  <1>. QED
    BY <1>3 DEF StartAlike

\* One more text at the end.
LEMMA FlattenAppend ==
    ASSUME NEW s \in Seq(Seq(Data)), NEW e \in Seq(Data)
    PROVE  /\ Seqs!FlattenSeq(<< >>) = << >>
           /\ Seqs!FlattenSeq(Append(s, e)) =
                IF s = << >> THEN e ELSE Seqs!FlattenSeq(s) \o e
  <1>. DEFINE t == Append(s, e)
  <1>0. PICK n \in Nat : n = Len(s)
    BY LenProperties
  <1>1. /\ t \in Seq(Seq(Data)) /\ t # << >> /\ Len(t) = n + 1 /\ n \in Nat
        /\ t[n + 1] = e /\ \A i \in 1..n : s[i] = t[i]
    BY <1>0, AppendProperties
  <1>. HIDE DEF t
  <1>2. PICK h : Flattens(h, t, Len(t))
    <2>1. Len(t) \in 0..Len(t)
      BY <1>1
    <2>. QED
      BY <1>1, <2>1, FlattensExists
  <1>3. PICK g : Flattens(g, t, n + 1) /\ Seqs!FlattenSeq(t) = g[n + 1]
    BY <1>1, <1>2, FlattenIs
  <1>4. g[n + 1] = IF n + 1 = 1 THEN t[1] ELSE g[n] \o e
    <2>1. n + 1 \in 1..(n + 1) /\ n + 1 - 1 = n
      OBVIOUS
    <2>2. g[n + 1] = IF n + 1 = 1 THEN t[1] ELSE g[n + 1 - 1] \o t[n + 1]
      BY <1>3, <2>1, FlattensStep
    <2>. QED
      BY <1>1, <2>1, <2>2
  <1>5. CASE s = << >>
    <2>1. n = 0
      BY <1>0, <1>5, EmptySeq
    <2>. QED
      BY <1>1, <1>3, <1>4, <1>5, <2>1 DEF t, Seqs!FlattenSeq
  <1>6. CASE s # << >>
    <2>1. n # 0
      BY <1>0, <1>6, EmptySeq
    <2>2. PICK k : Flattens(k, s, Len(s))
      <3>1. Len(s) \in 0..Len(s)
        BY <1>0
      <3>. QED
        BY <3>1, FlattensExists
    <2>3. PICK f : Flattens(f, s, n) /\ Seqs!FlattenSeq(s) = f[n]
      BY <1>0, <1>6, <2>2, FlattenIs
    <2>4. f[n] = g[n]
      <3>1. n \in 1..n /\ n <= n + 1 /\ n + 1 \in Nat
        BY <1>1, <2>1
      <3>2. StartAlike(f, g, n)
        <4>1. Flattens(f, s, n) /\ Flattens(g, t, n + 1)
          BY <1>3, <2>3
        <4>2. StartAlike(s, t, n)
          BY <1>1 DEF StartAlike
        <4>. QED
          BY <3>1, <4>1, <4>2, FlattensAgree
      <3>. QED
        BY <3>1, <3>2 DEF StartAlike
    <2>5. n + 1 # 1
      BY <1>1, <2>1
    <2>6. Seqs!FlattenSeq(<< >>) = << >>
      BY DEF Seqs!FlattenSeq
    <2>. QED
      BY <1>3, <1>4, <1>6, <2>3, <2>4, <2>5, <2>6 DEF t
  <1>. QED
    BY <1>5, <1>6

\* The texts of one more file.
LEMMA TextsStep ==
    ASSUME fs \in Tree, NEW files \in Seq(Path), NEW p \in Path
    PROVE  /\ TextsOf(<< >>) = << >>
           /\ TextsOf(Append(files, p)) = TextsOf(files) \o fs[p].content
  <1>. DEFINE Contents(f) == [i \in DOMAIN f |-> fs[f[i]].content]
  <1>1. \A q \in Path : fs[q].content \in Seq(Data)
    BY DEF Tree, Node
  <1>2. Contents(files) \in Seq(Seq(Data)) /\ Len(Contents(files)) = Len(files)
    <2>1. DOMAIN files = 1..Len(files) /\ Len(files) \in Nat
      BY LenProperties
    <2>2. Contents(files) \in [1..Len(files) -> Seq(Data)]
      <3>1. \A i \in 1..Len(files) : files[i] \in Path
        BY ElementOfSeq
      <3>. QED
        BY <1>1, <2>1, <3>1
    <2>. QED
      BY <2>1, <2>2
  <1>3. Contents(Append(files, p)) = Append(Contents(files), fs[p].content)
    <2>. DEFINE t == Append(files, p)
    <2>1. /\ t \in Seq(Path) /\ Len(t) = Len(files) + 1 /\ t[Len(files) + 1] = p
          /\ \A i \in 1..Len(files) : t[i] = files[i]
      BY AppendProperties
    <2>2. /\ DOMAIN files = 1..Len(files) /\ Len(files) \in Nat
          /\ DOMAIN t = 1..(Len(files) + 1)
      BY <2>1, LenProperties
    <2>. HIDE DEF t
    <2>. DEFINE u == Append(Contents(files), fs[p].content)
    <2>3. /\ u \in Seq(Seq(Data)) /\ Len(u) = Len(files) + 1
          /\ u[Len(files) + 1] = fs[p].content
          /\ \A i \in 1..Len(files) : u[i] = Contents(files)[i]
      BY <1>1, <1>2, AppendProperties
    <2>. HIDE DEF u
    <2>4. \A i \in 1..(Len(files) + 1) : u[i] = fs[t[i]].content
      <3>1. \A i \in 1..(Len(files) + 1) : i \in 1..Len(files) \/ i = Len(files) + 1
        BY <2>2
      <3>. QED
        BY <2>1, <2>2, <2>3, <3>1
    <2>5. u = [i \in DOMAIN t |-> fs[t[i]].content]
      BY <2>2, <2>3, <2>4
    <2>. QED
      BY <2>5 DEF t, u
  <1>. HIDE DEF Contents
  <1>4. /\ Seqs!FlattenSeq(<< >>) = << >>
        /\ Seqs!FlattenSeq(Append(Contents(files), fs[p].content)) =
             IF Contents(files) = << >> THEN fs[p].content
             ELSE Seqs!FlattenSeq(Contents(files)) \o fs[p].content
    BY <1>1, <1>2, FlattenAppend
  <1>5. Contents(<< >>) = << >>
    BY DEF Contents
  <1>6. \A f : TextsOf(f) = Seqs!FlattenSeq(Contents(f))
    BY DEF TextsOf, Contents
  <1>7. << >> \o fs[p].content = fs[p].content
    BY <1>1, ConcatEmptySeq
  <1>. QED
    BY <1>3, <1>4, <1>5, <1>6, <1>7

-----------------------------------------------------------------------------
(* Parts of texts. *)

LEMMA PrefixOf ==
    ASSUME NEW S, NEW s \in Seq(S), NEW t \in Seq(S), Len(s) <= Len(t),
           \A i \in 1..Len(s) : s[i] = t[i]
    PROVE  Seqs!IsPrefix(s, t)
  <1>1. Len(s) \in 0..Len(t) /\ Len(s) \in 0..Len(s)
    BY LenProperties
  <1>2. SubSeq(t, 1, Len(s)) = SubSeq(s, 1, Len(s))
    BY <1>1, SubSeqRestrict, SubSeqFull, LenProperties
  <1>. QED
    BY <1>2 DEF Seqs!IsPrefix

LEMMA ReverseFacts ==
    ASSUME NEW S, NEW s \in Seq(S)
    PROVE  /\ Seqs!Reverse(s) \in Seq(S) /\ Len(Seqs!Reverse(s)) = Len(s)
           /\ \A i \in 1..Len(s) : Seqs!Reverse(s)[i] = s[Len(s) - i + 1]
  <1>1. PICK n \in Nat : n = Len(s)
    BY LenProperties
  <1>2. \A i \in 1..n : s[n - i + 1] \in S
    <2>1. \A i \in 1..n : n - i + 1 \in 1..n
      OBVIOUS
    <2>. QED
      BY <1>1, <2>1, ElementOfSeq
  <1>3. Seqs!Reverse(s) = [i \in 1..n |-> s[n - i + 1]]
    BY <1>1 DEF Seqs!Reverse
  <1>. QED
    BY <1>1, <1>2, <1>3

LEMMA SuffixOf ==
    ASSUME NEW S, NEW s \in Seq(S), NEW t \in Seq(S), Len(s) <= Len(t),
           \A i \in 1..Len(s) : s[i] = t[Len(t) - Len(s) + i]
    PROVE  Seqs!IsSuffix(s, t)
  <1>1. PICK n \in Nat, m \in Nat : n = Len(s) /\ m = Len(t)
    BY LenProperties
  <1>2. ASSUME NEW i \in 1..n
        PROVE  Seqs!Reverse(s)[i] = Seqs!Reverse(t)[i]
    <2>1. n - i + 1 \in 1..n /\ m - n + (n - i + 1) = m - i + 1 /\ i \in 1..m
      BY <1>1
    <2>2. s[n - i + 1] = t[m - i + 1]
      BY <1>1, <2>1
    <2>. QED
      BY <1>1, <2>1, <2>2, ReverseFacts
  <1>3. Seqs!IsPrefix(Seqs!Reverse(s), Seqs!Reverse(t))
    <2>1. /\ Seqs!Reverse(s) \in Seq(S) /\ Len(Seqs!Reverse(s)) = n
          /\ Seqs!Reverse(t) \in Seq(S) /\ Len(Seqs!Reverse(t)) = m
      BY <1>1, ReverseFacts
    <2>. QED
      BY <1>1, <1>2, <2>1, PrefixOf
  <1>. QED
    BY <1>3 DEF Seqs!IsSuffix

\* What is put at the end of a text is its end.
LEMMA ConcatSuffix ==
    ASSUME NEW S, NEW s \in Seq(S), NEW t \in Seq(S)
    PROVE  Seqs!IsSuffix(t, s \o t) /\ Seqs!IsSuffix(t, t)
  <1>1. PICK n \in Nat, m \in Nat : n = Len(s) /\ m = Len(t)
    BY LenProperties
  <1>2. s \o t \in Seq(S) /\ Len(s \o t) = n + m
    BY <1>1, ConcatProperties
  <1>3. ASSUME NEW i \in 1..m
        PROVE  (s \o t)[n + m - m + i] = t[i]
    <2>1. n + m - m + i = n + i /\ n + i \in 1..(n + m) /\ ~(n + i <= n) /\ n + i - n = i
      OBVIOUS
    <2>. QED
      BY <1>1, <2>1, ConcatProperties
  <1>4. Seqs!IsSuffix(t, s \o t)
    <2>1. PICK u : u = s \o t
      OBVIOUS
    <2>2. u \in Seq(S) /\ Len(u) = n + m /\ \A i \in 1..m : u[n + m - m + i] = t[i]
      BY <1>2, <1>3, <2>1
    <2>3. m <= n + m
      OBVIOUS
    <2>4. Len(t) <= Len(u) /\ \A i \in 1..Len(t) : t[i] = u[Len(u) - Len(t) + i]
      BY <1>1, <2>2, <2>3
    <2>5. Seqs!IsSuffix(t, u)
      BY <2>2, <2>4, SuffixOf
    <2>. QED
      BY <2>1, <2>5
  <1>5. Seqs!IsSuffix(t, t)
    <2>1. \A i \in 1..m : m - m + i = i
      OBVIOUS
    <2>. QED
      BY <1>1, <2>1, SuffixOf
  <1>. QED
    BY <1>4, <1>5

LEMMA ShownFacts ==
    ASSUME NEW t \in Seq(Data), NEW c \in Int
    PROVE  /\ FirstLines(t, c) \in Seq(Data) /\ LastLines(t, c) \in Seq(Data)
           /\ Seqs!IsPrefix(FirstLines(t, c), t) /\ Seqs!IsSuffix(LastLines(t, c), t)
           /\ c > 0 /\ c <= Len(t) => Len(FirstLines(t, c)) = c /\ Len(LastLines(t, c)) = c
  <1>1. PICK n \in Nat : n = Len(t)
    BY LenProperties
  <1>2. PICK k \in Int : k = IF c < 0 THEN n + c ELSE IF c < n THEN c ELSE n
    OBVIOUS
  <1>3. PICK j \in Int : j = 1 + (IF c > n THEN 0 ELSE IF c > 0 THEN n - c ELSE -c)
    <2>1. CASE c > n
      BY <2>1
    <2>2. CASE ~(c > n) /\ c > 0
      BY <2>2
    <2>3. CASE ~(c > n) /\ ~(c > 0)
      BY <2>3
    <2>. QED
      BY <2>1, <2>2, <2>3
  <1>4. /\ k <= n /\ j >= 1 /\ (c > 0 /\ c <= n => k = c /\ n - j + 1 = c /\ j <= n)
    BY <1>2, <1>3
  <1>5. PICK first : first = FirstLines(t, c)
    OBVIOUS
  <1>6. PICK last : last = LastLines(t, c)
    OBVIOUS
  <1>7. first = SubSeq(t, 1, k) /\ last = SubSeq(t, j, n)
    BY <1>1, <1>2, <1>3, <1>5, <1>6 DEF FirstLines, LastLines
  <1>8. /\ first \in Seq(Data) /\ Len(first) = IF 1 <= k THEN k ELSE 0
        /\ \A i \in 1..k : first[i] = t[i]
    <2>1. \A i \in 1..k : t[i] \in Data /\ i = 1 + i - 1
      BY <1>1, <1>4, ElementOfSeq
    <2>2. /\ SubSeq(t, 1, k) \in Seq(Data)
          /\ Len(SubSeq(t, 1, k)) = IF 1 <= k THEN k - 1 + 1 ELSE 0
          /\ \A i \in 1..(k - 1 + 1) : SubSeq(t, 1, k)[i] = t[1 + i - 1]
      BY <2>1, SubSeqProperties
    <2>3. k - 1 + 1 = k
      OBVIOUS
    <2>. QED
      BY <1>7, <2>1, <2>2, <2>3
  <1>9. /\ last \in Seq(Data) /\ Len(last) = IF j <= n THEN n - j + 1 ELSE 0
        /\ \A i \in 1..(n - j + 1) : last[i] = t[j + i - 1]
    <2>1. \A i \in j..n : t[i] \in Data
      BY <1>1, <1>4, ElementOfSeq
    <2>. QED
      BY <1>7, <2>1, SubSeqProperties
  <1>10. Seqs!IsPrefix(first, t)
    <2>1. Len(first) <= Len(t) /\ \A i \in 1..Len(first) : first[i] = t[i]
      <3>1. Len(first) <= n /\ \A i \in 1..Len(first) : i \in 1..k
        BY <1>4, <1>8
      <3>. QED
        BY <1>1, <1>8, <3>1
    <2>. QED
      BY <1>8, <2>1, PrefixOf
  <1>11. Seqs!IsSuffix(last, t)
    <2>1. PICK l \in Nat : l = Len(last)
      BY <1>9, LenProperties
    <2>2. l <= n /\ \A i \in 1..l : i \in 1..(n - j + 1) /\ j + i - 1 = n - l + i
      BY <1>4, <1>9, <2>1
    <2>3. Len(last) <= Len(t) /\ \A i \in 1..Len(last) : last[i] = t[Len(t) - Len(last) + i]
      BY <1>1, <1>9, <2>1, <2>2
    <2>. QED
      BY <1>9, <2>3, SuffixOf
  <1>12. c > 0 /\ c <= n => Len(first) = c /\ Len(last) = c
    BY <1>4, <1>8, <1>9
  <1>. QED
    BY <1>1, <1>5, <1>6, <1>8, <1>9, <1>10, <1>11, <1>12

-----------------------------------------------------------------------------
(* What one call of the file system leaves. *)

LEMMA TouchMakes ==
    ASSUME Inv, NEW p \in Path, Touch(p), res' = "ok"
    PROVE  IsFile(fs', p) /\ \A q \in Path : IsFile(fs, q) => IsFile(fs', q)
  <1>1. CanEnsureFile(fs, p) /\ fs' = EnsureFile(fs, p)
    BY DEF Touch, Raise, Return, TreeOnly
  <1>2. fs \in Tree /\ WellFormed(fs)
    BY DEF Inv, TypeOK, TreeIsWellFormed
  <1>3. IsFile(fs', p)
    BY <1>1, <1>2, EnsureFileFacts
  <1>4. ASSUME NEW q \in Path, IsFile(fs, q)
        PROVE  IsFile(fs', q)
    BY <1>1, <1>4 DEF EnsureFile, MakeDirs, IsFile, Exists, NewFile
  <1>. QED
    BY <1>3, <1>4

LEMMA MkdirMakes ==
    ASSUME Inv, NEW p \in Path, NEW parents \in BOOLEAN, NEW exist_ok \in BOOLEAN,
           Mkdir(p, parents, exist_ok), res' = "ok"
    PROVE  IsDir(fs', p) /\ \A q \in Path : IsDir(fs, q) => IsDir(fs', q)
  <1>1. MkdirAllowed(p, parents, exist_ok) /\ fs' = MakeDirs(fs, p)
    BY DEF Mkdir, Raise, Return, TreeOnly
  <1>2. fs \in Tree /\ WellFormed(fs)
    BY DEF Inv, TypeOK, TreeIsWellFormed
  <1>. QED
    BY <1>1, <1>2, MkdirMeetsNoFile, MakeDirsFacts

LEMMA RemoveTakes ==
    ASSUME Inv, NEW p \in Path, NEW recursive \in BOOLEAN, Remove(p, recursive), res' = "ok"
    PROVE  ~Exists(fs', p) /\ \A q \in Path : ~Exists(fs, q) => ~Exists(fs', q)
  <1>1. PICK tops : TakeOut(tops) /\ p \in tops
    BY DEF Remove, Raise, Return
  <1>2. fs' = Detach(fs, tops)
    BY <1>1 DEF TakeOut
  <1>3. Under(p, p)
    BY PathFacts, UnderElements
  <1>. QED
    BY <1>1, <1>2, <1>3 DEF Detach, Exists, Absent

LEMMA WriteEndsWith ==
    ASSUME Inv, NEW p \in Path, NEW d \in Seq(Data), NEW append \in BOOLEAN, NEW expected,
           WriteFile(p, d, append, expected), res' = "ok"
    PROVE  Seqs!IsSuffix(d, fs'[p].content)
  <1>1. PICK f : f = EnsureFile(fs, p)
    OBVIOUS
  <1>2. CanEnsureFile(fs, p) /\ PersistAndPublish(f, p, Written(f[p], d, append))
    BY <1>1, WriteOutcomes
  <1>3. f \in Tree /\ IsFile(f, p)
    BY <1>1, <1>2, EnsureFileFacts DEF Inv, TypeOK, TreeIsWellFormed
  <1>4. f[p] \in Node /\ f[p].kind = "file" /\ f[p].content \in Seq(Data)
    BY <1>3 DEF Tree, Node, IsFile
  <1>5. fs'[p].content = IF append THEN f[p].content \o d ELSE d
    <2>1. fs' = [f EXCEPT ![p] = Written(f[p], d, append)]
      BY <1>2 DEF PersistAndPublish, AfterConflict, Return
    <2>2. fs'[p] = Written(f[p], d, append)
      BY <1>3, <2>1 DEF Tree
    <2>. QED
      BY <1>4, <2>2, WrittenFacts
  <1>. QED
    BY <1>4, <1>5, ConcatSuffix

LEMMA BelowItself ==
    ASSUME NEW p \in Seq(Name), NEW n
    PROVE  ~Under(p, Append(p, n))
  <1>1. Len(Append(p, n)) = Len(p) + 1 /\ Len(p) \in Nat
    OBVIOUS
  <1>. QED
    BY <1>1 DEF Under

\* A copy of the node is at dst or in the directory dst, and the node is still there.
LEMMA CopyArrives ==
    ASSUME Inv, NEW src \in Path, NEW dst \in Path, NEW recursive \in BOOLEAN,
           Copy(src, dst, recursive), res' = "ok"
    PROVE  Copied(src, dst)'
  <1>1. PICK to \in Path : to = Destination(fs, src, dst) /\ CopiedWhole(src, to)
    BY CopyOutcomes
  <1>2. fs \in Tree /\ WellFormed(fs) /\ Exists(fs, src) /\ dst \in Seq(Name)
    BY <1>1, PathFacts DEF Inv, TypeOK, TreeIsWellFormed, CopiedWhole
  <1>3. fs'[to] = [fs[src] EXCEPT !.version = 0]
    <2>1. Under(to, to) /\ Rebase(to, to, src) = src
      BY PathFacts, RebaseSelf
    <2>. QED
      BY <1>1, <2>1 DEF CopiedWhole
  <1>4. src # to => fs'[src] = fs[src]
    <2>1. src # to => ~Under(src, to)
      BY <1>1, <1>2, BelowAFile DEF CopiedWhole, StrictlyUnder
    <2>. QED
      BY <1>1, <2>1 DEF CopiedWhole
  <1>5. /\ fs'[to].kind = fs[src].kind /\ fs'[to].content = fs[src].content
        /\ fs'[src].kind = fs[src].kind /\ fs'[src].content = fs[src].content
    BY <1>2, <1>3, <1>4 DEF Tree, Node
  <1>6. Exists(fs', dst)
    <2>1. CASE to = dst
      BY <1>2, <1>5, <2>1 DEF Exists
    <2>2. CASE to # dst
      <3>1. IsDir(fs, dst) /\ to = Append(dst, BaseName(src))
        BY <1>1, <2>2 DEF Destination
      <3>2. ~Under(dst, to)
        BY <1>2, <3>1, BelowItself
      <3>. QED
        BY <1>1, <3>1, <3>2 DEF CopiedWhole, Exists, IsDir
    <2>. QED
      BY <2>1, <2>2
  <1>7. to \in {dst, Append(dst, BaseName(src))} /\ Exists(fs', to)
    BY <1>1, <1>2, <1>5 DEF Destination, Exists
  <1>. QED
    BY <1>5, <1>6, <1>7 DEF Copied, Arrivals

\* The moved node is at dst or in the directory dst, and gone from its old place.
LEMMA MoveArrives ==
    ASSUME Inv, NEW src \in Path, NEW dst \in Path, Move(src, dst), res' = "ok"
    PROVE  Moved(src, dst)'
  <1>1. fs \in Tree /\ WellFormed(fs) /\ dst \in Seq(Name)
    BY PathFacts DEF Inv, TypeOK, TreeIsWellFormed
  <1>2. /\ Exists(fs, src)
        /\ IsDir(fs, dst) => ~Under(dst, src)
    <2>1. ~MoveRefused(src, dst)
      BY DEF Move, Raise, Return
    <2>2. IsDir(fs, src) /\ IsDir(fs, dst) => ~Under(dst, src)
      BY <2>1 DEF MoveRefused, DestinationDir
    <2>3. ~IsDir(fs, src) /\ IsDir(fs, dst) => ~Under(dst, src)
      BY <1>1, BelowAFile DEF StrictlyUnder, IsDir, Exists
    <2>. QED
      BY <2>1, <2>2, <2>3 DEF MoveRefused
  <1>3. PICK to : to = Destination(fs, src, dst)
    OBVIOUS
  <1>4. /\ to \in Path /\ Exists(fs', to)
        /\ to = src \/ ~Exists(fs', src)
        /\ \A q \in Path : ~Under(q, to) /\ ~Under(q, src) => fs'[q] = fs[q]
    <2>1. CASE TreeOnly(fs) /\ to = src
      BY <1>2, <2>1 DEF TreeOnly
    <2>2. CASE to \in Path /\ MovedWhole(src, to)
      <3>1. Under(to, to) /\ Rebase(to, to, src) = src /\ Under(src, src)
        BY <2>2, PathFacts, RebaseSelf
      <3>2. fs'[to] = fs[src] /\ fs'[src] = Absent
        BY <2>2, <3>1 DEF MovedWhole
      <3>3. \A q \in Path : ~Under(q, to) /\ ~Under(q, src) => fs'[q] = fs[q]
        BY <2>2 DEF MovedWhole
      <3>. QED
        BY <1>2, <2>2, <3>2, <3>3, NodeFacts DEF Exists
    <2>. QED
      BY <1>3, <2>1, <2>2, MoveSucceeds
  <1>5. Exists(fs', dst)
    <2>1. CASE to = dst
      BY <1>4, <2>1
    <2>2. CASE to # dst
      <3>1. IsDir(fs, dst) /\ to = Append(dst, BaseName(src))
        BY <1>3, <2>2 DEF Destination
      <3>2. ~Under(dst, to) /\ ~Under(dst, src)
        BY <1>1, <1>2, <3>1, BelowItself
      <3>. QED
        BY <1>4, <3>1, <3>2 DEF Exists, IsDir
    <2>. QED
      BY <2>1, <2>2
  <1>6. to \in {dst, Append(dst, BaseName(src))}
    BY <1>3 DEF Destination
  <1>. QED
    BY <1>4, <1>5, <1>6 DEF Moved, Arrivals

\* A write leaves every other file as it is, and has the text it brings when it
\* changes the one it writes to.
LEMMA WriteSpares ==
    ASSUME Inv, NEW p \in Path, NEW d \in Seq(Data), NEW append \in BOOLEAN, NEW expected,
           WriteFile(p, d, append, expected)
    PROVE  \A q \in Files(fs) :
              \/ fs'[q] = fs[q]
              \/ q = p /\ (~append => fs'[q].content = d)
  <1>1. PICK f : f = EnsureFile(fs, p)
    OBVIOUS
  <1>2. PICK node : node = Written(f[p], d, append)
    OBVIOUS
  <1>3. CASE Raise
    BY <1>3 DEF Raise
  <1>4. CASE CanEnsureFile(fs, p)
    <2>1. f \in Tree /\ IsFile(f, p)
      BY <1>1, <1>4, EnsureFileFacts DEF Inv, TypeOK, TreeIsWellFormed
    <2>2. \A q \in Files(fs) : f[q] = fs[q]
      BY <1>1 DEF EnsureFile, MakeDirs, Files, IsFile, Exists
    <2>3. ~append => node.content = d
      <3>1. f[p] \in Node /\ f[p].kind = "file"
        BY <2>1 DEF Tree, IsFile
      <3>. QED
        BY <1>2, <3>1, WrittenFacts
    <2>4. CASE TreeOnly(f)
      BY <2>2, <2>4 DEF TreeOnly
    <2>5. CASE PersistAndPublish(f, p, node)
      <3>1. fs' = [f EXCEPT ![p] = node] \/ fs' = [f EXCEPT ![p].content = node.content]
        BY <2>5 DEF PersistAndPublish, AfterConflict, TreeOnly
      <3>2. DOMAIN f = Path /\ f[p] \in Node
        BY <2>1 DEF Tree
      <3>3. fs'[p].content = node.content /\ \A q \in Path \ {p} : fs'[q] = f[q]
        BY <3>1, <3>2 DEF Node
      <3>. QED
        BY <2>2, <2>3, <3>3 DEF Files
    <2>. QED
      BY <1>1, <1>2, <1>4, <2>4, <2>5 DEF WriteFile, Raise
  <1>. QED
    BY <1>3, <1>4 DEF WriteFile

-----------------------------------------------------------------------------
(* The inductive invariant. *)

\* What the command under way has done when it is through with the operands of
\* done: the part of CommandsKeepTheirWord that is about them.
Accomplished(done) ==
    /\ command.name = "touch" => \A i \in DOMAIN done : IsFile(fs, done[i])
    /\ command.name = "mkdir" => \A i \in DOMAIN done : IsDir(fs, done[i])
    /\ command.name = "rm"    => \A i \in DOMAIN done : ~Exists(fs, done[i])
    /\ command.name = "cp" /\ done # << >> => Copied(command.operands[1], command.operands[2])
    /\ command.name = "mv" /\ done # << >> => Moved(command.operands[1], command.operands[2])
    /\ command.name \in {"write", "append"} /\ done # << >> =>
         Seqs!IsSuffix(command.text, fs[command.operands[1]].content)
    /\ command.name = "cat" /\ command.operands # << >> => stdout = TextsOf(done)
    /\ command.name \in {"head", "tail"} /\ Len(command.operands) = 1 =>
         stdout = IF done = << >> THEN << >> ELSE Shown(fs[command.operands[1]].content)

\* The operands of the command are the ones that are done and the ones to come.
Underway ==
    /\ Runnable
    /\ \E done \in Seq(Path) : command.operands = done \o operands /\ Accomplished(done)

ShellVariables ==
    /\ line \in Seq(Command)
    /\ phase \in {"idle", "start", "run", "redirect"}
    /\ operands \in Seq(Path)
    /\ stdin \in Seq(Data) /\ stdout \in Seq(Data)
    /\ ended \in {"ok", "failed", "raised"}

ShellInv ==
    /\ Inv /\ ShellVariables
    /\ phase # "idle" => line # << >>
    /\ phase \in {"run", "redirect"} => Underway
    /\ phase = "redirect" => operands = << >> /\ command.stdout # NoFile

LEMMA CommandFacts ==
    ASSUME ShellInv, phase # "idle"
    PROVE  /\ command \in Command
           /\ command.operands \in Seq(Path) /\ command.text \in Seq(Data)
           /\ command.flag \in BOOLEAN /\ command.append \in BOOLEAN /\ command.count \in Int
           /\ command.stdout \in Path \cup {NoFile}
  <1>1. command \in Command
    BY HeadTailProperties DEF ShellInv, ShellVariables, command
  <1>. QED
    BY <1>1 DEF Command

\* exec is over.
LEMMA EndStep ==
    ASSUME Inv', NEW how \in {"ok", "failed", "raised"}, End(how)
    PROVE  ShellInv'
  <1>1. << >> \in Seq(Command) /\ << >> \in Seq(Path) /\ << >> \in Seq(Data)
    BY EmptySeq
  <1>. QED
    BY <1>1 DEF End, ShellInv, ShellVariables

LEMMA SameVars ==
    ASSUME Inv, UNCHANGED vars
    PROVE  Inv'
  BY NextInv

LEMMA TextTypes ==
    ASSUME Inv, NEW p \in Path
    PROVE  fs[p].content \in Seq(Data)
  BY DEF Inv, TypeOK, Tree, Node

\* What a reader shows of a text is a text.
LEMMA ShownIsText ==
    ASSUME ShellInv, phase # "idle", command.name \in Readers, NEW t \in Seq(Data)
    PROVE  Shown(t) \in Seq(Data)
  <1>1. command.count \in Int
    BY CommandFacts
  <1>. QED
    BY <1>1, ShownFacts DEF Shown, Readers

LEMMA StartInv ==
    ASSUME ShellInv, Start
    PROVE  ShellInv'
  <1>1. Inv'
    BY SameVars DEF Start, ShellInv
  <1>2. CASE End("raised") \/ End("failed")
    BY <1>1, <1>2, EndStep
  <1>. DEFINE from == command.stdin
              input == IF from # NoFile THEN fs[from].content
                       ELSE IF command.piped THEN stdout ELSE << >>
  <1>3. CASE /\ from # NoFile => Readable(from)
             /\ Runnable /\ phase' = "run" /\ operands' = command.operands
             /\ stdin' = input /\ stdout' = PrintedFirst(input)
             /\ UNCHANGED <<line, ended>> /\ UNCHANGED vars
    <2>1. phase = "start" /\ line # << >> /\ ShellVariables /\ Inv
      BY DEF Start, ShellInv
    <2>2. command \in Command /\ command.operands \in Seq(Path) /\ command.text \in Seq(Data)
      BY <2>1, CommandFacts
    <2>3. input \in Seq(Data)
      <3>1. from # NoFile => fs[from].content \in Seq(Data)
        BY <1>3, <2>1, TextTypes DEF Readable, IsFile
      <3>2. << >> \in Seq(Data) /\ stdout \in Seq(Data)
        BY <2>1, EmptySeq DEF ShellVariables
      <3>. QED
        BY <3>1, <3>2
    <2>. HIDE DEF input
    <2>4. PrintedFirst(input) \in Seq(Data)
      <3>1. command.name \in Readers => Shown(input) \in Seq(Data)
        BY <2>1, <2>3, ShownIsText
      <3>. QED
        BY <2>2, <3>1, EmptySeq DEF PrintedFirst
    <2>5. ShellVariables'
      BY <1>3, <2>1, <2>2, <2>3, <2>4 DEF ShellVariables
    <2>6. command' = command /\ fs' = fs
      BY <1>3 DEF command, vars
    <2>7. command.operands # << >> /\ command.name # "echo" => stdout' = << >>
      BY <1>3 DEF PrintedFirst
    <2>8. Accomplished(<< >>)'
      <3>1. TextsOf(<< >>)' = << >>
        <4>1. fs \in Tree /\ Root \in Path /\ << >> \in Seq(Path)
          BY <2>1, PathAssumption, EmptySeq DEF Inv, TypeOK
        <4>2. TextsOf(<< >>) = << >>
          BY <4>1, TextsStep
        <4>. QED
          BY <2>6, <4>2 DEF TextsOf
      <3>2. DOMAIN << >> = {}
        BY EmptySeq, LenProperties
      <3>3. Len(command.operands) = 1 => command.operands # << >>
        BY EmptySeq
      <3>. QED
        BY <2>6, <2>7, <3>1, <3>2, <3>3 DEF Accomplished
    <2>9. Runnable'
      BY <1>3, <2>6 DEF Runnable, Dispatched
    <2>10. command'.operands = << >> \o operands' /\ << >> \in Seq(Path)
      BY <1>3, <2>2, <2>6, ConcatEmptySeq, EmptySeq
    <2>11. Underway'
      BY <2>8, <2>9, <2>10 DEF Underway
    <2>. QED
      BY <1>1, <1>3, <2>1, <2>5, <2>11 DEF ShellInv
  <1>. QED
    BY <1>2, <1>3 DEF Start, Begin

\* Handling the next operand moves it from the front of the rest to the end of the
\* ones that are done.
LEMMA NextJoined ==
    ASSUME NEW done \in Seq(Path), NEW rest \in Seq(Path), rest # << >>
    PROVE  done \o rest = Append(done, Head(rest)) \o SubSeq(rest, 2, Len(rest))
  <1>1. Head(rest) \in Path /\ Tail(rest) \in Seq(Path) /\ Tail(rest) = SubSeq(rest, 2, Len(rest))
    BY HeadTailProperties, TailIsSubSeq
  <1>2. Append(done, Head(rest)) \in Seq(Path) /\ Append(done, Head(rest)) = done \o <<Head(rest)>>
    BY <1>1, AppendProperties, AppendIsConcat
  <1>3. rest = <<Head(rest)>> \o Tail(rest)
    <2>1. PICK n \in Nat \ {0} : n = Len(rest)
      BY EmptySeq
    <2>2. 1 \in 1..Len(rest) /\ Len(rest) \in 1..Len(rest)
      BY <2>1
    <2>3. SubSeq(rest, 1, Len(rest)) = <<rest[1]>> \o SubSeq(rest, 2, Len(rest))
      <3>1. 1 + 1 = 2
        OBVIOUS
      <3>. QED
        BY <2>2, <3>1, SubSeqRecursiveFirst
    <2>4. Head(rest) = rest[1]
      OBVIOUS
    <2>. QED
      BY <1>1, <2>3, <2>4, SubSeqFull
  <1>4. done \o rest = (done \o <<Head(rest)>>) \o Tail(rest)
    <2>1. <<Head(rest)>> \in Seq(Path)
      BY <1>1
    <2>. QED
      BY <1>1, <1>3, <2>1, ConcatAssociative
  <1>. QED
    BY <1>1, <1>2, <1>4

\* What is known of the operands of a command when the next one is done.
LEMMA NextOperand ==
    ASSUME NEW ops \in Seq(Path), NEW done \in Seq(Path), NEW rest \in Seq(Path),
           ops = done \o rest, rest # << >>
    PROVE  /\ Head(rest) \in Path
           /\ SubSeq(rest, 2, Len(rest)) \in Seq(Path)
           /\ Append(done, Head(rest)) \in Seq(Path)
           /\ ops = Append(done, Head(rest)) \o SubSeq(rest, 2, Len(rest))
           /\ Len(ops) = 1 => done = << >> /\ Head(rest) = ops[1]
           /\ Len(ops) = 2 /\ Len(rest) = 2 => rest = ops /\ done = << >>
  <1>1. Head(rest) \in Path /\ SubSeq(rest, 2, Len(rest)) \in Seq(Path)
    BY HeadTailProperties, TailIsSubSeq
  <1>2. Append(done, Head(rest)) \in Seq(Path)
    BY <1>1, AppendProperties
  <1>4. ops = Append(done, Head(rest)) \o SubSeq(rest, 2, Len(rest))
    BY NextJoined
  <1>5. PICK n \in Nat, m \in Nat : n = Len(done) /\ m = Len(rest)
    BY LenProperties
  <1>6. Len(ops) = n + m /\ m # 0
    BY <1>5, ConcatProperties, EmptySeq
  <1>7. n = 0 => done = << >> /\ ops = rest
    BY <1>5, EmptySeq, ConcatEmptySeq
  <1>8. Head(rest) = rest[1]
    OBVIOUS
  <1>9. Len(ops) = 1 => n = 0
    BY <1>6
  <1>10. Len(ops) = 2 /\ Len(rest) = 2 => n = 0
    BY <1>5, <1>6
  <1>. QED
    BY <1>1, <1>2, <1>4, <1>7, <1>8, <1>9, <1>10

\* The same about the command that runs.
LEMMA NextOfCommand ==
    ASSUME command.operands \in Seq(Path), operands \in Seq(Path), operands # << >>,
           NEW done \in Seq(Path), command.operands = done \o operands
    PROVE  /\ Head(operands) \in Path
           /\ SubSeq(operands, 2, Len(operands)) \in Seq(Path)
           /\ Append(done, Head(operands)) \in Seq(Path)
           /\ command.operands = Append(done, Head(operands)) \o SubSeq(operands, 2, Len(operands))
           /\ Len(command.operands) = 1 => done = << >> /\ Head(operands) = command.operands[1]
  <1>1. PICK ops : ops = command.operands
    OBVIOUS
  <1>2. ops \in Seq(Path) /\ ops = done \o operands
    BY <1>1
  <1>3. Head(operands) \in Path /\ SubSeq(operands, 2, Len(operands)) \in Seq(Path)
    BY <1>2, NextOperand
  <1>4. Append(done, Head(operands)) \in Seq(Path)
    BY <1>3, AppendProperties
  <1>6. ops = Append(done, Head(operands)) \o SubSeq(operands, 2, Len(operands))
    BY <1>2, NextJoined
  <1>5. Len(ops) = 1 => done = << >> /\ Head(operands) = ops[1]
    BY <1>2, NextOperand
  <1>. QED
    BY <1>1, <1>3, <1>4, <1>5, <1>6

\* The command goes on with the same operands and the same tree.
LEMMA SameAccomplished ==
    ASSUME fs' = fs, line' = line, stdout' = stdout, NEW done, Accomplished(done)
    PROVE  Accomplished(done)'
  <1>1. command' = command
    BY DEF command
  <1>2. \A f : TextsOf(f)' = TextsOf(f)
    BY DEF TextsOf
  <1>3. \A t : Shown(t)' = Shown(t)
    BY <1>1 DEF Shown
  <1>4. \A src, dst : Copied(src, dst)' = Copied(src, dst) /\ Moved(src, dst)' = Moved(src, dst)
    BY DEF Copied, Moved, Arrivals
  <1>. QED
    BY <1>1, <1>2, <1>3, <1>4 DEF Accomplished

LEMMA ReadInv ==
    ASSUME ShellInv, Read
    PROVE  ShellInv'
  <1>1. /\ phase = "run" /\ operands # << >> /\ command.name \in Readers /\ UNCHANGED vars
        /\ Inv /\ ShellVariables /\ line # << >> /\ Underway
    BY DEF Read, ShellInv
  <1>2. Inv'
    BY <1>1, SameVars
  <1>3. CASE End("failed")
    BY <1>2, <1>3, EndStep
  <1>4. CASE /\ Readable(Head(operands)) /\ Handled(1)
             /\ stdout' = stdout \o Shown(fs[Head(operands)].content)
             /\ UNCHANGED <<line, phase, stdin, ended>>
    <2>1. PICK done \in Seq(Path) : command.operands = done \o operands /\ Accomplished(done)
      BY <1>1 DEF Underway
    <2>2. command.operands \in Seq(Path) /\ operands \in Seq(Path) /\ stdout \in Seq(Data)
      BY <1>1, CommandFacts DEF ShellVariables
    <2>3. PICK p : p = Head(operands)
      OBVIOUS
    <2>4. /\ p \in Path /\ operands' \in Seq(Path) /\ Append(done, p) \in Seq(Path)
          /\ command.operands = Append(done, p) \o operands'
          /\ Len(command.operands) = 1 => done = << >> /\ p = command.operands[1]
      <3>1. operands' = SubSeq(operands, 2, Len(operands))
        BY <1>4 DEF Handled
      <3>2. /\ Head(operands) \in Path
            /\ SubSeq(operands, 2, Len(operands)) \in Seq(Path)
            /\ Append(done, Head(operands)) \in Seq(Path)
            /\ command.operands = Append(done, Head(operands)) \o SubSeq(operands, 2, Len(operands))
            /\ Len(command.operands) = 1 => done = << >> /\ Head(operands) = command.operands[1]
        BY <1>1, <2>1, <2>2, NextOfCommand
      <3>. QED
        BY <2>3, <3>1, <3>2
    <2>5. fs[p].content \in Seq(Data) /\ Shown(fs[p].content) \in Seq(Data)
      BY <1>1, <2>4, TextTypes, ShownIsText
    <2>6. stdout' = stdout \o Shown(fs[p].content) /\ stdout' \in Seq(Data)
      BY <1>4, <2>2, <2>3, <2>5, ConcatProperties
    <2>7. command' = command /\ fs' = fs
      BY <1>1, <1>4 DEF command, vars
    <2>8. command.operands # << >>
      BY <1>1, <2>1, <2>2, ConcatEqualIffEmpty
    <2>9. command.name = "cat" => stdout' = TextsOf(Append(done, p))'
      <3>. SUFFICES ASSUME command.name = "cat"
                    PROVE  stdout' = TextsOf(Append(done, p))'
        OBVIOUS
      <3>1. stdout = TextsOf(done) /\ Shown(fs[p].content) = fs[p].content
        BY <2>1, <2>8 DEF Accomplished, Shown
      <3>2. TextsOf(Append(done, p)) = TextsOf(done) \o fs[p].content
        BY <1>1, <2>4, TextsStep DEF Inv, TypeOK
      <3>3. TextsOf(Append(done, p))' = TextsOf(Append(done, p))
        BY <2>7 DEF TextsOf
      <3>. QED
        BY <2>6, <3>1, <3>2, <3>3
    <2>10. command.name \in {"head", "tail"} /\ Len(command.operands) = 1 =>
             stdout' = Shown(fs[command.operands[1]].content)
      <3>. SUFFICES ASSUME command.name \in {"head", "tail"}, Len(command.operands) = 1
                    PROVE  stdout' = Shown(fs[command.operands[1]].content)
        OBVIOUS
      <3>1. stdout = << >> /\ p = command.operands[1]
        BY <2>1, <2>4 DEF Accomplished
      <3>. QED
        BY <2>5, <2>6, <3>1, ConcatEmptySeq
    <2>11. Append(done, p) # << >>
      BY <2>4, AppendProperties
    <2>12. \A t : Shown(t)' = Shown(t)
      BY <2>7 DEF Shown
    <2>13. Accomplished(Append(done, p))'
      BY <1>1, <2>7, <2>9, <2>10, <2>11, <2>12 DEF Accomplished, Readers
    <2>14. Underway'
      BY <1>1, <2>4, <2>7, <2>13 DEF Underway, Runnable, Dispatched
    <2>15. ShellVariables'
      BY <1>1, <1>4, <2>4, <2>6 DEF ShellVariables
    <2>. QED
      BY <1>1, <1>2, <1>4, <2>14, <2>15 DEF ShellInv
  <1>. QED
    BY <1>3, <1>4 DEF Read

LEMMA AppendElements ==
    ASSUME NEW done \in Seq(Path), NEW p \in Path, NEW i \in DOMAIN Append(done, p)
    PROVE  \/ Append(done, p)[i] = p
           \/ i \in DOMAIN done /\ done[i] \in Path /\ Append(done, p)[i] = done[i]
  <1>1. PICK n \in Nat : n = Len(done)
    BY LenProperties
  <1>2. i \in 1..(n + 1)
    BY <1>1, AppendProperties, LenProperties
  <1>3. i \in 1..n \/ i = n + 1
    BY <1>2
  <1>. QED
    BY <1>1, <1>3, AppendProperties, LenProperties, ElementOfSeq

\* After a call of the file system the line has ended, or the call was for the
\* next operands and the command goes on.
LEMMA CallInv ==
    ASSUME ShellInv, phase = "run", Inv', NEW n, AfterCall(n), NEW done \in Seq(Path),
           res' = "ok" => /\ operands' \in Seq(Path)
                          /\ command.operands = done \o operands'
                          /\ Accomplished(done)'
    PROVE  ShellInv'
  <1>1. CASE End("failed")
    BY <1>1, EndStep
  <1>2. CASE res' = "ok" /\ UNCHANGED <<line, phase, stdin, stdout, ended>>
    <2>1. ShellVariables /\ line # << >> /\ Underway
      BY DEF ShellInv
    <2>2. command' = command
      BY <1>2 DEF command
    <2>3. ShellVariables'
      BY <1>2, <2>1 DEF ShellVariables
    <2>4. Underway'
      BY <1>2, <2>1, <2>2 DEF Underway, Runnable, Dispatched
    <2>. QED
      BY <1>2, <2>1, <2>3, <2>4 DEF ShellInv
  <1>. QED
    BY <1>1, <1>2 DEF AfterCall

\* The commands that take their operands one at a time.
LEMMA ChangeOneInv ==
    ASSUME ShellInv, phase = "run", operands # << >>, AfterCall(1),
           \E p \in Path : /\ p = Head(operands)
                           /\ CmdTouch(p) \/ CmdMkdir(p) \/ CmdRm(p) \/ CmdWrite(p)
    PROVE  ShellInv'
  <1>1. Inv /\ ShellVariables /\ Underway
    BY DEF ShellInv
  <1>2. /\ command.operands \in Seq(Path) /\ operands \in Seq(Path)
        /\ command.flag \in BOOLEAN /\ command.text \in Seq(Data)
    BY <1>1, CommandFacts DEF ShellVariables
  <1>3. PICK done \in Seq(Path) : command.operands = done \o operands /\ Accomplished(done)
    BY <1>1 DEF Underway
  <1>4. /\ Head(operands) \in Path
        /\ SubSeq(operands, 2, Len(operands)) \in Seq(Path)
        /\ Append(done, Head(operands)) \in Seq(Path)
        /\ command.operands = Append(done, Head(operands)) \o SubSeq(operands, 2, Len(operands))
        /\ Len(command.operands) = 1 => Head(operands) = command.operands[1]
    BY <1>2, <1>3, NextOfCommand
  <1>p. PICK p \in Path : /\ p = Head(operands)
                          /\ CmdTouch(p) \/ CmdMkdir(p) \/ CmdRm(p) \/ CmdWrite(p)
    OBVIOUS
  <1>m. PICK more : more = Append(done, p)
    OBVIOUS
  <1>5. /\ more \in Seq(Path) /\ SubSeq(operands, 2, Len(operands)) \in Seq(Path)
        /\ command.operands = more \o SubSeq(operands, 2, Len(operands))
        /\ Len(command.operands) = 1 => p = command.operands[1]
    <2>1. more = Append(done, Head(operands))
      BY <1>p, <1>m
    <2>. QED
      BY <1>4, <1>p, <2>1
  <1>6. \A i \in DOMAIN more :
          \/ more[i] = p
          \/ i \in DOMAIN done /\ done[i] \in Path /\ more[i] = done[i]
    BY <1>m, AppendElements
  <1>7. res' = "ok" => /\ operands' \in Seq(Path)
                       /\ command.operands = more \o operands' /\ command' = command
    <2>1. res' = "ok" => operands' = SubSeq(operands, 2, Len(operands)) /\ line' = line
      BY DEF AfterCall, Handled
    <2>2. res' = "ok" => command' = command
      BY <2>1 DEF command
    <2>. QED
      BY <1>5, <2>1, <2>2
  <1>8. CASE CmdTouch(p)
    <2>1. Inv' /\ command.name = "touch" /\ Touch(p)
      BY <1>1, <1>8, TouchInv DEF CmdTouch
    <2>2. ASSUME res' = "ok"
          PROVE  Accomplished(more)'
      <3>1. IsFile(fs', p) /\ \A q \in Path : IsFile(fs, q) => IsFile(fs', q)
        BY <1>1, <2>1, <2>2, TouchMakes
      <3>2. \A i \in DOMAIN more : IsFile(fs', more[i])
        BY <1>3, <1>6, <2>1, <3>1 DEF Accomplished
      <3>. QED
        BY <1>7, <2>1, <2>2, <3>2 DEF Accomplished
    <2>. QED
      BY <1>5, <1>7, <2>1, <2>2, CallInv
  <1>9. CASE CmdMkdir(p)
    <2>1. Inv' /\ command.name = "mkdir" /\ Mkdir(p, command.flag, command.flag)
      BY <1>1, <1>2, <1>9, MkdirInv DEF CmdMkdir
    <2>2. ASSUME res' = "ok"
          PROVE  Accomplished(more)'
      <3>1. IsDir(fs', p) /\ \A q \in Path : IsDir(fs, q) => IsDir(fs', q)
        BY <1>1, <1>2, <2>1, <2>2, MkdirMakes
      <3>2. \A i \in DOMAIN more : IsDir(fs', more[i])
        BY <1>3, <1>6, <2>1, <3>1 DEF Accomplished
      <3>. QED
        BY <1>7, <2>1, <2>2, <3>2 DEF Accomplished
    <2>. QED
      BY <1>5, <1>7, <2>1, <2>2, CallInv
  <1>10. CASE CmdRm(p)
    <2>1. Inv' /\ command.name = "rm" /\ Remove(p, command.flag)
      BY <1>1, <1>2, <1>10, RemoveInv DEF CmdRm
    <2>2. ASSUME res' = "ok"
          PROVE  Accomplished(more)'
      <3>1. ~Exists(fs', p) /\ \A q \in Path : ~Exists(fs, q) => ~Exists(fs', q)
        BY <1>1, <1>2, <2>1, <2>2, RemoveTakes
      <3>2. \A i \in DOMAIN more : ~Exists(fs', more[i])
        BY <1>3, <1>6, <2>1, <3>1 DEF Accomplished
      <3>. QED
        BY <1>7, <2>1, <2>2, <3>2 DEF Accomplished
    <2>. QED
      BY <1>5, <1>7, <2>1, <2>2, CallInv
  <1>11. CASE CmdWrite(p)
    <2>1. PICK a \in BOOLEAN : /\ command.name \in {"write", "append"}
                               /\ WriteFile(p, command.text, a, Unversioned)
      <3>1. (command.flag \/ command.name = "append") \in BOOLEAN
        BY <1>2
      <3>. QED
        BY <1>11, <3>1 DEF CmdWrite
    <2>2. Inv'
      BY <1>1, <1>2, <2>1, WriteFileInv
    <2>3. ASSUME res' = "ok"
          PROVE  Accomplished(more)'
      <3>1. Seqs!IsSuffix(command.text, fs'[p].content)
        BY <1>1, <1>2, <2>1, <2>3, WriteEndsWith
      <3>2. p = command.operands[1]
        BY <1>1, <1>5, <2>1 DEF Underway, Runnable
      <3>. QED
        BY <1>7, <2>1, <2>3, <3>1, <3>2 DEF Accomplished
    <2>. QED
      BY <1>5, <1>7, <2>2, <2>3, CallInv
  <1>. QED
    BY <1>p, <1>8, <1>9, <1>10, <1>11

\* cp and mv.
LEMMA ChangeTwoInv ==
    ASSUME ShellInv, phase = "run", Len(operands) = 2, NEW p \in Path, p = Head(operands),
           CmdCp(p, operands[2]) \/ CmdMv(p, operands[2]), AfterCall(2)
    PROVE  ShellInv'
  <1>1. Inv /\ ShellVariables /\ Underway /\ Runnable
    BY DEF ShellInv, Underway
  <1>2. /\ command.operands \in Seq(Path) /\ operands \in Seq(Path)
        /\ command.flag \in BOOLEAN
    BY <1>1, CommandFacts DEF ShellVariables
  <1>3. PICK dst \in Path : dst = operands[2]
    BY <1>2, ElementOfSeq
  <1>4. /\ command.name \in {"cp", "mv"}
        /\ CmdCp(p, dst) \/ CmdMv(p, dst)
    BY <1>3 DEF CmdCp, CmdMv
  <1>5. command.operands[1] = p /\ command.operands[2] = dst
    <2>1. Len(command.operands) = 2
      BY <1>1, <1>4 DEF Runnable
    <2>2. PICK done \in Seq(Path) : command.operands = done \o operands
      BY <1>1 DEF Underway
    <2>3. operands # << >>
      BY EmptySeq
    <2>4. operands = command.operands
      BY <1>2, <2>1, <2>2, <2>3, NextOperand
    <2>5. Head(operands) = operands[1]
      BY <1>2, <2>3, HeadTailProperties
    <2>. QED
      BY <1>3, <2>4, <2>5
  <1>6. /\ Inv'
        /\ res' = "ok" => \/ command.name = "cp" /\ Copied(p, dst)'
                          \/ command.name = "mv" /\ Moved(p, dst)'
    <2>1. CASE CmdCp(p, dst)
      BY <1>1, <1>2, <2>1, CopyInv, CopyArrives DEF CmdCp
    <2>2. CASE CmdMv(p, dst)
      BY <1>1, <2>2, MoveInv, MoveArrives DEF CmdMv
    <2>. QED
      BY <1>4, <2>1, <2>2
  <1>7. res' = "ok" => operands' = << >> /\ command' = command
    <2>1. SubSeq(operands, 3, Len(operands)) = << >>
      BY SubSeqEmpty
    <2>. QED
      BY <2>1 DEF AfterCall, Handled, command
  <1>8. res' = "ok" => Accomplished(command.operands)'
    BY <1>4, <1>5, <1>6, <1>7 DEF Accomplished
  <1>9. command.operands = command.operands \o << >> /\ << >> \in Seq(Path)
    BY <1>2, ConcatEmptySeq, EmptySeq
  <1>. QED
    BY <1>2, <1>6, <1>7, <1>8, <1>9, CallInv

LEMMA ChangeInv ==
    ASSUME ShellInv, Change
    PROVE  ShellInv'
  <1>1. phase = "run" /\ operands # << >> /\ operands \in Seq(Path)
    BY DEF Change, ShellInv, ShellVariables
  <1>2. PICK p \in Path : p = Head(operands)
    BY <1>1, HeadTailProperties
  <1>3. \/ (CmdTouch(p) \/ CmdMkdir(p) \/ CmdRm(p) \/ CmdWrite(p)) /\ AfterCall(1)
        \/ /\ Len(operands) = 2
           /\ CmdCp(p, operands[2]) \/ CmdMv(p, operands[2])
           /\ AfterCall(2)
    BY <1>2 DEF Change
  <1>. QED
    BY <1>1, <1>2, <1>3, ChangeOneInv, ChangeTwoInv

LEMMA NextCommandInv ==
    ASSUME ShellInv, phase \in {"run", "redirect"}, operands = << >>, Inv',
           NEW printed \in Seq(Data), NextCommand(printed)
    PROVE  ShellInv'
  <1>1. CASE End("ok")
    BY <1>1, EndStep
  <1>2. CASE /\ Len(line) > 1 /\ line' = Tail(line) /\ phase' = "start"
             /\ stdin' = << >> /\ stdout' = printed /\ UNCHANGED <<operands, ended>>
    <2>1. ShellVariables /\ line # << >>
      BY DEF ShellInv
    <2>2. Tail(line) \in Seq(Command) /\ Len(Tail(line)) = Len(line) - 1 /\ Len(line) \in Nat
      BY <2>1, HeadTailProperties, LenProperties DEF ShellVariables
    <2>3. Tail(line) # << >>
      <3>1. Len(line) - 1 # 0
        <4>1. PICK n \in Nat : n = Len(line)
          BY <2>2
        <4>2. n > 1
          BY <1>2, <4>1
        <4>. QED
          BY <4>1, <4>2
      <3>. QED
        BY <2>2, <3>1, EmptySeq
    <2>4. ShellVariables'
      BY <1>2, <2>1, <2>2, EmptySeq DEF ShellVariables
    <2>. QED
      BY <1>2, <2>3, <2>4 DEF ShellInv
  <1>. QED
    BY <1>1, <1>2 DEF NextCommand

LEMMA FinishInv ==
    ASSUME ShellInv, Finish
    PROVE  ShellInv'
  <1>1. /\ phase = "run" /\ operands = << >> /\ UNCHANGED vars
        /\ Inv /\ ShellVariables /\ line # << >> /\ Underway
    BY DEF Finish, ShellInv
  <1>2. Inv'
    BY <1>1, SameVars
  <1>3. CASE End("failed")
    BY <1>2, <1>3, EndStep
  <1>4. CASE NextCommand(stdout)
    BY <1>1, <1>2, <1>4, NextCommandInv DEF ShellVariables
  <1>5. CASE /\ command.stdout # NoFile /\ phase' = "redirect"
             /\ UNCHANGED <<line, operands, stdin, stdout, ended>>
    <2>1. command' = command
      BY <1>5 DEF command
    <2>2. ShellVariables'
      BY <1>1, <1>5 DEF ShellVariables
    <2>3. Underway'
      <3>1. PICK done \in Seq(Path) : command.operands = done \o operands /\ Accomplished(done)
        BY <1>1 DEF Underway
      <3>2. Accomplished(done)'
        BY <1>1, <1>5, <3>1, SameAccomplished DEF vars
      <3>. QED
        BY <1>1, <1>5, <2>1, <3>1, <3>2 DEF Underway, Runnable, Dispatched
    <2>. QED
      BY <1>1, <1>2, <1>5, <2>1, <2>2, <2>3 DEF ShellInv
  <1>. QED
    BY <1>3, <1>4, <1>5 DEF Finish

LEMMA RedirectInv ==
    ASSUME ShellInv, Redirect
    PROVE  ShellInv'
  <1>1. /\ phase = "redirect" /\ operands = << >> /\ command.stdout # NoFile
        /\ Inv /\ ShellVariables
    BY DEF Redirect, ShellInv
  <1>2. command.stdout \in Path /\ command.append \in BOOLEAN /\ stdout \in Seq(Data)
    BY <1>1, CommandFacts DEF ShellVariables
  <1>3. Inv'
    BY <1>1, <1>2, WriteFileInv DEF Redirect
  <1>4. CASE End("raised")
    BY <1>3, <1>4, EndStep
  <1>5. CASE NextCommand(<< >>)
    BY <1>1, <1>3, <1>5, NextCommandInv, EmptySeq
  <1>. QED
    BY <1>4, <1>5 DEF Redirect

LEMMA ExecInv ==
    ASSUME ShellInv, NEW l \in Lines, Exec(l)
    PROVE  ShellInv'
  <1>1. l \in Seq(Command) /\ l # << >>
    BY LineAssumption
  <1>2. Inv'
    BY SameVars DEF Exec, ShellInv
  <1>. QED
    BY <1>1, <1>2 DEF Exec, ShellInv, ShellVariables

\* While a line runs, the others change the adapters alone.
LEMMA OthersInv ==
    ASSUME ShellInv, HostStep \/ ClientStep
    PROVE  ShellInv'
  <1>1. Inv /\ ShellVariables /\ UNCHANGED shellVars
    BY DEF ShellInv, HostStep, ClientStep
  <1>2. command' = command /\ ShellVariables'
    BY <1>1 DEF command, shellVars, ShellVariables
  <1>3. CASE HostStep
    <2>1. Inv'
      <3>1. ASSUME NEW m \in MountPoints, MountStorage(m, FALSE)
            PROVE  Inv'
        BY <1>1, <3>1, MountStorageInv
      <3>2. ASSUME NEW grant \in Grants, SetPolicy(grant[1], grant[2])
            PROVE  Inv'
        <4>1. grant[1] \in Path /\ grant[2] \in Policy
          BY ConstantAssumption
        <4>. QED
          BY <1>1, <3>2, <4>1, SetPolicyInv
      <3>. QED
        BY <1>3, <3>1, <3>2 DEF HostStep
    <2>. QED
      BY <1>1, <1>2, <1>3, <2>1 DEF HostStep, ShellInv, shellVars
  <1>4. CASE ClientStep
    <2>1. PICK m \in MountPoints, p \in Path, d \in Text : ExternalWrite(m, p, d)
      BY <1>4 DEF ClientStep
    <2>2. Inv'
      BY <1>1, <2>1, NextInv DEF Next
    <2>3. fs' = fs
      BY <2>1 DEF ExternalWrite
    <2>4. Underway => Underway'
      <3>. SUFFICES ASSUME Underway
                    PROVE  Underway'
        OBVIOUS
      <3>1. PICK done \in Seq(Path) : command.operands = done \o operands /\ Accomplished(done)
        BY DEF Underway
      <3>2. Accomplished(done)'
        BY <1>1, <2>3, <3>1, SameAccomplished DEF shellVars
      <3>3. Runnable'
        BY <1>2 DEF Underway, Runnable, Dispatched
      <3>. QED
        BY <1>1, <1>2, <3>1, <3>2, <3>3 DEF Underway, shellVars
    <2>. QED
      BY <1>1, <1>2, <2>2, <2>4 DEF ShellInv, shellVars
  <1>. QED
    BY <1>3, <1>4

LEMMA ShellInitInv ==
    ShellInit => ShellInv
  <1>. SUFFICES ASSUME ShellInit
                PROVE  ShellInv
    OBVIOUS
  <1>1. << >> \in Seq(Command) /\ << >> \in Seq(Path) /\ << >> \in Seq(Data)
    BY EmptySeq
  <1>2. Inv
    BY InitInv DEF ShellInit
  <1>. QED
    BY <1>1, <1>2 DEF ShellInit, ShellInv, ShellVariables

LEMMA ShellNextInv ==
    ShellInv /\ [ShellNext]_allVars => ShellInv'
  <1>. SUFFICES ASSUME ShellInv, [ShellNext]_allVars
                PROVE  ShellInv'
    OBVIOUS
  <1>1. CASE UNCHANGED allVars
    <2>1. Inv'
      BY <1>1, SameVars DEF ShellInv, allVars
    <2>2. UNCHANGED shellVars /\ fs' = fs
      BY <1>1 DEF allVars, vars
    <2>3. command' = command /\ ShellVariables'
      BY <2>2 DEF command, shellVars, ShellInv, ShellVariables
    <2>4. Underway => Underway'
      <3>. SUFFICES ASSUME Underway
                    PROVE  Underway'
        OBVIOUS
      <3>1. PICK done \in Seq(Path) : command.operands = done \o operands /\ Accomplished(done)
        BY DEF Underway
      <3>2. Accomplished(done)'
        BY <2>2, <3>1, SameAccomplished DEF shellVars
      <3>3. Runnable'
        BY <2>3 DEF Underway, Runnable, Dispatched
      <3>. QED
        BY <2>2, <2>3, <3>1, <3>2, <3>3 DEF Underway, shellVars
    <2>. QED
      BY <2>1, <2>2, <2>3, <2>4 DEF ShellInv, shellVars
  <1>2. CASE ShellStep
    BY <1>2, StartInv, ChangeInv, ReadInv, FinishInv, RedirectInv DEF ShellStep
  <1>3. CASE HostStep \/ ClientStep
    BY <1>3, OthersInv
  <1>4. ASSUME NEW l \in Lines, Exec(l)
        PROVE  ShellInv'
    BY <1>4, ExecInv
  <1>. QED
    BY <1>1, <1>2, <1>3, <1>4 DEF ShellNext

LEMMA ShellInvAlways ==
    ShellSpec => []ShellInv
  BY ShellInitInv, ShellNextInv, PTL DEF ShellSpec

-----------------------------------------------------------------------------
(* What is proved. *)

\* Whatever commands a line is made of and wherever it stops, the shell and the
\* file system below it keep their types: head and tail cut a text, whatever
\* number they are given, and every path that is opened has its place.
THEOREM ShellTypes ==
    ShellSpec => []ShellTypeOK
  <1>1. ShellInv => ShellTypeOK
    BY DEF ShellInv, ShellVariables, Inv, ShellTypeOK
  <1>. QED
    BY <1>1, ShellInvAlways, PTL

\* A command that is done without a failure has done what it says for every one
\* of its operands, however many lines, operands and other clients there are.
THEOREM CommandsDoWhatTheySay ==
    ShellSpec => []CommandsKeepTheirWord
  <1>1. ShellInv => CommandsKeepTheirWord
    <2>. SUFFICES ASSUME ShellInv, phase = "run", operands = << >>
                  PROVE  CommandsKeepTheirWord
      BY DEF CommandsKeepTheirWord
    <2>1. Inv /\ Underway /\ command.operands \in Seq(Path) /\ command.count \in Int
      BY CommandFacts DEF ShellInv
    <2>2. PICK done \in Seq(Path) : command.operands = done \o operands /\ Accomplished(done)
      BY <2>1 DEF Underway
    <2>3. command.operands = done
      BY <2>2, ConcatEmptySeq
    <2>4. PICK named : named = Seqs!ToSet(command.operands)
      OBVIOUS
    <2>5. /\ named = {done[i] : i \in DOMAIN done} /\ named \subseteq Path
          /\ named # {} => done # << >>
      BY <2>3, <2>4, ElementOfSeq, LenProperties, EmptySeq DEF Seqs!ToSet
    <2>6. command.name = "touch" => named \subseteq Files(fs)
      BY <2>2, <2>5 DEF Accomplished, Files, IsFile
    <2>7. command.name = "mkdir" => \A p \in named : IsDir(fs, p)
      BY <2>2, <2>5 DEF Accomplished
    <2>8. command.name = "rm" => \A p \in named : ~Exists(fs, p)
      BY <2>2, <2>5 DEF Accomplished
    <2>9. /\ command.name \in {"cp", "mv"} => done # << >>
          /\ command.name \in {"write", "append"} => done # << >>
          /\ Len(command.operands) = 1 => done # << >>
      <3>1. Len(<< >>) = 0
        BY EmptySeq
      <3>2. /\ command.name \in {"cp", "mv"} => Len(command.operands) = 2
            /\ command.name \in {"write", "append"} => Len(command.operands) = 1
        BY <2>1 DEF Underway, Runnable
      <3>. QED
        BY <2>3, <3>1, <3>2
    <2>10. /\ command.name = "cp" => Copied(command.operands[1], command.operands[2])
           /\ command.name = "mv" => Moved(command.operands[1], command.operands[2])
      BY <2>2, <2>9 DEF Accomplished
    <2>11. command.name \in {"write", "append"} =>
             Seqs!IsSuffix(command.text, fs[command.operands[1]].content)
      BY <2>2, <2>9 DEF Accomplished
    <2>12. command.name = "cat" /\ named # {} => stdout = TextsOf(command.operands)
      BY <2>2, <2>3, <2>5 DEF Accomplished
    <2>13. ASSUME command.name \in {"head", "tail"}, Len(command.operands) = 1,
                  NEW all, all = fs[command.operands[1]].content
           PROVE  /\ command.name = "head" => Seqs!IsPrefix(stdout, all)
                  /\ command.name = "tail" => Seqs!IsSuffix(stdout, all)
                  /\ command.count > 0 /\ command.count <= Len(all) =>
                       Len(stdout) = command.count
      <3>1. stdout = Shown(all)
        BY <2>2, <2>9, <2>13 DEF Accomplished
      <3>2. all \in Seq(Data)
        <4>1. 1 \in 1..Len(command.operands)
          BY <2>13
        <4>2. command.operands[1] \in Path
          BY <2>1, <4>1, ElementOfSeq
        <4>. QED
          BY <2>1, <2>13, <4>2, TextTypes
      <3>3. \/ command.name = "head" /\ stdout = FirstLines(all, command.count)
            \/ command.name = "tail" /\ stdout = LastLines(all, command.count)
        BY <2>13, <3>1 DEF Shown
      <3>. QED
        BY <2>1, <3>2, <3>3, ShownFacts
    <2>. QED
      BY <2>4, <2>6, <2>7, <2>8, <2>10, <2>11, <2>12, <2>13 DEF CommandsKeepTheirWord
  <1>. QED
    BY <1>1, ShellInvAlways, PTL

\* A command that reads leaves the tree alone until its output is opened, and a
\* file that cat prints into itself keeps its text.
THEOREM SourcesAreKept ==
    ShellSpec => ReadersKeepTheirSources
  <1>. DEFINE Kept ==
         phase # "idle" /\ command.name \in Readers \cup {"echo"} =>
           \A p \in Files(fs) :
              \/ fs'[p] = fs[p]
              \/ /\ p = command.stdout
                 /\ phase = "redirect"
                 /\ ~command.append /\ command.name = "cat" /\ command.operands = <<p>> =>
                        fs'[p].content = fs[p].content
  <1>1. ASSUME ShellInv, [ShellNext]_allVars
        PROVE  Kept
    <2>1. CASE fs' = fs
      BY <2>1
    <2>2. ASSUME Redirect, NEW p \in Files(fs)
          PROVE  \/ fs'[p] = fs[p]
                 \/ /\ p = command.stdout
                    /\ phase = "redirect"
                    /\ ~command.append /\ command.name = "cat" /\ command.operands = <<p>> =>
                           fs'[p].content = fs[p].content
      <3>1. /\ phase = "redirect" /\ operands = << >> /\ command.stdout # NoFile
            /\ Inv /\ ShellVariables /\ Underway
        BY <1>1, <2>2 DEF Redirect, ShellInv
      <3>2. /\ command.stdout \in Path /\ command.append \in BOOLEAN /\ stdout \in Seq(Data)
            /\ command.operands \in Seq(Path)
        BY <1>1, <3>1, CommandFacts DEF ShellVariables
      <3>3. \/ fs'[p] = fs[p]
            \/ p = command.stdout /\ (~command.append => fs'[p].content = stdout)
        BY <2>2, <3>1, <3>2, WriteSpares DEF Redirect
      <3>4. ASSUME command.name = "cat", command.operands = <<p>>
            PROVE  stdout = fs[p].content
        <4>1. PICK done \in Seq(Path) : command.operands = done \o operands /\ Accomplished(done)
          BY <3>1 DEF Underway
        <4>2. done = <<p>>
          BY <3>1, <3>4, <4>1, ConcatEmptySeq
        <4>3. p \in Path /\ <<p>> # << >> /\ <<p>> = Append(<< >>, p)
          BY DEF Files
        <4>4. stdout = TextsOf(<<p>>)
          BY <3>4, <4>1, <4>2, <4>3 DEF Accomplished
        <4>5. TextsOf(<<p>>) = << >> \o fs[p].content
          <5>1. fs \in Tree /\ << >> \in Seq(Path)
            BY <3>1, EmptySeq DEF Inv, TypeOK
          <5>. QED
            BY <4>3, <5>1, TextsStep
        <4>. QED
          BY <3>1, <4>3, <4>4, <4>5, TextTypes, ConcatEmptySeq
      <3>. QED
        BY <3>1, <3>3, <3>4
    <2>3. CASE Redirect
      BY <2>2, <2>3
    <2>4. CASE Start \/ Read \/ Finish \/ ClientStep \/ (\E l \in Lines : Exec(l))
      <3>1. fs' = fs
        BY <2>4 DEF Start, Read, Finish, ClientStep, Exec, ExternalWrite, vars
      <3>. QED
        BY <2>1, <3>1
    <2>5. CASE Change
      BY <2>5 DEF Change, CmdTouch, CmdMkdir, CmdRm, CmdWrite, CmdCp, CmdMv, Readers
    <2>6. CASE HostStep
      BY <2>6 DEF HostStep
    <2>7. CASE UNCHANGED allVars
      BY <2>1, <2>7 DEF allVars, vars
    <2>. QED
      BY <1>1, <2>3, <2>4, <2>5, <2>6, <2>7 DEF ShellNext, ShellStep
  <1>. QED
    BY <1>1, ShellInvAlways, PTL DEF ReadersKeepTheirSources, ShellSpec
=============================================================================
