-------------------------- MODULE SearchView_proofs --------------------------
(***************************************************************************)
(* The search view answers the query of its context, for every set of      *)
(* files, providers and queries.                                           *)
(***************************************************************************)
EXTENDS SearchView, SequenceTheorems, WellFoundedInduction, TLAPS

-----------------------------------------------------------------------------
(* The invariant. *)

\* q is the query of the last search among the first k calls of s, or none when
\* there is no search among them.
ContextOf(s, k, q) ==
    \/ q = NoQuery /\ \A j \in 1..k : s[j].op # "search"
    \/ \E j \in 1..k :
         /\ s[j].op = "search" /\ q = s[j].query
         /\ \A l \in (j + 1)..k : s[l].op # "search"

\* The context is that of the calls, and each search remembers the one before.
Nested(s, q) ==
    /\ ContextOf(s, Len(s), q)
    /\ \A i \in DOMAIN s : s[i].op = "search" => ContextOf(s, i - 1, s[i].previous)

\* No child of the view stands for a child of the view.
Flat(results) == \A f \in File : ~results[<<"view", f>>].present

FlatEverywhere ==
    /\ Flat(view) /\ Flat(snap.view)
    /\ \A i \in DOMAIN calls : Flat(calls[i].found)

\* The index has the texts of the files that no provider answers for.
IndexAgrees == indexOn => \A f \in File \ live : index[<<"file", f>>] = text[f]

\* Without its loader the view counts as loaded and no load is under way.
LoaderGone == ~loader => loaded /\ \A i \in DOMAIN calls : calls[i].op # "load"

SearchesWait == \A i \in DOMAIN calls : calls[i].op = "search" => calls[i].running = {}

Seen(f) == IF indexOn THEN index[<<"file", f>>] ELSE text[f]
Answer(q, f) == IF loader THEN Found(q, Seen(f)) ELSE NoChild

\* The load c is for the query q, and what it has found so far is right.
RightSoFar(q, c) ==
    /\ c.op = "load" /\ c.query = q
    /\ c.running \subseteq live /\ (\E g : c.running \subseteq {g})
    /\ indexOn => c.todo = {} /\ c.running = {}
    /\ \A f \in File : f \notin c.todo /\ f \notin c.running =>
         c.found[<<"file", f>>] = Found(q, Seen(f))

\* While nothing disturbs the search at i, only loads for its query run above
\* it, the view has only right results, and all of them when the loads are done.
CalmSearch(i) ==
    /\ \A j \in DOMAIN calls : j > i => RightSoFar(calls[i].query, calls[j])
    /\ \A f \in File : view[<<"file", f>>] \in {NoChild, Answer(calls[i].query, f)}
    /\ i = Len(calls) => \A f \in File : view[<<"file", f>>] = Answer(calls[i].query, f)

CalmSearches ==
    \A i \in DOMAIN calls : calls[i].op = "search" /\ calls[i].calm => CalmSearch(i)

SearchInv ==
    /\ SearchTypeOK /\ Nested(calls, context)
    /\ FlatEverywhere /\ SearchesWait
    /\ IndexAgrees /\ LoaderGone
    /\ CalmSearches

-----------------------------------------------------------------------------
(* Least and greatest numbers. *)

\* A nonempty set of numbers has a least element, which is what Min gives.
LEMMA LeastNumber ==
    ASSUME NEW S \in SUBSET Nat, S # {}
    PROVE  Sets!Min(S) \in S /\ \A y \in S : Sets!Min(S) <= y
  <1>. DEFINE R == OpToRel(<, Nat)
  <1>1. ASSUME NEW x \in Nat, NEW y \in Nat, x < y
        PROVE  <<x, y>> \in R
    BY <1>1 DEF OpToRel
  <1>2. IsWellFoundedOn(R, Nat)
    BY NatLessThanWellFounded
  <1>. HIDE DEF R
  <1>3. PICK x \in S : \A y \in S : ~(<<y, x>> \in R)
    BY <1>2, WFMin
  <1>4. ASSUME NEW y \in S
        PROVE  x <= y
    <2>1. x \in Nat /\ y \in Nat
      OBVIOUS
    <2>2. ~(y < x)
      BY <1>1, <1>3, <2>1
    <2>. QED
      BY <2>1, <2>2
  <1>. QED
    BY <1>4 DEF Sets!Min

\* A nonempty set of numbers up to n has a greatest element, which is what Max
\* gives.
LEMMA GreatestNumber ==
    ASSUME NEW n \in Nat, NEW S \in SUBSET (0..n), S # {}
    PROVE  Sets!Max(S) \in S /\ \A y \in S : Sets!Max(S) >= y
  <1>. DEFINE T == {d \in Nat : \E y \in S : d = n - y}
  <1>1. T \in SUBSET Nat /\ T # {}
    <2>1. PICK y \in S : TRUE
      OBVIOUS
    <2>2. n - y \in T
      BY <2>1
    <2>. QED
      BY <2>2
  <1>. HIDE DEF T
  <1>2. Sets!Min(T) \in T /\ \A y \in T : Sets!Min(T) <= y
    BY <1>1, LeastNumber
  <1>3. PICK x \in S : Sets!Min(T) = n - x
    BY <1>2 DEF T
  <1>4. ASSUME NEW y \in S
        PROVE  x >= y
    <2>1. n - x <= n - y
      BY <1>2, <1>3 DEF T
    <2>. QED
      BY <2>1
  <1>. QED
    BY <1>4 DEF Sets!Max

\* Max is determined by its property.
LEMMA MaxIs ==
    ASSUME NEW n \in Nat, NEW S \in SUBSET (0..n), NEW m \in S, \A y \in S : y <= m
    PROVE  Sets!Max(S) = m
  <1>1. Sets!Max(S) \in S /\ Sets!Max(S) >= m
    BY GreatestNumber
  <1>2. Sets!Max(S) <= m
    BY <1>1
  <1>3. S \subseteq Nat
    OBVIOUS
  <1>4. Sets!Max(S) \in Nat
    BY <1>1, <1>3
  <1>5. m \in Nat
    BY <1>3
  <1>. QED
    BY <1>1, <1>2, <1>4, <1>5

-----------------------------------------------------------------------------
(* Calls and stacks of calls. *)

LEMMA NoChildFacts ==
    NoChild \in Child /\ ~NoChild.present
  BY SearchAssumption DEF NoChild, Child

LEMMA FoundFacts ==
    ASSUME NEW q \in Query \cup {NoQuery}, NEW t \in Text
    PROVE  /\ Found(q, t) \in Child
           /\ Found(q, t) # NoChild => Found(q, t).present
           /\ q = NoQuery => Found(q, t) = NoChild
  BY NoChildFacts, SearchAssumption DEF Found, Child

LEMMA NoResultsFit ==
    NoResults \in [Place -> Child] /\ Flat(NoResults)
  BY NoChildFacts DEF NoResults, Flat, Place

LEMMA SearchCallFacts ==
    ASSUME NEW q \in Query \cup {NoQuery}, NEW p \in Query \cup {NoQuery}
    PROVE  /\ SearchCall(q, p) \in Call
           /\ SearchCall(q, p).op = "search"
           /\ SearchCall(q, p).query = q /\ SearchCall(q, p).previous = p
           /\ SearchCall(q, p).running = {} /\ Flat(SearchCall(q, p).found)
  <1>1. NoResults \in [Place -> Child] /\ Flat(NoResults)
    BY NoResultsFit
  <1>. QED
    BY <1>1 DEF SearchCall, Call

LEMMA LoadCallFacts ==
    ASSUME NEW q \in Query \cup {NoQuery}, SearchTypeOK
    PROVE  /\ LoadCall(q) \in Call
           /\ LoadCall(q).op = "load" /\ LoadCall(q).query = q
           /\ LoadCall(q).running = {} /\ Flat(LoadCall(q).found)
           /\ RightSoFar(q, LoadCall(q))
  <1>1. NoResults \in [Place -> Child] /\ Flat(NoResults)
    BY NoResultsFit
  <1>2. Indexed(q) \in [Place -> Child] /\ Flat(Indexed(q))
    <2>1. \A e \in Place : index[e] \in Text
      BY SearchTypeOK DEF SearchTypeOK
    <2>2. \A e \in Place : Found(q, index[e]) \in Child
      BY <2>1, FoundFacts
    <2>. QED
      BY <2>2, NoChildFacts DEF Indexed, Flat, Place, Outside
  <1>3. indexOn => \A f \in File : Indexed(q)[<<"file", f>>] = Found(q, index[<<"file", f>>])
    BY DEF Indexed, Place, Outside
  <1>4. q = NoQuery => \A f \in File : NoResults[<<"file", f>>] = Found(q, Seen(f))
    <2>1. \A f \in File : Seen(f) \in Text
      BY SearchTypeOK DEF SearchTypeOK, Seen, Place
    <2>. QED
      BY <2>1, FoundFacts DEF NoResults, Place
  <1>5. LoadCall(q).found \in {NoResults, Indexed(q)}
    BY DEF LoadCall
  <1>6. /\ LoadCall(q).op = "load" /\ LoadCall(q).query = q
        /\ LoadCall(q).running = {} /\ LoadCall(q).todo \in {{}, File}
        /\ indexOn => LoadCall(q).todo = {}
        /\ indexOn /\ q # NoQuery => LoadCall(q).found = Indexed(q)
        /\ q = NoQuery => LoadCall(q).found = NoResults
        /\ LoadCall(q).todo = File \/ indexOn \/ q = NoQuery
    BY DEF LoadCall
  <1>7. LoadCall(q) \in Call
    BY <1>1, <1>2 DEF LoadCall, Call
  <1>8. RightSoFar(q, LoadCall(q))
    BY <1>3, <1>4, <1>6 DEF RightSoFar, Seen
  <1>. QED
    BY <1>1, <1>2, <1>5, <1>6, <1>7, <1>8

\* Asking a provider, and having an answer, change the progress of a load and
\* nothing else about it.
LEMMA AskingFacts ==
    ASSUME NEW c \in Call, NEW f \in File
    PROVE  /\ Asking(c, f) \in Call
           /\ Asking(c, f).op = c.op /\ Asking(c, f).query = c.query
           /\ Asking(c, f).previous = c.previous /\ Asking(c, f).calm = c.calm
           /\ Asking(c, f).todo = c.todo \ {f} /\ Asking(c, f).running = {f}
           /\ Asking(c, f).found = c.found
  BY DEF Asking, Call

LEMMA AnsweredSame ==
    ASSUME NEW c \in Call, NEW f \in File, NEW t \in Text
    PROVE  /\ Answered(c, f, t) \in Call
           /\ Answered(c, f, t).op = c.op /\ Answered(c, f, t).query = c.query
           /\ Answered(c, f, t).previous = c.previous
           /\ Answered(c, f, t).calm = c.calm
  <1>1. /\ Answered(c, f, t).op = c.op /\ Answered(c, f, t).query = c.query
        /\ Answered(c, f, t).previous = c.previous /\ Answered(c, f, t).calm = c.calm
    BY DEF Answered, Call
  <1>3. c.query \in Query \cup {NoQuery}
    BY DEF Call
  <1>4. Found(c.query, t) \in Child
    BY <1>3, FoundFacts
  <1>5. ASSUME NEW d \in Call, NEW S \in SUBSET File, NEW r \in [Place -> Child]
        PROVE  /\ [d EXCEPT !.todo = S] \in Call /\ [d EXCEPT !.running = S] \in Call
               /\ [d EXCEPT !.found = r] \in Call
               /\ d.found \in [Place -> Child] /\ d.todo \in SUBSET File
    BY DEF Call
  <1>6. Answered(c, f, t) \in Call
    <2>. DEFINE C1 == [c EXCEPT !.todo = c.todo \ {f}]
                C2 == [C1 EXCEPT !.running = {}]
                C3 == [C2 EXCEPT !.found = [C2.found EXCEPT ![<<"file", f>>] = Found(c.query, t)]]
    <2>1. Answered(c, f, t) = C3
      BY DEF Answered
    <2>2. C1 \in Call
      <3>1. c.todo \ {f} \in SUBSET File
        BY <1>5, NoResultsFit
      <3>. QED
        BY <1>5, <3>1, NoResultsFit
    <2>. HIDE DEF C1
    <2>3. C2 \in Call
      BY <1>5, <2>2, NoResultsFit
    <2>. HIDE DEF C2
    <2>4. [C2.found EXCEPT ![<<"file", f>>] = Found(c.query, t)] \in [Place -> Child]
      BY <1>4, <1>5, <2>3, NoResultsFit
    <2>5. C3 \in Call
      BY <1>5, <2>3, <2>4
    <2>. QED
      BY <2>1, <2>5
  <1>. QED
    BY <1>1, <1>6

LEMMA AnsweredFacts ==
    ASSUME NEW c \in Call, NEW f \in File, NEW t \in Text
    PROVE  /\ Answered(c, f, t).todo = c.todo \ {f} /\ Answered(c, f, t).running = {}
           /\ Answered(c, f, t).found
                = [c.found EXCEPT ![<<"file", f>>] = Found(c.query, t)]
  BY DEF Answered, Call

\* The calls below the top.
LEMMA FrontFacts ==
    ASSUME NEW s \in Seq(Call), s # << >>
    PROVE  /\ Len(s) \in Nat \ {0}
           /\ Seqs!Last(s) = s[Len(s)] /\ s[Len(s)] \in Call
           /\ Seqs!Front(s) = SubSeq(s, 1, Len(s) - 1)
  BY DEF Seqs!Last, Seqs!Front

LEMMA CutFacts ==
    ASSUME NEW s \in Seq(Call), NEW k \in 0..Len(s)
    PROVE  /\ SubSeq(s, 1, k) \in Seq(Call)
           /\ Len(SubSeq(s, 1, k)) = k
           /\ \A i \in 1..k : SubSeq(s, 1, k)[i] = s[i]
  BY SubSeqProperties

\* The stack with another call at its top.
LEMMA SetTopFacts ==
    ASSUME calls \in Seq(Call), calls # << >>, NEW c \in Call
    PROVE  /\ SetTop(c) \in Seq(Call) /\ Len(SetTop(c)) = Len(calls)
           /\ SetTop(c)[Len(calls)] = c
           /\ \A i \in 1..(Len(calls) - 1) : SetTop(c)[i] = calls[i]
  BY DEF SetTop

LEMMA DisturbedFacts ==
    ASSUME NEW s \in Seq(Call)
    PROVE  /\ Disturbed(s) \in Seq(Call) /\ Len(Disturbed(s)) = Len(s)
           /\ \A i \in 1..Len(s) :
                /\ Disturbed(s)[i].op = s[i].op
                /\ Disturbed(s)[i].query = s[i].query
                /\ Disturbed(s)[i].previous = s[i].previous
                /\ Disturbed(s)[i].found = s[i].found
                /\ Disturbed(s)[i].running = s[i].running
                /\ Disturbed(s)[i].calm = FALSE
  <1>1. \A c \in Call : [c EXCEPT !.calm = FALSE] \in Call
    BY DEF Call
  <1>2. \A i \in 1..Len(s) : Disturbed(s)[i] = [s[i] EXCEPT !.calm = FALSE]
    <2>1. DOMAIN s = 1..Len(s)
      OBVIOUS
    <2>. QED
      BY <2>1 DEF Disturbed
  <1>3. ASSUME NEW c \in Call, NEW d, d = [c EXCEPT !.calm = FALSE]
        PROVE  /\ d.op = c.op /\ d.query = c.query
               /\ d.previous = c.previous /\ d.found = c.found
               /\ d.running = c.running /\ d.calm = FALSE
    BY <1>3 DEF Call
  <1>4. Disturbed(s) \in Seq(Call) /\ Len(Disturbed(s)) = Len(s)
    <2>1. Disturbed(s) \in [1..Len(s) -> Call]
      BY <1>1 DEF Disturbed
    <2>. QED
      BY <2>1
  <1>5. \A i \in 1..Len(s) : s[i] \in Call
    OBVIOUS
  <1>. QED
    <2>1. ASSUME NEW i \in 1..Len(s)
          PROVE  /\ Disturbed(s)[i].op = s[i].op
                 /\ Disturbed(s)[i].query = s[i].query
                 /\ Disturbed(s)[i].previous = s[i].previous
                 /\ Disturbed(s)[i].found = s[i].found
                 /\ Disturbed(s)[i].running = s[i].running
                 /\ Disturbed(s)[i].calm = FALSE
      <3>1. s[i] \in Call /\ Disturbed(s)[i] = [s[i] EXCEPT !.calm = FALSE]
        BY <1>2, <1>5
      <3>. QED
        BY <1>3, <3>1
    <2>. QED
      BY <1>4, <2>1

\* An exception ends all calls above the last provider that runs below the top.
LEMMA UnwoundFacts ==
    ASSUME NEW s \in Seq(Call)
    PROVE  \E k \in 0..Len(s) :
             /\ Unwound(s) = SubSeq(s, 1, k)
             /\ k > 0 => s[k].running # {}
  <1>. DEFINE S == {0} \cup {i \in DOMAIN s : s[i].running # {}}
  <1>1. Len(s) \in Nat /\ DOMAIN s = 1..Len(s)
    OBVIOUS
  <1>2. S \in SUBSET (0..Len(s)) /\ S # {}
    BY <1>1
  <1>3. Sets!Max(S) \in S
    BY <1>1, <1>2, GreatestNumber
  <1>4. Sets!Max(S) \in 0..Len(s)
    BY <1>2, <1>3
  <1>5. Sets!Max(S) > 0 => s[Sets!Max(S)].running # {}
    <2>1. \A k \in S : k > 0 => s[k].running # {}
      OBVIOUS
    <2>. HIDE DEF S
    <2>. QED
      BY <1>3, <2>1
  <1>6. Unwound(s) = SubSeq(s, 1, Sets!Max(S))
    BY DEF Unwound
  <1>. QED
    BY <1>4, <1>5, <1>6

-----------------------------------------------------------------------------
(* The context. *)

\* What the first n calls of t are for is what those of s are for.
SameCalls(s, t, n) ==
    \A i \in 1..n : /\ t[i].op = s[i].op /\ t[i].query = s[i].query
                    /\ t[i].previous = s[i].previous

LEMMA ContextOfSame ==
    ASSUME NEW s, NEW t, NEW n \in Nat, SameCalls(s, t, n),
           NEW k \in 0..n, NEW q, ContextOf(s, k, q)
    PROVE  ContextOf(t, k, q)
  <1>1. \A i \in 1..k : t[i].op = s[i].op /\ t[i].query = s[i].query
    BY DEF SameCalls
  <1>2. CASE q = NoQuery /\ \A j \in 1..k : s[j].op # "search"
    BY <1>1, <1>2 DEF ContextOf
  <1>3. ASSUME NEW j \in 1..k, s[j].op = "search", q = s[j].query,
               \A l \in (j + 1)..k : s[l].op # "search"
        PROVE  ContextOf(t, k, q)
    <2>1. \A l \in (j + 1)..k : l \in 1..k
      OBVIOUS
    <2>2. \A l \in (j + 1)..k : t[l].op # "search"
      BY <1>1, <1>3, <2>1
    <2>3. t[j].op = "search" /\ q = t[j].query
      BY <1>1, <1>3
    <2>. QED
      BY <2>2, <2>3 DEF ContextOf
  <1>. QED
    BY <1>2, <1>3 DEF ContextOf

LEMMA NestedSame ==
    ASSUME NEW s \in Seq(Call), NEW t \in Seq(Call), Len(t) = Len(s),
           SameCalls(s, t, Len(s)), NEW q, Nested(s, q)
    PROVE  Nested(t, q)
  <1>1. Len(s) \in Nat /\ DOMAIN s = 1..Len(s) /\ DOMAIN t = 1..Len(s)
    OBVIOUS
  <1>2. ContextOf(t, Len(t), q)
    BY <1>1, ContextOfSame DEF Nested
  <1>3. ASSUME NEW i \in 1..Len(s), t[i].op = "search"
        PROVE  ContextOf(t, i - 1, t[i].previous)
    <2>1. s[i].op = "search" /\ t[i].previous = s[i].previous
      BY <1>3 DEF SameCalls
    <2>2. ContextOf(s, i - 1, s[i].previous)
      BY <1>1, <2>1 DEF Nested
    <2>3. i - 1 \in 0..Len(s)
      BY <1>1
    <2>. QED
      BY <1>1, <2>1, <2>2, <2>3, ContextOfSame
  <1>. QED
    BY <1>1, <1>2, <1>3 DEF Nested

\* A load does not change the context, and a search remembers it.
LEMMA NestedPush ==
    ASSUME NEW s \in Seq(Call), NEW c \in Call, NEW q, Nested(s, q),
           c.op = "search" => c.previous = q
    PROVE  Nested(Append(s, c), IF c.op = "search" THEN c.query ELSE q)
  <1>. DEFINE t == Append(s, c)
              n == Len(s)
              new == IF c.op = "search" THEN c.query ELSE q
  <1>1. n \in Nat /\ DOMAIN s = 1..n
    OBVIOUS
  <1>2. /\ t \in Seq(Call) /\ Len(t) = n + 1 /\ t[n + 1] = c /\ DOMAIN t = 1..(n + 1)
        /\ \A i \in 1..n : t[i] = s[i]
    OBVIOUS
  <1>3. SameCalls(s, t, n)
    BY <1>2 DEF SameCalls
  <1>. HIDE DEF t
  <1>4. ContextOf(t, n, q)
    BY <1>1, <1>3, ContextOfSame DEF Nested
  <1>5. ContextOf(t, n + 1, new)
    <2>1. CASE c.op = "search"
      BY <1>1, <1>2, <2>1 DEF ContextOf
    <2>2. CASE c.op # "search"
      <3>1. CASE q = NoQuery /\ \A j \in 1..n : t[j].op # "search"
        BY <1>1, <1>2, <2>2, <3>1 DEF ContextOf
      <3>2. ASSUME NEW j \in 1..n, t[j].op = "search", q = t[j].query,
                   \A l \in (j + 1)..n : t[l].op # "search"
            PROVE  ContextOf(t, n + 1, q)
        <4>1. \A l \in (j + 1)..(n + 1) : t[l].op # "search"
          BY <1>1, <1>2, <2>2, <3>2
        <4>2. j \in 1..(n + 1)
          BY <1>1
        <4>. QED
          BY <3>2, <4>1, <4>2 DEF ContextOf
      <3>. QED
        BY <1>4, <2>2, <3>1, <3>2 DEF ContextOf
    <2>. QED
      BY <2>1, <2>2
  <1>6. ASSUME NEW i \in 1..(n + 1), t[i].op = "search"
        PROVE  ContextOf(t, i - 1, t[i].previous)
    <2>1. CASE i = n + 1
      BY <1>1, <1>2, <1>4, <1>6, <2>1
    <2>2. CASE i # n + 1
      <3>1. i \in 1..n /\ i - 1 \in 0..n
        BY <1>1, <2>2
      <3>2. ContextOf(s, i - 1, s[i].previous)
        BY <1>1, <1>2, <1>6, <3>1 DEF Nested
      <3>. QED
        BY <1>1, <1>2, <1>3, <3>1, <3>2, ContextOfSame
    <2>. QED
      BY <2>1, <2>2
  <1>7. Nested(t, new)
    BY <1>2, <1>5, <1>6 DEF Nested
  <1>. QED
    BY <1>7 DEF t

\* When no search is above the first k calls, the context is theirs.
LEMMA ContextOfLower ==
    ASSUME NEW s, NEW n \in Nat, NEW k \in 0..n, NEW q, ContextOf(s, n, q),
           \A i \in (k + 1)..n : s[i].op # "search"
    PROVE  ContextOf(s, k, q)
  <1>1. CASE q = NoQuery /\ \A j \in 1..n : s[j].op # "search"
    BY <1>1 DEF ContextOf
  <1>2. ASSUME NEW j \in 1..n, s[j].op = "search", q = s[j].query,
               \A l \in (j + 1)..n : s[l].op # "search"
        PROVE  ContextOf(s, k, q)
    <2>1. j \in 1..k
      BY <1>2
    <2>2. \A l \in (j + 1)..k : s[l].op # "search"
      BY <1>2
    <2>. QED
      BY <1>2, <2>1, <2>2 DEF ContextOf
  <1>. QED
    BY <1>1, <1>2 DEF ContextOf

\* When calls end, the context that was there before them must be back.
LEMMA NestedBelow ==
    ASSUME NEW s \in Seq(Call), NEW k \in 0..Len(s), NEW q, NEW new,
           Nested(s, q), ContextOf(s, k, new)
    PROVE  Nested(SubSeq(s, 1, k), new)
  <1>. DEFINE t == SubSeq(s, 1, k)
  <1>1. Len(s) \in Nat /\ DOMAIN s = 1..Len(s) /\ k \in Nat
    OBVIOUS
  <1>2. t \in Seq(Call) /\ Len(t) = k /\ \A i \in 1..k : t[i] = s[i]
    BY CutFacts
  <1>3. SameCalls(s, t, k) /\ DOMAIN t = 1..k
    BY <1>1, <1>2 DEF SameCalls
  <1>. HIDE DEF t
  <1>4. ContextOf(t, k, new)
    BY <1>1, <1>3, ContextOfSame
  <1>5. ASSUME NEW i \in 1..k, t[i].op = "search"
        PROVE  ContextOf(t, i - 1, t[i].previous)
    <2>1. i - 1 \in 0..k /\ i \in 1..Len(s)
      BY <1>1
    <2>2. ContextOf(s, i - 1, s[i].previous)
      BY <1>1, <1>2, <1>5, <2>1 DEF Nested
    <2>. QED
      BY <1>1, <1>2, <1>3, <2>1, <2>2, ContextOfSame
  <1>6. Nested(t, new)
    BY <1>2, <1>3, <1>4, <1>5 DEF Nested
  <1>. QED
    BY <1>6 DEF t

\* However many calls end, what search_view_context put back is the context of
\* those that are left.
LEMMA NestedCut ==
    ASSUME NEW s \in Seq(Call), NEW k \in 0..Len(s), Nested(s, context)
    PROVE  Nested(SubSeq(s, 1, k), ContextAfter(s, SubSeq(s, 1, k)))
  <1>. DEFINE t == SubSeq(s, 1, k)
              new == ContextAfter(s, t)
              left == {i \in DOMAIN s : i > Len(t) /\ s[i].op = "search"}
  <1>1. Len(s) \in Nat /\ DOMAIN s = 1..Len(s) /\ k \in Nat
    OBVIOUS
  <1>2. Len(t) = k
    BY CutFacts
  <1>3. new = IF left = {} THEN context ELSE s[Sets!Min(left)].previous
    BY DEF ContextAfter
  <1>. HIDE DEF t, new
  <1>4. ContextOf(s, k, new)
    <2>1. CASE left = {}
      <3>1. \A i \in (k + 1)..Len(s) : s[i].op # "search"
        BY <1>1, <1>2, <2>1
      <3>. QED
        BY <1>1, <1>3, <2>1, <3>1, ContextOfLower DEF Nested
    <2>2. CASE left # {}
      <3>1. left \in SUBSET Nat
        BY <1>1
      <3>2. Sets!Min(left) \in left /\ \A y \in left : Sets!Min(left) <= y
        BY <2>2, <3>1, LeastNumber
      <3>3. PICK m \in left : m = Sets!Min(left) /\ \A y \in left : m <= y
        BY <3>2
      <3>4. m \in 1..Len(s) /\ m > k /\ s[m].op = "search"
        BY <1>1, <1>2
      <3>5. \A i \in (k + 1)..(m - 1) : s[i].op # "search"
        <4>1. ASSUME NEW i \in (k + 1)..(m - 1), s[i].op = "search"
              PROVE  FALSE
          <5>1. i \in left
            BY <1>1, <1>2, <3>4, <4>1
          <5>. HIDE DEF left
          <5>2. m <= i
            BY <3>3, <5>1
          <5>. QED
            BY <1>1, <3>4, <5>2
        <4>. QED
          BY <4>1
      <3>6. ContextOf(s, m - 1, s[m].previous)
        BY <1>1, <3>4 DEF Nested
      <3>7. m - 1 \in Nat /\ k \in 0..(m - 1)
        BY <1>1, <3>4
      <3>8. ContextOf(s, k, s[m].previous)
        BY <3>5, <3>6, <3>7, ContextOfLower
      <3>. QED
        BY <1>3, <2>2, <3>3, <3>8
    <2>. QED
      BY <2>1, <2>2
  <1>. QED
    BY <1>4, NestedBelow DEF t, new

\* The relation between calls and context is the one that the property states.
LEMMA NestedFollows ==
    ASSUME calls \in Seq(Call), Nested(calls, context)
    PROVE  ContextFollowsCalls
  <1>. DEFINE searches == {i \in DOMAIN calls : calls[i].op = "search"}
              n == Len(calls)
  <1>1. n \in Nat /\ DOMAIN calls = 1..n
    OBVIOUS
  <1>2. searches \in SUBSET (0..n)
    BY <1>1
  <1>3. CASE context = NoQuery /\ \A j \in 1..n : calls[j].op # "search"
    <2>1. searches = {}
      BY <1>1, <1>3
    <2>. QED
      BY <1>3, <2>1 DEF ContextFollowsCalls
  <1>4. ASSUME NEW j \in 1..n, calls[j].op = "search", context = calls[j].query,
               \A l \in (j + 1)..n : calls[l].op # "search"
        PROVE  ContextFollowsCalls
    <2>1. j \in searches
      BY <1>1, <1>4
    <2>2. \A y \in searches : y <= j
      BY <1>1, <1>4
    <2>. HIDE DEF searches
    <2>3. Sets!Max(searches) = j
      BY <1>1, <1>2, <2>1, <2>2, MaxIs
    <2>4. context = IF searches = {} THEN NoQuery ELSE calls[Sets!Max(searches)].query
      BY <1>4, <2>1, <2>3
    <2>. QED
      BY <2>4 DEF ContextFollowsCalls, searches
  <1>. QED
    BY <1>1, <1>3, <1>4 DEF Nested, ContextOf

-----------------------------------------------------------------------------
(* The steps. *)

LEMMA SearchInitInv ==
    SearchInit => SearchInv
  <1>1. SUFFICES ASSUME SearchInit
                 PROVE  SearchInv
    OBVIOUS
  <1>2. calls \in Seq(Call) /\ Len(calls) = 0 /\ DOMAIN calls = {}
    BY <1>1 DEF SearchInit
  <1>3. SearchTypeOK
    <2>1. /\ text \in [File -> Text] /\ live \subseteq Provided /\ indexOn \in BOOLEAN
          /\ index \in [Place -> Text]
      BY <1>1, SearchAssumption DEF SearchInit
    <2>2. context \in Query \cup {NoQuery} /\ loaded \in BOOLEAN /\ loader \in BOOLEAN
      BY <1>1 DEF SearchInit
    <2>3. view \in [Place -> Child]
      BY <1>1, NoResultsFit DEF SearchInit
    <2>4. snap \in [taken: BOOLEAN, text: [File -> Text], view: [Place -> Child]]
      BY <1>1, NoResultsFit, SearchAssumption DEF SearchInit, NoSnapshot
    <2>5. Len(calls) <= MaxCalls
      BY <1>2, SearchAssumption
    <2>. QED
      BY <1>2, <2>1, <2>2, <2>3, <2>4, <2>5 DEF SearchTypeOK
  <1>4. Nested(calls, context)
    BY <1>1, <1>2 DEF SearchInit, Nested, ContextOf
  <1>5. FlatEverywhere
    BY <1>1, <1>2, NoResultsFit DEF SearchInit, FlatEverywhere, NoSnapshot
  <1>6. SearchesWait /\ IndexAgrees /\ LoaderGone /\ CalmSearches
    BY <1>1, <1>2 DEF SearchInit, SearchesWait, IndexAgrees, LoaderGone, CalmSearches
  <1>. QED
    BY <1>3, <1>4, <1>5, <1>6 DEF SearchInv

\* What a step that disturbs the calls under way keeps, whatever it changes.
LEMMA Disturbs ==
    ASSUME SearchInv, calls' = Disturbed(calls),
           UNCHANGED <<context, loaded, loader>>
    PROVE  /\ calls' \in Seq(Call) /\ Len(calls') <= MaxCalls
           /\ Nested(calls, context)'
           /\ SearchesWait' /\ LoaderGone' /\ CalmSearches'
           /\ \A i \in DOMAIN calls' : Flat(calls'[i].found)
  <1>1. calls \in Seq(Call) /\ Len(calls) <= MaxCalls /\ Nested(calls, context)
    BY DEF SearchInv, SearchTypeOK
  <1>2. Len(calls) \in Nat /\ DOMAIN calls = 1..Len(calls)
    BY <1>1
  <1>3. /\ calls' \in Seq(Call) /\ Len(calls') = Len(calls)
        /\ \A i \in 1..Len(calls) :
             /\ calls'[i].op = calls[i].op /\ calls'[i].query = calls[i].query
             /\ calls'[i].previous = calls[i].previous
             /\ calls'[i].found = calls[i].found
             /\ calls'[i].running = calls[i].running
             /\ calls'[i].calm = FALSE
    BY <1>1, DisturbedFacts
  <1>4. DOMAIN calls' = 1..Len(calls)
    BY <1>3
  <1>5. Nested(calls, context)'
    <2>1. SameCalls(calls, calls', Len(calls))
      BY <1>3 DEF SameCalls
    <2>2. Nested(calls', context)
      BY <1>1, <1>3, <2>1, NestedSame
    <2>. QED
      BY <2>2 DEF Nested, ContextOf
  <1>6. SearchesWait' /\ LoaderGone' /\ CalmSearches'
    BY <1>2, <1>3, <1>4 DEF SearchInv, SearchesWait, LoaderGone, CalmSearches
  <1>7. \A i \in DOMAIN calls' : Flat(calls'[i].found)
    BY <1>2, <1>3, <1>4 DEF SearchInv, FlatEverywhere
  <1>. QED
    BY <1>1, <1>3, <1>5, <1>6, <1>7

LEMMA WriteFileStep ==
    ASSUME SearchInv, NEW f \in File, NEW t \in Text, WriteFile(f, t)
    PROVE  SearchInv'
  <1>1. /\ calls' = Disturbed(calls)
        /\ UNCHANGED <<indexOn, context, view, loaded, loader, snap>>
        /\ text' = [text EXCEPT ![f] = t] /\ live' = live \ {f}
        /\ index' = IF indexOn THEN [index EXCEPT ![<<"file", f>>] = t] ELSE index
    BY DEF WriteFile
  <1>2. /\ calls' \in Seq(Call) /\ Len(calls') <= MaxCalls
        /\ Nested(calls, context)'
        /\ SearchesWait' /\ LoaderGone' /\ CalmSearches'
        /\ \A i \in DOMAIN calls' : Flat(calls'[i].found)
    BY <1>1, Disturbs
  <1>3. SearchTypeOK'
    BY <1>1, <1>2 DEF SearchInv, SearchTypeOK
  <1>4. IndexAgrees'
    <2>1. <<"file", f>> \in Place /\ \A g \in File : g # f => <<"file", g>> # <<"file", f>>
      BY DEF Place
    <2>2. text \in [File -> Text] /\ index \in [Place -> Text]
      BY DEF SearchInv, SearchTypeOK
    <2>. QED
      BY <1>1, <2>1, <2>2 DEF SearchInv, IndexAgrees, Place
  <1>5. FlatEverywhere'
    BY <1>1, <1>2 DEF SearchInv, FlatEverywhere, Flat
  <1>. QED
    BY <1>2, <1>3, <1>4, <1>5 DEF SearchInv

LEMMA WriteResultStep ==
    ASSUME SearchInv, NEW f \in File, NEW t \in Text, WriteResult(f, t)
    PROVE  SearchInv'
  <1>. DEFINE new == [present |-> TRUE, query |-> NoQuery, text |-> t]
  <1>1. /\ calls' = Disturbed(calls)
        /\ UNCHANGED <<text, live, indexOn, context, loaded, loader, snap>>
        /\ view' = [view EXCEPT ![<<"file", f>>] = new]
        /\ index' = IF indexOn THEN [index EXCEPT ![<<"view", f>>] = t] ELSE index
    BY DEF WriteResult
  <1>2. /\ calls' \in Seq(Call) /\ Len(calls') <= MaxCalls
        /\ Nested(calls, context)'
        /\ SearchesWait' /\ LoaderGone' /\ CalmSearches'
        /\ \A i \in DOMAIN calls' : Flat(calls'[i].found)
    BY <1>1, Disturbs
  <1>3. SearchTypeOK'
    <2>1. new \in Child
      BY DEF Child
    <2>2. view' \in [Place -> Child]
      BY <1>1, <2>1 DEF SearchInv, SearchTypeOK
    <2>3. index' \in [Place -> Text]
      BY <1>1 DEF SearchInv, SearchTypeOK
    <2>. QED
      BY <1>1, <1>2, <2>2, <2>3 DEF SearchInv, SearchTypeOK
  <1>4. IndexAgrees'
    <2>1. \A g \in File : <<"file", g>> \in Place /\ <<"file", g>> # <<"view", f>>
      BY DEF Place
    <2>2. index \in [Place -> Text]
      BY DEF SearchInv, SearchTypeOK
    <2>. QED
      BY <1>1, <2>1, <2>2 DEF SearchInv, IndexAgrees
  <1>5. FlatEverywhere'
    <2>1. \A g \in File : <<"view", g>> \in Place /\ <<"view", g>> # <<"file", f>>
      BY DEF Place
    <2>2. view \in [Place -> Child]
      BY DEF SearchInv, SearchTypeOK
    <2>3. \A g \in File : view'[<<"view", g>>] = view[<<"view", g>>]
      BY <1>1, <2>1, <2>2
    <2>. QED
      BY <1>1, <1>2, <2>3 DEF SearchInv, FlatEverywhere, Flat
  <1>. QED
    BY <1>2, <1>3, <1>4, <1>5 DEF SearchInv

LEMMA WorldChangesStep ==
    ASSUME SearchInv, NEW f \in File, NEW t \in Text, WorldChanges(f, t)
    PROVE  SearchInv'
  <1>1. /\ calls' = Disturbed(calls) /\ f \in live
        /\ UNCHANGED <<live, indexOn, index, context, view, loaded, loader, snap>>
        /\ text' = [text EXCEPT ![f] = t]
    BY DEF WorldChanges
  <1>2. /\ calls' \in Seq(Call) /\ Len(calls') <= MaxCalls
        /\ Nested(calls, context)'
        /\ SearchesWait' /\ LoaderGone' /\ CalmSearches'
        /\ \A i \in DOMAIN calls' : Flat(calls'[i].found)
    BY <1>1, Disturbs
  <1>3. SearchTypeOK'
    BY <1>1, <1>2 DEF SearchInv, SearchTypeOK
  <1>4. IndexAgrees'
    <2>1. text \in [File -> Text]
      BY DEF SearchInv, SearchTypeOK
    <2>. QED
      BY <1>1, <2>1 DEF SearchInv, IndexAgrees
  <1>5. FlatEverywhere'
    BY <1>1, <1>2 DEF SearchInv, FlatEverywhere, Flat
  <1>. QED
    BY <1>2, <1>3, <1>4, <1>5 DEF SearchInv

\* The index that is built has the texts of the files.
LEMMA TextsFacts ==
    ASSUME NEW t \in [File -> Text]
    PROVE  Texts(t) \in [Place -> Text] /\ \A f \in File : Texts(t)[<<"file", f>>] = t[f]
  BY SearchAssumption DEF Texts, Place, Outside

LEMMA EnableIndexStep ==
    ASSUME SearchInv, EnableIndex
    PROVE  SearchInv'
  <1>1. /\ calls' = Disturbed(calls) /\ indexOn' = TRUE /\ index' = Texts(text)
        /\ UNCHANGED <<text, live, context, view, loaded, loader, snap>>
    BY DEF EnableIndex
  <1>2. /\ calls' \in Seq(Call) /\ Len(calls') <= MaxCalls
        /\ Nested(calls, context)'
        /\ SearchesWait' /\ LoaderGone' /\ CalmSearches'
        /\ \A i \in DOMAIN calls' : Flat(calls'[i].found)
    BY <1>1, Disturbs
  <1>3. index' \in [Place -> Text] /\ \A f \in File : index'[<<"file", f>>] = text[f]
    BY <1>1, TextsFacts DEF SearchInv, SearchTypeOK
  <1>4. SearchTypeOK'
    BY <1>1, <1>2, <1>3 DEF SearchInv, SearchTypeOK
  <1>5. IndexAgrees'
    BY <1>1, <1>3 DEF IndexAgrees
  <1>6. FlatEverywhere'
    BY <1>1, <1>2 DEF SearchInv, FlatEverywhere, Flat
  <1>. QED
    BY <1>2, <1>4, <1>5, <1>6 DEF SearchInv

\* A load makes progress: the calls below it and the view stay.
LEMMA TopStep ==
    ASSUME SearchInv, calls # << >>, Top.op = "load", NEW c \in Call,
           calls' = SetTop(c),
           UNCHANGED <<text, live, indexOn, index, context, view, loaded, loader, snap>>,
           c.op = "load", c.query = Top.query, c.previous = Top.previous, Flat(c.found),
           \A q : RightSoFar(q, Top) => RightSoFar(q, c)
    PROVE  SearchInv'
  <1>. DEFINE n == Len(calls)
  <1>1. calls \in Seq(Call) /\ n <= MaxCalls /\ Nested(calls, context)
    BY DEF SearchInv, SearchTypeOK
  <1>2. n \in Nat \ {0} /\ DOMAIN calls = 1..n /\ Top = calls[n]
    BY <1>1, FrontFacts DEF Top
  <1>3. /\ calls' \in Seq(Call) /\ Len(calls') = n /\ calls'[n] = c
        /\ \A i \in 1..(n - 1) : calls'[i] = calls[i]
    BY <1>1, SetTopFacts
  <1>4. DOMAIN calls' = 1..n
    BY <1>3
  <1>5. \A i \in 1..n : i = n \/ i \in 1..(n - 1)
    <2>1. n \in Nat
      BY <1>2
    <2>. HIDE DEF n
    <2>. QED
      BY <2>1
  <1>6. SearchTypeOK'
    BY <1>1, <1>3 DEF SearchInv, SearchTypeOK
  <1>7. Nested(calls, context)'
    <2>1. SameCalls(calls, calls', n)
      BY <1>2, <1>3, <1>5 DEF SameCalls
    <2>2. Nested(calls', context)
      BY <1>1, <1>3, <2>1, NestedSame
    <2>. QED
      BY <2>2 DEF Nested, ContextOf
  <1>8. FlatEverywhere'
    <2>1. \A i \in DOMAIN calls' : Flat(calls'[i].found)
      BY <1>2, <1>3, <1>4, <1>5 DEF SearchInv, FlatEverywhere
    <2>. QED
      BY <2>1 DEF SearchInv, FlatEverywhere, Flat
  <1>9. SearchesWait'
    BY <1>2, <1>3, <1>4, <1>5 DEF SearchInv, SearchesWait
  <1>10. IndexAgrees' /\ LoaderGone'
    BY <1>2, <1>3, <1>4, <1>5 DEF SearchInv, IndexAgrees, LoaderGone
  <1>11. ASSUME NEW i \in 1..n, calls'[i].op = "search", calls'[i].calm
         PROVE  CalmSearch(i)'
    <2>1. i \in 1..(n - 1) /\ calls'[i] = calls[i] /\ i # n
      BY <1>2, <1>3, <1>5, <1>11
    <2>2. CalmSearch(i)
      BY <1>2, <1>11, <2>1 DEF SearchInv, CalmSearches
    <2>3. ASSUME NEW j \in 1..n, j > i
          PROVE  RightSoFar(calls[i].query, calls'[j])
      <3>1. RightSoFar(calls[i].query, calls[j])
        BY <1>2, <2>2, <2>3 DEF CalmSearch
      <3>. QED
        BY <1>2, <1>3, <1>5, <3>1
    <2>4. \A j \in DOMAIN calls' : j > i => RightSoFar(calls[i].query, calls[j])'
      <3>1. \A q, e : RightSoFar(q, e)' = RightSoFar(q, e)
        BY DEF RightSoFar, Seen
      <3>2. \A j \in DOMAIN calls' : j > i => RightSoFar(calls[i].query, calls'[j])
        BY <1>4, <2>3
      <3>. QED
        BY <2>1, <3>1, <3>2
    <2>5. /\ \A f \in File : view[<<"file", f>>] \in {NoChild, Answer(calls[i].query, f)}
          /\ view' = view /\ calls'[i].query = calls[i].query
      BY <2>1, <2>2 DEF CalmSearch
    <2>6. \A q, f : Answer(q, f)' = Answer(q, f)
      BY DEF Answer, Seen
    <2>7. i # Len(calls')
      BY <1>3, <2>1
    <2>. QED
      BY <2>1, <2>4, <2>5, <2>6, <2>7 DEF CalmSearch
  <1>12. CalmSearches'
    BY <1>4, <1>11 DEF CalmSearches
  <1>. QED
    BY <1>6, <1>7, <1>8, <1>9, <1>10, <1>12 DEF SearchInv

\* The call at the top, in a state of the invariant.
LEMMA TopFacts ==
    ASSUME SearchInv, calls # << >>
    PROVE  /\ Top \in Call /\ Flat(Top.found)
           /\ Top.running # {} => Top.op = "load"
           /\ Top.query \in Query \cup {NoQuery} /\ Top.running \subseteq File
           /\ Top.found \in [Place -> Child]
  <1>1. calls \in Seq(Call)
    BY DEF SearchInv, SearchTypeOK
  <1>2. Len(calls) \in DOMAIN calls /\ Top = calls[Len(calls)] /\ Top \in Call
    BY <1>1, FrontFacts DEF Top
  <1>3. Flat(Top.found)
    BY <1>2 DEF SearchInv, FlatEverywhere
  <1>4. /\ Top.op \in {"search", "load"} /\ Top.query \in Query \cup {NoQuery}
        /\ Top.running \subseteq File /\ Top.found \in [Place -> Child]
    BY <1>2 DEF Call
  <1>5. Top.running # {} => Top.op = "load"
    BY <1>2, <1>4 DEF SearchInv, SearchesWait
  <1>. QED
    BY <1>2, <1>3, <1>4, <1>5

\* The text of a file that a load is still to have answers its query.
LEMMA AnsweredRight ==
    ASSUME SearchTypeOK, NEW c \in Call, NEW f \in File, NEW t \in Text, NEW q,
           f \in c.running \/ (f \in c.todo /\ c.running = {}),
           f \in c.todo \/ f \in live => t = text[f],
           RightSoFar(q, c)
    PROVE  RightSoFar(q, Answered(c, f, t))
  <1>1. /\ Answered(c, f, t).op = "load" /\ Answered(c, f, t).query = q
        /\ Answered(c, f, t).todo = c.todo \ {f} /\ Answered(c, f, t).running = {}
        /\ Answered(c, f, t).found
             = [c.found EXCEPT ![<<"file", f>>] = Found(c.query, t)]
    BY AnsweredSame, AnsweredFacts DEF RightSoFar
  <1>2. c.query = q /\ ~indexOn /\ t = text[f]
    BY DEF RightSoFar
  <1>3. c.found \in [Place -> Child] /\ c.running \subseteq {f}
    BY DEF Call, RightSoFar
  <1>4. ASSUME NEW g \in File, g \notin c.todo \ {f}
        PROVE  Answered(c, f, t).found[<<"file", g>>] = Found(q, Seen(g))
    <2>1. <<"file", g>> \in Place /\ (g # f => <<"file", g>> # <<"file", f>>)
      BY DEF Place
    <2>2. CASE g = f
      BY <1>1, <1>2, <1>3, <2>1, <2>2 DEF Seen
    <2>3. CASE g # f
      <3>1. g \notin c.todo /\ g \notin c.running
        BY <1>3, <1>4, <2>3
      <3>2. c.found[<<"file", g>>] = Found(q, Seen(g))
        BY <3>1 DEF RightSoFar
      <3>. QED
        BY <1>1, <1>3, <2>1, <2>3, <3>2
    <2>. QED
      BY <2>2, <2>3
  <1>. HIDE DEF Answered
  <1>. QED
    BY <1>1, <1>2, <1>4 DEF RightSoFar

\* An answer of a file is no answer of a result.
LEMMA AnsweredFlat ==
    ASSUME NEW c \in Call, NEW f \in File, NEW t \in Text, Flat(c.found)
    PROVE  Flat(Answered(c, f, t).found)
  <1>1. c.found \in [Place -> Child]
    BY DEF Call
  <1>2. \A g \in File : <<"view", g>> \in Place /\ <<"view", g>> # <<"file", f>>
    BY DEF Place
  <1>3. Answered(c, f, t).found = [c.found EXCEPT ![<<"file", f>>] = Found(c.query, t)]
    BY AnsweredFacts
  <1>. HIDE DEF Answered
  <1>4. \A g \in File : Answered(c, f, t).found[<<"view", g>>] = c.found[<<"view", g>>]
    BY <1>1, <1>2, <1>3
  <1>. QED
    BY <1>4 DEF Flat

LEMMA ReadStep ==
    ASSUME SearchInv, NEW f \in File, Read(f)
    PROVE  SearchInv'
  <1>1. /\ calls # << >> /\ Top.running = {} /\ Top.op = "load" /\ f \in Top.todo
        /\ calls' = SetTop(IF f \in live THEN Asking(Top, f) ELSE Answered(Top, f, text[f]))
        /\ UNCHANGED <<text, live, indexOn, index, context, view, loaded, loader, snap>>
    BY DEF Read, Searching, tree
  <1>2. Top \in Call /\ Flat(Top.found)
    BY <1>1, TopFacts
  <1>3. SearchTypeOK /\ text[f] \in Text
    BY DEF SearchInv, SearchTypeOK
  <1>4. CASE f \in live
    <2>1. \A q : RightSoFar(q, Top) => RightSoFar(q, Asking(Top, f))
      BY <1>1, <1>2, <1>4, AskingFacts DEF RightSoFar
    <2>2. Flat(Asking(Top, f).found)
      BY <1>2, AskingFacts
    <2>3. calls' = SetTop(Asking(Top, f))
      BY <1>1, <1>4
    <2>. QED
      BY <1>1, <1>2, <2>1, <2>2, <2>3, AskingFacts, TopStep
  <1>5. CASE f \notin live
    <2>1. \A q : RightSoFar(q, Top) => RightSoFar(q, Answered(Top, f, text[f]))
      BY <1>1, <1>2, <1>3, <1>5, AnsweredRight
    <2>2. Flat(Answered(Top, f, text[f]).found)
      BY <1>2, <1>3, AnsweredFlat
    <2>3. calls' = SetTop(Answered(Top, f, text[f]))
      BY <1>1, <1>5
    <2>4. /\ Answered(Top, f, text[f]) \in Call /\ Answered(Top, f, text[f]).op = "load"
          /\ Answered(Top, f, text[f]).query = Top.query
          /\ Answered(Top, f, text[f]).previous = Top.previous
      BY <1>1, <1>2, <1>3, AnsweredSame
    <2>. QED
      BY <1>1, <2>1, <2>2, <2>3, <2>4, TopStep
  <1>. QED
    BY <1>4, <1>5

LEMMA ProviderReturnsStep ==
    ASSUME SearchInv, NEW f \in File, NEW t \in Text, ProviderReturns(f, t)
    PROVE  SearchInv'
  <1>1. /\ calls # << >> /\ f \in Top.running /\ (f \in live => t = text[f])
        /\ calls' = SetTop(Answered(Top, f, t))
        /\ UNCHANGED <<text, live, indexOn, index, context, view, loaded, loader, snap>>
    BY DEF ProviderReturns, ProviderRuns, tree
  <1>2. Top \in Call /\ Flat(Top.found) /\ Top.op = "load"
    BY <1>1, TopFacts
  <1>3. SearchTypeOK
    BY DEF SearchInv
  <1>4. \A q : RightSoFar(q, Top) => RightSoFar(q, Answered(Top, f, t))
    <2>1. ASSUME NEW q, RightSoFar(q, Top)
          PROVE  t = text[f]
      BY <1>1, <2>1 DEF RightSoFar
    <2>. QED
      BY <1>1, <1>2, <1>3, <2>1, AnsweredRight
  <1>5. Flat(Answered(Top, f, t).found)
    BY <1>2, AnsweredFlat
  <1>6. /\ Answered(Top, f, t) \in Call /\ Answered(Top, f, t).op = "load"
        /\ Answered(Top, f, t).query = Top.query
        /\ Answered(Top, f, t).previous = Top.previous
    BY <1>2, AnsweredSame
  <1>. QED
    BY <1>1, <1>2, <1>4, <1>5, <1>6, TopStep

\* What the end of some calls keeps, when the view is right for the calm search
\* that is then at the top.
LEMMA CutStep ==
    ASSUME SearchInv, NEW k \in 0..Len(calls), calls' = SubSeq(calls, 1, k),
           Nested(calls', context'), context' \in Query \cup {NoQuery},
           view' \in [Place -> Child], Flat(view'), loaded' \in BOOLEAN, ~loader => loaded',
           UNCHANGED <<text, live, indexOn, index, loader, snap>>,
           \A i \in 1..k : calls[i].op = "search" /\ calls[i].calm =>
               /\ \A f \in File : view'[<<"file", f>>] \in {NoChild, Answer(calls[i].query, f)}
               /\ i = k => \A f \in File : view'[<<"file", f>>] = Answer(calls[i].query, f)
    PROVE  SearchInv'
  <1>1. calls \in Seq(Call) /\ Len(calls) <= MaxCalls
    BY DEF SearchInv, SearchTypeOK
  <1>2. Len(calls) \in Nat /\ DOMAIN calls = 1..Len(calls) /\ k \in Nat /\ k <= Len(calls)
    BY <1>1
  <1>3. calls' \in Seq(Call) /\ Len(calls') = k /\ \A i \in 1..k : calls'[i] = calls[i]
    BY <1>1, CutFacts
  <1>4. DOMAIN calls' = 1..k /\ \A i \in 1..k : i \in DOMAIN calls
    BY <1>2, <1>3
  <1>5. SearchTypeOK'
    <2>1. k <= MaxCalls
      BY <1>1, <1>2, SearchAssumption
    <2>. QED
      BY <1>3, <2>1 DEF SearchInv, SearchTypeOK
  <1>6. Nested(calls, context)'
    BY DEF Nested, ContextOf
  <1>7. FlatEverywhere'
    <2>1. \A i \in DOMAIN calls' : Flat(calls'[i].found)
      BY <1>3, <1>4 DEF SearchInv, FlatEverywhere
    <2>. QED
      BY <2>1 DEF SearchInv, FlatEverywhere, Flat
  <1>8. SearchesWait' /\ LoaderGone' /\ IndexAgrees'
    BY <1>3, <1>4 DEF SearchInv, SearchesWait, LoaderGone, IndexAgrees
  <1>9. ASSUME NEW i \in 1..k, calls'[i].op = "search", calls'[i].calm
        PROVE  CalmSearch(i)'
    <2>1. CalmSearch(i) /\ calls'[i] = calls[i]
      BY <1>3, <1>4, <1>9 DEF SearchInv, CalmSearches
    <2>2. \A j \in DOMAIN calls' : j > i => RightSoFar(calls[i].query, calls'[j])
      BY <1>3, <1>4, <2>1 DEF CalmSearch
    <2>3. ASSUME NEW j \in DOMAIN calls', j > i
          PROVE  RightSoFar(calls[i].query, calls[j])'
      <3>1. RightSoFar(calls[i].query, calls'[j])
        BY <2>2, <2>3
      <3>. QED
        BY <2>1, <3>1 DEF RightSoFar, Seen
    <2>4. \A f \in File : Answer(calls[i].query, f)' = Answer(calls[i].query, f)
      BY <2>1 DEF Answer, Seen
    <2>. QED
      BY <1>3, <1>9, <2>1, <2>3, <2>4 DEF CalmSearch
  <1>10. CalmSearches'
    BY <1>4, <1>9 DEF CalmSearches
  <1>. QED
    BY <1>5, <1>6, <1>7, <1>8, <1>10 DEF SearchInv

\* An exception ends at a provider that runs, so no search is left at the top.
LEMMA ProviderRaisesStep ==
    ASSUME SearchInv, ProviderRaises
    PROVE  SearchInv'
  <1>1. /\ calls # << >> /\ calls' = Unwound(Seqs!Front(calls))
        /\ context' = ContextAfter(calls, calls')
        /\ UNCHANGED <<text, live, indexOn, index, view, loaded, loader, snap>>
    BY DEF ProviderRaises, ProviderRuns, tree
  <1>2. /\ calls \in Seq(Call) /\ Nested(calls, context) /\ context \in Query \cup {NoQuery}
        /\ view \in [Place -> Child] /\ Flat(view) /\ loaded \in BOOLEAN /\ (~loader => loaded)
    BY DEF SearchInv, SearchTypeOK, FlatEverywhere, LoaderGone
  <1>. DEFINE n == Len(calls)
              s == SubSeq(calls, 1, n - 1)
  <1>3. n \in Nat \ {0} /\ DOMAIN calls = 1..n /\ Seqs!Front(calls) = s
    BY <1>1, <1>2, FrontFacts
  <1>4. s \in Seq(Call) /\ Len(s) = n - 1 /\ \A i \in 1..(n - 1) : s[i] = calls[i]
    <2>1. n - 1 \in 0..n
      BY <1>3
    <2>. QED
      BY <1>2, <2>1, CutFacts
  <1>. HIDE DEF s
  <1>5. PICK k \in 0..(n - 1) : Unwound(s) = SubSeq(s, 1, k) /\ (k > 0 => s[k].running # {})
    BY <1>4, UnwoundFacts
  <1>6. k \in 0..n /\ calls' = SubSeq(calls, 1, k)
    <2>1. SubSeq(s, 1, k) = SubSeq(calls, 1, k)
      BY <1>2, <1>3, <1>4
    <2>. QED
      BY <1>1, <1>3, <1>5, <2>1
  <1>7. Nested(calls', context')
    BY <1>1, <1>2, <1>6, NestedCut
  <1>8. context' \in Query \cup {NoQuery}
    <2>. DEFINE left == {i \in DOMAIN calls : i > Len(calls') /\ calls[i].op = "search"}
    <2>1. CASE left = {}
      BY <1>1, <1>2, <2>1 DEF ContextAfter
    <2>2. CASE left # {}
      <3>1. left \in SUBSET Nat
        BY <1>3
      <3>2. Sets!Min(left) \in left
        BY <2>2, <3>1, LeastNumber
      <3>3. Sets!Min(left) \in DOMAIN calls
        BY <3>2
      <3>4. calls[Sets!Min(left)] \in Call
        BY <1>2, <3>3
      <3>5. context' = calls[Sets!Min(left)].previous
        BY <1>1, <2>2 DEF ContextAfter
      <3>. QED
        BY <3>4, <3>5 DEF Call
    <2>. QED
      BY <2>1, <2>2
  <1>9. ASSUME NEW i \in 1..k, calls[i].op = "search", calls[i].calm
        PROVE  /\ \A f \in File : view'[<<"file", f>>] \in {NoChild, Answer(calls[i].query, f)}
               /\ i = k => \A f \in File : view'[<<"file", f>>] = Answer(calls[i].query, f)
    <2>1. i \in DOMAIN calls /\ i \in 1..(n - 1) /\ k > 0 /\ (i = k => k \in 1..(n - 1))
      BY <1>3, <1>5
    <2>2. i # k
      BY <1>4, <1>5, <1>9, <2>1 DEF SearchInv, SearchesWait
    <2>3. CalmSearch(i)
      BY <1>9, <2>1 DEF SearchInv, CalmSearches
    <2>. QED
      BY <1>1, <2>2, <2>3 DEF CalmSearch
  <1>. QED
    BY <1>1, <1>2, <1>6, <1>7, <1>8, <1>9, CutStep

LEMMA FinishLoadStep ==
    ASSUME SearchInv, FinishLoad
    PROVE  SearchInv'
  <1>1. /\ calls # << >> /\ Top.running = {} /\ Top.op = "load" /\ Top.todo = {}
        /\ view' = Filled(Top.found) /\ loaded' = TRUE /\ calls' = Seqs!Front(calls)
        /\ UNCHANGED <<text, live, indexOn, index, context, loader, snap>>
    BY DEF FinishLoad, Searching, tree
  <1>2. /\ calls \in Seq(Call) /\ Nested(calls, context) /\ context \in Query \cup {NoQuery}
        /\ view \in [Place -> Child] /\ Flat(view)
    BY DEF SearchInv, SearchTypeOK, FlatEverywhere
  <1>. DEFINE n == Len(calls)
  <1>3. n \in Nat \ {0} /\ DOMAIN calls = 1..n /\ Top = calls[n]
        /\ calls' = SubSeq(calls, 1, n - 1)
    BY <1>1, <1>2, FrontFacts DEF Top
  <1>4. n - 1 \in 0..n /\ n \in Nat
    BY <1>3
  <1>5. Nested(calls', context')
    <2>1. \A i \in ((n - 1) + 1)..n : calls[i].op # "search"
      BY <1>1, <1>3
    <2>2. ContextOf(calls, n - 1, context)
      BY <1>2, <1>4, <2>1, ContextOfLower DEF Nested
    <2>3. Nested(SubSeq(calls, 1, n - 1), context)
      BY <1>2, <1>4, <2>2, NestedBelow
    <2>. QED
      BY <1>1, <1>3, <2>3
  <1>6. Top.found \in [Place -> Child] /\ Flat(Top.found)
    BY <1>1, TopFacts
  <1>7. view' \in [Place -> Child] /\ Flat(view')
    BY <1>1, <1>2, <1>6 DEF Filled, Flat, Place
  <1>8. loader
    BY <1>1, <1>3 DEF SearchInv, LoaderGone
  <1>9. ASSUME NEW i \in 1..(n - 1), calls[i].op = "search", calls[i].calm, NEW f \in File
        PROVE  view'[<<"file", f>>] = Answer(calls[i].query, f)
    <2>1. i \in DOMAIN calls /\ n \in DOMAIN calls /\ n > i
      BY <1>3
    <2>2. CalmSearch(i)
      BY <1>9, <2>1 DEF SearchInv, CalmSearches
    <2>3. RightSoFar(calls[i].query, Top)
      BY <1>3, <2>1, <2>2 DEF CalmSearch
    <2>4. Top.found[<<"file", f>>] = Answer(calls[i].query, f)
      BY <1>1, <1>8, <2>3 DEF RightSoFar, Answer
    <2>5. view[<<"file", f>>].present => view[<<"file", f>>] = Answer(calls[i].query, f)
      BY <2>2, NoChildFacts DEF CalmSearch
    <2>6. <<"file", f>> \in Place
      BY DEF Place
    <2>. QED
      BY <1>1, <2>4, <2>5, <2>6 DEF Filled
  <1>. QED
    BY <1>1, <1>2, <1>3, <1>4, <1>5, <1>7, <1>9, CutStep

LEMMA SearchReturnsStep ==
    ASSUME SearchInv, SearchReturns
    PROVE  SearchInv'
  <1>1. /\ calls # << >> /\ Top.op = "search"
        /\ calls' = Seqs!Front(calls) /\ context' = Top.previous
        /\ UNCHANGED <<text, live, indexOn, index, view, loaded, loader, snap>>
    BY DEF SearchReturns, tree
  <1>2. /\ calls \in Seq(Call) /\ Nested(calls, context)
        /\ view \in [Place -> Child] /\ Flat(view) /\ loaded \in BOOLEAN /\ (~loader => loaded)
    BY DEF SearchInv, SearchTypeOK, FlatEverywhere, LoaderGone
  <1>. DEFINE n == Len(calls)
  <1>3. n \in Nat \ {0} /\ DOMAIN calls = 1..n /\ Top = calls[n] /\ calls[n] \in Call
        /\ calls' = SubSeq(calls, 1, n - 1)
    BY <1>1, <1>2, FrontFacts DEF Top
  <1>4. n - 1 \in 0..n /\ n \in Nat /\ n \in DOMAIN calls
    BY <1>3
  <1>5. Nested(calls', context')
    <2>1. ContextOf(calls, n - 1, Top.previous)
      BY <1>1, <1>2, <1>3, <1>4 DEF Nested
    <2>. QED
      BY <1>1, <1>2, <1>3, <1>4, <2>1, NestedBelow
  <1>6. context' \in Query \cup {NoQuery}
    BY <1>1, <1>3 DEF Call
  <1>7. ASSUME NEW i \in 1..(n - 1), calls[i].op = "search", calls[i].calm
        PROVE  FALSE
    <2>1. i \in DOMAIN calls /\ n > i
      BY <1>3
    <2>2. CalmSearch(i)
      BY <1>7, <2>1 DEF SearchInv, CalmSearches
    <2>3. RightSoFar(calls[i].query, calls[n])
      BY <1>4, <2>1, <2>2 DEF CalmSearch
    <2>. QED
      BY <1>1, <1>3, <2>3 DEF RightSoFar
  <1>. QED
    BY <1>1, <1>2, <1>3, <1>4, <1>5, <1>6, <1>7, CutStep

\* A search path and the load that it starts.
LEMMA SearchPathStep ==
    ASSUME SearchInv, NEW q \in Query, SearchPath(q)
    PROVE  SearchInv'
  <1>. DEFINE s0 == Disturbed(calls)
              s1 == Append(s0, SearchCall(q, context))
              s2 == Append(s1, LoadCall(q))
              n == Len(calls)
  <1>1. /\ n + 2 <= MaxCalls /\ context' = q /\ view' = NoResults /\ loaded' = ~loader
        /\ calls' = IF loader THEN s2 ELSE s1
        /\ UNCHANGED <<text, live, indexOn, index, loader, snap>>
    BY DEF SearchPath, Reset, tree
  <1>2. /\ SearchTypeOK /\ calls \in Seq(Call) /\ Nested(calls, context)
        /\ context \in Query \cup {NoQuery} /\ loader \in BOOLEAN
    BY DEF SearchInv, SearchTypeOK
  <1>3. n \in Nat /\ DOMAIN calls = 1..n
    BY <1>2
  <1>4. /\ SearchCall(q, context) \in Call
        /\ SearchCall(q, context).op = "search"
        /\ SearchCall(q, context).query = q /\ SearchCall(q, context).previous = context
        /\ SearchCall(q, context).running = {} /\ Flat(SearchCall(q, context).found)
    BY <1>2, SearchCallFacts
  <1>5. /\ LoadCall(q) \in Call
        /\ LoadCall(q).op = "load" /\ LoadCall(q).query = q
        /\ LoadCall(q).running = {} /\ Flat(LoadCall(q).found)
        /\ RightSoFar(q, LoadCall(q))
    BY <1>2, LoadCallFacts
  <1>6. /\ s0 \in Seq(Call) /\ Len(s0) = n
        /\ \A i \in 1..n : /\ s0[i].op = calls[i].op /\ s0[i].query = calls[i].query
                           /\ s0[i].previous = calls[i].previous
                           /\ s0[i].found = calls[i].found
                           /\ s0[i].running = calls[i].running
                           /\ s0[i].calm = FALSE
    BY <1>2, DisturbedFacts
  <1>. HIDE DEF s0
  <1>7. /\ s1 \in Seq(Call) /\ Len(s1) = n + 1 /\ s1[n + 1] = SearchCall(q, context)
        /\ \A i \in 1..n : s1[i] = s0[i]
    BY <1>3, <1>4, <1>6
  <1>8. Nested(s1, q)
    <2>1. SameCalls(calls, s0, n)
      BY <1>6 DEF SameCalls
    <2>2. Nested(s0, context)
      BY <1>2, <1>6, <2>1, NestedSame
    <2>. QED
      BY <1>4, <1>6, <2>2, NestedPush
  <1>. HIDE DEF s1
  <1>9. /\ s2 \in Seq(Call) /\ Len(s2) = n + 2 /\ s2[n + 2] = LoadCall(q)
        /\ \A i \in 1..(n + 1) : s2[i] = s1[i]
    BY <1>3, <1>5, <1>7
  <1>10. Nested(s2, q)
    BY <1>5, <1>7, <1>8, NestedPush
  <1>. HIDE DEF s2
  <1>11. /\ calls' \in Seq(Call) /\ Nested(calls', q)
         /\ Len(calls') = IF loader THEN n + 2 ELSE n + 1
    BY <1>1, <1>7, <1>8, <1>9, <1>10
  <1>12. ASSUME NEW i \in DOMAIN calls'
         PROVE  \/ i \in 1..n /\ calls'[i] = s0[i]
                \/ i = n + 1 /\ calls'[i] = SearchCall(q, context)
                \/ loader /\ i = n + 2 /\ calls'[i] = LoadCall(q)
    <2>1. i \in 1..Len(calls')
      BY <1>11
    <2>2. i \in 1..n \/ i = n + 1 \/ (loader /\ i = n + 2)
      BY <1>3, <1>11, <2>1
    <2>3. i \in 1..n => i \in 1..(n + 1)
      BY <1>3
    <2>4. n + 1 \in 1..(n + 1)
      BY <1>3
    <2>. QED
      BY <1>1, <1>7, <1>9, <2>2, <2>3, <2>4
  <1>13. SearchTypeOK'
    <2>1. view' \in [Place -> Child]
      BY <1>1, NoResultsFit
    <2>2. Len(calls') <= MaxCalls
      BY <1>1, <1>3, <1>11, SearchAssumption
    <2>3. loaded' \in BOOLEAN
      BY <1>1, <1>2
    <2>. QED
      BY <1>1, <1>11, <2>1, <2>2, <2>3 DEF SearchInv, SearchTypeOK
  <1>14. Nested(calls, context)'
    BY <1>1, <1>11 DEF Nested, ContextOf
  <1>15. FlatEverywhere'
    <2>1. ASSUME NEW i \in DOMAIN calls'
          PROVE  Flat(calls'[i].found)
      BY <1>3, <1>4, <1>5, <1>6, <1>12 DEF SearchInv, FlatEverywhere
    <2>2. Flat(view')
      BY <1>1, NoResultsFit
    <2>. QED
      BY <1>1, <2>1, <2>2 DEF SearchInv, FlatEverywhere, Flat
  <1>16. SearchesWait'
    BY <1>3, <1>4, <1>5, <1>6, <1>12 DEF SearchInv, SearchesWait
  <1>17. IndexAgrees'
    BY <1>1 DEF SearchInv, IndexAgrees
  <1>18. LoaderGone'
    <2>1. SUFFICES ASSUME ~loader
                   PROVE  loaded' /\ \A i \in DOMAIN calls' : calls'[i].op # "load"
      BY <1>1 DEF LoaderGone
    <2>2. ASSUME NEW i \in DOMAIN calls'
          PROVE  calls'[i].op # "load"
      BY <1>3, <1>4, <1>6, <1>12, <2>1 DEF SearchInv, LoaderGone
    <2>. QED
      BY <1>1, <2>1, <2>2
  <1>19. CalmSearches'
    <2>1. ASSUME NEW i \in DOMAIN calls', calls'[i].op = "search", calls'[i].calm
          PROVE  CalmSearch(i)'
      <3>1. i = n + 1 /\ calls'[i].query = q
        BY <1>4, <1>5, <1>6, <1>12, <2>1
      <3>2. ASSUME NEW j \in DOMAIN calls', j > i
            PROVE  RightSoFar(q, calls[j])'
        <4>1. calls'[j] = LoadCall(q)
          BY <1>3, <1>12, <3>1, <3>2
        <4>2. RightSoFar(q, calls'[j])
          BY <1>5, <4>1
        <4>. QED
          BY <1>1, <4>2 DEF RightSoFar, Seen
      <3>3. \A f \in File : view'[<<"file", f>>] = NoChild
        BY <1>1 DEF NoResults, Place
      <3>4. i = Len(calls') => ~loader'
        BY <1>1, <1>3, <1>11, <3>1
      <3>5. ~loader' => \A f \in File : Answer(q, f)' = NoChild
        BY <1>1 DEF Answer
      <3>. QED
        BY <3>1, <3>2, <3>3, <3>4, <3>5 DEF CalmSearch
    <2>. QED
      BY <2>1 DEF CalmSearches
  <1>. QED
    BY <1>13, <1>14, <1>15, <1>16, <1>17, <1>18, <1>19 DEF SearchInv

\* Above a calm search its query is the context.
LEMMA CalmContext ==
    ASSUME SearchInv, NEW i \in DOMAIN calls, calls[i].op = "search", CalmSearch(i)
    PROVE  context = calls[i].query
  <1>. DEFINE n == Len(calls)
  <1>1. n \in Nat /\ DOMAIN calls = 1..n
    BY DEF SearchInv, SearchTypeOK
  <1>2. ContextOf(calls, n, context)
    BY DEF SearchInv, Nested
  <1>3. PICK j \in 1..n : /\ calls[j].op = "search" /\ context = calls[j].query
                          /\ \A l \in (j + 1)..n : calls[l].op # "search"
    BY <1>1, <1>2 DEF ContextOf
  <1>4. ~(j > i)
    BY <1>1, <1>3 DEF CalmSearch, RightSoFar
  <1>5. ~(j < i)
    BY <1>1, <1>3
  <1>6. j = i
    BY <1>1, <1>4, <1>5
  <1>. QED
    BY <1>3, <1>6

LEMMA ListStep ==
    ASSUME SearchInv, List
    PROVE  SearchInv'
  <1>. DEFINE n == Len(calls)
              c == LoadCall(context)
  <1>1. /\ calls = << >> \/ (calls # << >> /\ Top.running # {})
        /\ ~loaded /\ n < MaxCalls /\ calls' = Append(calls, c)
        /\ UNCHANGED <<text, live, indexOn, index, context, view, loaded, loader, snap>>
    BY DEF List, HostRuns, ProviderRuns, tree
  <1>2. /\ SearchTypeOK /\ calls \in Seq(Call) /\ Nested(calls, context)
        /\ context \in Query \cup {NoQuery} /\ loader
    BY <1>1 DEF SearchInv, SearchTypeOK, LoaderGone
  <1>3. n \in Nat /\ DOMAIN calls = 1..n
    BY <1>2
  <1>4. /\ c \in Call /\ c.op = "load" /\ c.query = context
        /\ c.running = {} /\ Flat(c.found) /\ RightSoFar(context, c)
    BY <1>2, LoadCallFacts
  <1>. HIDE DEF c
  <1>5. /\ calls' \in Seq(Call) /\ Len(calls') = n + 1 /\ calls'[n + 1] = c
        /\ DOMAIN calls' = 1..(n + 1) /\ \A i \in 1..n : calls'[i] = calls[i]
    BY <1>1, <1>2, <1>3, <1>4
  <1>6. \A i \in DOMAIN calls' : i \in 1..n \/ i = n + 1
    BY <1>3, <1>5
  <1>7. SearchTypeOK'
    <2>1. n + 1 <= MaxCalls
      BY <1>1, <1>3, SearchAssumption
    <2>. QED
      BY <1>1, <1>5, <2>1 DEF SearchInv, SearchTypeOK
  <1>8. Nested(calls, context)'
    <2>1. Nested(calls', context)
      BY <1>1, <1>2, <1>4, NestedPush
    <2>. QED
      BY <1>1, <2>1 DEF Nested, ContextOf
  <1>9. FlatEverywhere'
    <2>1. \A i \in DOMAIN calls' : Flat(calls'[i].found)
      BY <1>3, <1>4, <1>5, <1>6 DEF SearchInv, FlatEverywhere
    <2>. QED
      BY <1>1, <2>1 DEF SearchInv, FlatEverywhere, Flat
  <1>10. SearchesWait'
    BY <1>3, <1>4, <1>5, <1>6 DEF SearchInv, SearchesWait
  <1>11. IndexAgrees' /\ LoaderGone'
    BY <1>1, <1>2 DEF SearchInv, IndexAgrees, LoaderGone
  <1>12. ASSUME NEW i \in DOMAIN calls', calls'[i].op = "search", calls'[i].calm
         PROVE  CalmSearch(i)'
    <2>1. i \in 1..n /\ calls'[i] = calls[i] /\ i # n + 1
      BY <1>3, <1>4, <1>5, <1>6, <1>12
    <2>2. CalmSearch(i)
      BY <1>3, <1>12, <2>1 DEF SearchInv, CalmSearches
    <2>3. context = calls[i].query
      BY <1>3, <1>12, <2>1, <2>2, CalmContext
    <2>4. ASSUME NEW j \in DOMAIN calls', j > i
          PROVE  RightSoFar(calls[i].query, calls[j])'
      <3>1. RightSoFar(calls[i].query, calls'[j])
        BY <1>3, <1>4, <1>5, <1>6, <2>2, <2>3, <2>4 DEF CalmSearch
      <3>. QED
        BY <1>1, <2>1, <3>1 DEF RightSoFar, Seen
    <2>5. \A f \in File : Answer(calls[i].query, f)' = Answer(calls[i].query, f)
      BY <1>1, <2>1 DEF Answer, Seen
    <2>. QED
      BY <1>1, <1>5, <2>1, <2>2, <2>4, <2>5 DEF CalmSearch
  <1>13. CalmSearches'
    BY <1>12 DEF CalmSearches
  <1>. QED
    BY <1>7, <1>8, <1>9, <1>10, <1>11, <1>13 DEF SearchInv

LEMMA SnapshotStep ==
    ASSUME SearchInv, Snapshot
    PROVE  SearchInv'
  <1>1. /\ snap' = [taken |-> TRUE, text |-> text, view |-> view]
        /\ UNCHANGED <<text, live, indexOn, index, context, view, loaded, loader, calls>>
    BY DEF Snapshot, tree
  <1>2. SearchTypeOK'
    BY <1>1 DEF SearchInv, SearchTypeOK
  <1>3. FlatEverywhere'
    BY <1>1 DEF SearchInv, FlatEverywhere, Flat
  <1>4. Nested(calls, context)' /\ SearchesWait' /\ IndexAgrees' /\ LoaderGone'
    BY <1>1 DEF SearchInv, Nested, ContextOf, SearchesWait, IndexAgrees, LoaderGone
  <1>5. CalmSearches'
    BY <1>1 DEF SearchInv, CalmSearches, CalmSearch, RightSoFar, Answer, Seen
  <1>. QED
    BY <1>2, <1>3, <1>4, <1>5 DEF SearchInv

LEMMA RestoreStep ==
    ASSUME SearchInv, Restore
    PROVE  SearchInv'
  <1>1. /\ calls = << >> /\ text' = snap.text /\ live' = {} /\ view' = snap.view
        /\ loaded' = TRUE /\ loader' = FALSE
        /\ index' = IF indexOn THEN Texts(snap.text) ELSE index
        /\ UNCHANGED <<indexOn, context, calls, snap>>
    BY DEF Restore
  <1>2. snap.text \in [File -> Text] /\ snap.view \in [Place -> Child]
    BY DEF SearchInv, SearchTypeOK
  <1>3. DOMAIN calls' = {}
    BY <1>1
  <1>4. SearchTypeOK'
    BY <1>1, <1>2, TextsFacts DEF SearchInv, SearchTypeOK
  <1>5. FlatEverywhere'
    BY <1>1, <1>3 DEF SearchInv, FlatEverywhere, Flat
  <1>6. Nested(calls, context)'
    BY <1>1 DEF SearchInv, Nested, ContextOf
  <1>7. IndexAgrees'
    BY <1>1, <1>2, TextsFacts DEF IndexAgrees
  <1>8. SearchesWait' /\ LoaderGone' /\ CalmSearches'
    BY <1>1, <1>3 DEF SearchesWait, LoaderGone, CalmSearches
  <1>. QED
    BY <1>4, <1>5, <1>6, <1>7, <1>8 DEF SearchInv

LEMMA SearchNextStep ==
    SearchInv /\ [SearchNext]_vars => SearchInv'
  <1>1. ASSUME SearchInv, UNCHANGED vars
        PROVE  SearchInv'
    <2>1. UNCHANGED <<text, live, indexOn, index, context, view, loaded, loader, calls, snap>>
      BY <1>1 DEF vars
    <2>2. SearchTypeOK' /\ Nested(calls, context)'
      BY <1>1, <2>1 DEF SearchInv, SearchTypeOK, Nested, ContextOf
    <2>3. FlatEverywhere' /\ SearchesWait' /\ IndexAgrees' /\ LoaderGone'
      BY <1>1, <2>1 DEF SearchInv, FlatEverywhere, Flat, SearchesWait, IndexAgrees, LoaderGone
    <2>4. CalmSearches'
      BY <1>1, <2>1 DEF SearchInv, CalmSearches, CalmSearch, RightSoFar, Answer, Seen
    <2>. QED
      BY <2>2, <2>3, <2>4 DEF SearchInv
  <1>2. ASSUME SearchInv, SearchNext
        PROVE  SearchInv'
    BY <1>2, SearchPathStep, ListStep, ReadStep, ProviderRaisesStep, FinishLoadStep,
       SearchReturnsStep, ProviderReturnsStep, WriteFileStep, WriteResultStep,
       WorldChangesStep, EnableIndexStep, SnapshotStep, RestoreStep DEF SearchNext
  <1>. QED
    BY <1>1, <1>2

LEMMA SearchInvAlways ==
    SearchSpec => []SearchInv
  BY SearchInitInv, SearchNextStep, PTL DEF SearchSpec

-----------------------------------------------------------------------------
(* The theorems. *)

\* Files, index, view, snapshot and the stack of calls keep their types: no
\* child of the view holds a text that its query does not find.
THEOREM SearchTypes ==
    SearchSpec => []SearchTypeOK
  BY SearchInvAlways, PTL DEF SearchInv

\* The query that is set is that of the innermost search under way, after every
\* return and every exception (search_view_context).
THEOREM ContextIsRestored ==
    SearchSpec => []ContextFollowsCalls
  <1>1. SearchInv => ContextFollowsCalls
    BY NestedFollows DEF SearchInv, SearchTypeOK
  <1>. QED
    BY <1>1, SearchInvAlways, PTL

\* Nothing in the search view is found in the search view.
THEOREM ResultsAreOfFiles ==
    SearchSpec => []ResultsComeFromOutside
  <1>1. SearchInv => ResultsComeFromOutside
    BY DEF SearchInv, FlatEverywhere, Flat, ResultsComeFromOutside
  <1>. QED
    BY <1>1, SearchInvAlways, PTL

\* A search path that no provider disturbs shows the answer to its query, of
\* every file, from the texts that are in the tree when it returns.
THEOREM SearchesAreFresh ==
    SearchSpec => SearchPathIsFresh
  <1>1. ASSUME SearchInv, SearchReturns, Top.calm, NEW f \in File
        PROVE  LET seen == IF indexOn THEN index[<<"file", f>>] ELSE text[f]
               IN  /\ f \notin live => seen = text[f]
                   /\ view[<<"file", f>>] =
                        IF loader THEN Found(Top.query, seen) ELSE NoChild
    <2>1. calls # << >> /\ Top.op = "search" /\ calls \in Seq(Call)
      BY <1>1 DEF SearchReturns, SearchInv, SearchTypeOK
    <2>2. Len(calls) \in DOMAIN calls /\ Top = calls[Len(calls)]
      BY <2>1, FrontFacts DEF Top
    <2>3. view[<<"file", f>>] = Answer(Top.query, f)
      BY <1>1, <2>1, <2>2 DEF SearchInv, CalmSearches, CalmSearch
    <2>4. f \notin live => Seen(f) = text[f]
      BY <1>1 DEF SearchInv, IndexAgrees, Seen
    <2>. QED
      BY <2>3, <2>4 DEF Answer, Seen
  <1>2. SearchInv => (SearchReturns /\ Top.calm =>
            \A f \in File :
                LET seen == IF indexOn THEN index[<<"file", f>>] ELSE text[f]
                IN  /\ f \notin live => seen = text[f]
                    /\ view[<<"file", f>>] =
                         IF loader THEN Found(Top.query, seen) ELSE NoChild)
    BY <1>1
  <1>. QED
    BY <1>2, SearchInvAlways, PTL DEF SearchPathIsFresh
=============================================================================
