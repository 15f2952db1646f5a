---------------------- MODULE FileSystemAdapter_proofs ----------------------
(***************************************************************************)
(* Theorems about a storage mount over a FileSystemAdapter, for every set  *)
(* of texts and every bound.  The inductive invariant says what each call  *)
(* of the file system may rely on between two calls of the operating       *)
(* system, as long as no other program has interfered.                     *)
(***************************************************************************)
EXTENDS FileSystemAdapter, TLAPS

-----------------------------------------------------------------------------
(* The inductive invariant. *)

\* Where a call is, and what it has already done to the node.
CallShape ==
    /\ call.op = "none" => call = Idle /\ call.at = "none" /\ call.quiet
    /\ call.op = "write" =>
          /\ call.at \in {"exists", "stat", "write_text", "stat again"}
          /\ tree.present
          /\ tree.version = call.version + 1
    /\ call.op = "sync" =>
          /\ call.at \in {"is_file", "exists", "stat", "read_text"}
          /\ ~tree.present
          /\ call.at = "read_text" /\ call.version > 0 =>
                known.has /\ known.version = call.version
    /\ call.op = "remove" =>
          /\ call.at \in {"exists", "unlink"}
          /\ ~tree.present
    /\ ~tree.present => tree.version = 0

\* The adapter knows the file as it is, by that version.
KnownAs(version) ==
    disk.present /\ known.has /\ known.mtime = disk.mtime /\ known.version = version

\* What an undisturbed call has found out still holds.
QuietCall ==
    call.quiet =>
        /\ call.at \in {"stat", "stat again", "unlink"} => disk.present
        /\ call.op = "sync" /\ call.at = "exists" => disk.present
        /\ call.at = "stat again" => disk.text = tree.text
        /\ call.at = "read_text" => KnownAs(call.version)

\* Tree and disk are alike, and were when the call under way began.
Alike ==
    agreed =>
        /\ call.quiet
        /\ call.op = "none" =>
              /\ tree.present <=> disk.present
              /\ tree.present => tree.text = disk.text /\ KnownAs(tree.version)
        /\ call.op = "write" /\ call.at \in {"exists", "stat"} =>
              IF disk.present THEN KnownAs(call.version) ELSE call.version = 0

\* The version that the next comparison is about.
Base == IF call.op = "write" THEN call.version ELSE tree.version

\* A change by others that nothing excuses will be noticed by that comparison.
Noticeable ==
    excused = {} =>
        /\ call.at = "stat again" => ~news
        /\ call.at = "write_text" /\ news => call.version = 0
        /\ call.at \notin {"write_text", "stat again"} /\ Base > 0 =>
              /\ known.has
              /\ Base <= known.version
              /\ news => \/ Base < known.version
                         \/ ~disk.present
                         \/ known.mtime # disk.mtime

Calls == CallShape /\ QuietCall /\ Alike /\ Noticeable
AdapterInv == AdapterTypeOK /\ Calls

-----------------------------------------------------------------------------
(* What the steps share. *)

\* A call that goes on changes only where it is and the version it is about.
LEMMA GoToFacts ==
    ASSUME call \in Call, NEW at, NEW version, GoTo(at, version)
    PROVE  call' = [op |-> call.op, at |-> at, version |-> version, quiet |-> call.quiet]
BY DEF Call, GoTo

\* A call that ends leaves a client with what it wants, and whether it syncs next.
LEMMA EndsFacts ==
    ASSUME want \in Wish, NEW result, Ends(result)
    PROVE  call' = Idle /\ want' \in Wish
<1>1. Content \in Wish
  BY DEF Content, Wish
<1>2. \A next \in {"write", "sync"} : [want EXCEPT !.next = next] \in Wish
  BY DEF Wish
<1>3. QED
  BY <1>1, <1>2 DEF Ends

\* The version that _refresh_version notes is the one it had, or the next.
LEMMA RefreshedFacts ==
    ASSUME NEW k \in Memory, NEW mtime \in 0..MaxClock
    PROVE  /\ Refreshed(k, mtime) \in Memory
           /\ Refreshed(k, mtime).has /\ Refreshed(k, mtime).mtime = mtime
           /\ ~k.has => Refreshed(k, mtime).version = 0
           /\ k.has /\ k.mtime = mtime => Refreshed(k, mtime).version = k.version
           /\ k.has /\ k.mtime # mtime => Refreshed(k, mtime).version = k.version + 1
BY DEF Memory, Refreshed

-----------------------------------------------------------------------------
(* Types. *)

\* The records that stand for nothing have the types of the others.
LEMMA EmptyTypes ==
    NoFile \in File /\ NoNode \in Node /\ Unknown \in Memory /\ Idle \in Call /\ Content \in Wish
<1>1. 0 \in 0..MaxClock
  BY AdapterAssumption DEF AdapterAssumption
<1>2. NoFile \in File
  BY <1>1 DEF NoFile, File
<1>3. NoNode \in Node
  BY DEF NoNode, Node
<1>4. Unknown \in Memory
  BY <1>1 DEF Unknown, Memory
<1>5. Idle \in Call
  BY DEF Idle, Call
<1>6. Content \in Wish
  BY DEF Content, Wish
<1>7. QED
  BY <1>2, <1>3, <1>4, <1>5, <1>6

\* Every initial state has its types.
LEMMA TypesInit == AdapterInit => AdapterTypeOK
<1> SUFFICES ASSUME AdapterInit PROVE AdapterTypeOK
  OBVIOUS
<1>1. clock \in 0..MaxClock /\ others \in 0..MaxOthers /\ writes \in 0..MaxWrites
  BY AdapterAssumption DEF AdapterInit, AdapterAssumption
<1>2. excused \subseteq Excuse
  BY DEF AdapterInit
<1>3. news \in BOOLEAN /\ agreed \in BOOLEAN
  BY Zenon DEF AdapterInit
<1>4. QED
  BY <1>1, <1>2, <1>3, EmptyTypes, Zenon DEF AdapterInit, AdapterTypeOK

\* The flags stay flags.
LEMMA FlagTypes ==
    AdapterTypeOK /\ [AdapterNext]_vars => news' \in BOOLEAN /\ agreed' \in BOOLEAN
<1> SUFFICES ASSUME AdapterTypeOK, [AdapterNext]_vars
             PROVE  news' \in BOOLEAN /\ agreed' \in BOOLEAN
  OBVIOUS
<1>1. news' = news \/ news' = TRUE \/ news' = FALSE
  BY Zenon
     DEF AdapterNext, ThreadStep, vars, history, StartWrite, WriteExists, WriteStat, WriteFails,
         WriteText, WriteStatAgain, StartSync, SyncIsFile, SyncExists, SyncStat,
         SyncReadText, StartRemove, RemoveExists, RemoveUnlink, GiveUp, Want,
         OtherWrite, OtherDelete, OtherChange, Tick
<1>2. agreed' = agreed \/ agreed' = (agreed \/ call.quiet) \/ agreed' = FALSE
  BY Zenon
     DEF AdapterNext, ThreadStep, vars, history, StartWrite, WriteExists, WriteStat, WriteFails,
         WriteText, WriteStatAgain, StartSync, SyncIsFile, SyncExists, SyncStat,
         SyncReadText, StartRemove, RemoveExists, RemoveUnlink, GiveUp, Want,
         OtherWrite, OtherDelete, OtherChange, Tick, NowAgreed
<1>3. news \in BOOLEAN /\ agreed \in BOOLEAN
  BY DEF AdapterTypeOK
<1>4. (agreed \/ call.quiet) \in BOOLEAN
  BY Zenon
<1>5. QED
  BY <1>1, <1>2, <1>3, <1>4, Zenon

\* The file that is written at some time, and the node of an entry.
LEMMA MadeTypes ==
    /\ \A new \in Text \cup {"none"}, mtime \in 0..MaxClock :
          [present |-> TRUE, text |-> new, mtime |-> mtime] \in File
    /\ \A new \in Text \cup {"none"}, version \in Nat :
          [present |-> TRUE, text |-> new, version |-> version] \in Node
    /\ \A mtime \in 0..MaxClock, version \in Nat :
          [has |-> TRUE, version |-> version, mtime |-> mtime] \in Memory
BY DEF File, Node, Memory

\* The fields of what is well typed.
LEMMA FieldTypes ==
    ASSUME AdapterTypeOK
    PROVE  /\ disk.text \in Text \cup {"none"} /\ disk.mtime \in 0..MaxClock
           /\ tree.text \in Text \cup {"none"} /\ tree.version \in Nat
           /\ call.version \in Nat
           /\ known.version \in Nat
           /\ want.text \in Text \cup {"none"}
BY DEF AdapterTypeOK, File, Memory, Node, Call, Wish

\* So do the places that a call goes on to.
LEMMA GoToTypes ==
    ASSUME call \in Call, NEW version \in Nat,
           NEW at \in {"exists", "stat", "write_text", "stat again", "read_text", "unlink"},
           GoTo(at, version)
    PROVE  call' \in Call
<1>1. call' = [op |-> call.op, at |-> at, version |-> version, quiet |-> call.quiet]
  BY GoToFacts
<1>2. QED
  BY <1>1 DEF Call

\* And the one that a call begins at.
LEMMA BeginTypes ==
    ASSUME NEW op \in {"write", "sync", "remove"}, NEW at \in {"exists", "is_file"},
           NEW version \in Nat, Begin(op, at, version)
    PROVE  call' \in Call
BY DEF Begin, Call

\* The comparison of versions leaves the node and the call well typed.
LEMMA CompareTypes ==
    ASSUME AdapterTypeOK, NEW current \in Nat, Compare(current)
    PROVE  tree' \in Node /\ call' \in Call /\ want' \in Wish
<1>1. [tree EXCEPT !.version = call.version] \in Node
  BY FieldTypes DEF AdapterTypeOK, Node
<1>2. CASE current = call.version
  BY <1>2, GoToTypes DEF Compare, AdapterTypeOK
<1>3. CASE current # call.version
  BY <1>1, <1>3, EndsFacts, EmptyTypes DEF Compare, AdapterTypeOK
<1>4. QED
  BY <1>2, <1>3

\* A failed write too.
LEMMA WriteFailsTypes ==
    ASSUME AdapterTypeOK, WriteFails
    PROVE  tree' \in Node /\ known' \in Memory /\ call' \in Call /\ want' \in Wish
BY EndsFacts, EmptyTypes DEF AdapterTypeOK, WriteFails

\* The records keep their types in every step.
LEMMA RecordTypes ==
    AdapterTypeOK /\ AdapterNext =>
        disk' \in File /\ known' \in Memory /\ tree' \in Node /\ call' \in Call /\ want' \in Wish
<1> DEFINE Typed ==
        disk \in File /\ known \in Memory /\ tree \in Node /\ call \in Call /\ want \in Wish
<1> SUFFICES ASSUME AdapterTypeOK, AdapterNext PROVE Typed'
  OBVIOUS
<1> Typed /\ clock \in 0..MaxClock
  BY DEF AdapterTypeOK
<1> USE FieldTypes, EmptyTypes, MadeTypes
<1>1. CASE StartWrite
  BY <1>1, BeginTypes DEF StartWrite
<1>2. CASE WriteExists
  BY <1>2, GoToTypes, CompareTypes DEF WriteExists
<1>3. CASE WriteStat
  <2>1. Refreshed(known, disk.mtime) \in Memory
    BY RefreshedFacts
  <2>2. Refreshed(known, disk.mtime).version \in Nat
    BY <2>1 DEF Memory
  <2>3. QED
    BY <1>3, <2>1, <2>2, CompareTypes, WriteFailsTypes DEF WriteStat
<1>4. CASE WriteText
  BY <1>4, GoToTypes DEF WriteText
<1>5. CASE WriteStatAgain
  <2>1. [has |-> TRUE, version |-> call.version + 1, mtime |-> disk.mtime] \in Memory
    BY DEF Memory
  <2>2. QED
    BY <1>5, <2>1, EndsFacts, WriteFailsTypes DEF WriteStatAgain
<1>6. CASE StartSync
  BY <1>6, BeginTypes DEF StartSync
<1>7. CASE SyncIsFile
  BY <1>7, GoToTypes, EndsFacts DEF SyncIsFile
<1>8. CASE SyncExists
  BY <1>8, GoToTypes DEF SyncExists
<1>9. CASE SyncStat
  <2>1. Refreshed(known, disk.mtime) \in Memory
    BY RefreshedFacts
  <2>2. Refreshed(known, disk.mtime).version \in Nat
    BY <2>1 DEF Memory
  <2>3. QED
    BY <1>9, <2>1, <2>2, GoToTypes, EndsFacts DEF SyncStat
<1>10. CASE SyncReadText
  BY <1>10, EndsFacts DEF SyncReadText, NodeOfEntry
<1>11. CASE StartRemove
  BY <1>11, BeginTypes DEF StartRemove
<1>12. CASE RemoveExists
  BY <1>12, GoToTypes, EndsFacts DEF RemoveExists
<1>13. CASE RemoveUnlink
  BY <1>13, EndsFacts DEF RemoveUnlink
<1>14. CASE GiveUp
  BY <1>14 DEF GiveUp
<1>15. CASE \E new \in Text : Want(new)
  BY <1>15 DEF Want, Wish
<1>16. [call EXCEPT !.quiet = (call = Idle)] \in Call
  BY DEF Call
<1>17. CASE \E new \in Text : OtherWrite(new)
  BY <1>16, <1>17 DEF OtherWrite, OtherChange
<1>18. CASE OtherDelete
  BY <1>16, <1>18 DEF OtherDelete, OtherChange
<1>19. CASE Tick
  BY <1>19 DEF Tick
<1>20. QED
  BY <1>1, <1>2, <1>3, <1>4, <1>5, <1>6, <1>7, <1>8, <1>9, <1>10, <1>11, <1>12,
     <1>13, <1>14, <1>15, <1>17, <1>18, <1>19 DEF AdapterNext, ThreadStep

\* Excuses are added from a fixed set.
LEMMA ExcuseTypes ==
    ASSUME excused \subseteq Excuse
    PROVE  /\ {} \subseteq Excuse
           /\ excused \cup {"failed write"} \subseteq Excuse
           /\ excused \cup {"forgotten"} \subseteq Excuse
           /\ excused \cup Reasons \subseteq Excuse
BY DEF Excuse, Reasons

\* Only the clock, the others and the client count, and only up to their bounds.
LEMMA CounterTypes ==
    AdapterTypeOK /\ AdapterNext =>
        /\ clock' \in 0..MaxClock
        /\ others' \in 0..MaxOthers
        /\ writes' \in 0..MaxWrites
        /\ excused' \subseteq Excuse
<1> DEFINE Counted ==
        /\ clock \in 0..MaxClock
        /\ others \in 0..MaxOthers
        /\ writes \in 0..MaxWrites
        /\ excused \subseteq Excuse
<1> SUFFICES ASSUME AdapterTypeOK, AdapterNext PROVE Counted'
  OBVIOUS
<1> Counted
  BY DEF AdapterTypeOK
<1> /\ clock < MaxClock => clock + 1 \in 0..MaxClock
    /\ others < MaxOthers => others + 1 \in 0..MaxOthers
    /\ writes < MaxWrites => writes + 1 \in 0..MaxWrites
  BY AdapterAssumption DEF AdapterAssumption
<1> USE ExcuseTypes DEF history
<1>1. CASE StartWrite
  BY <1>1 DEF StartWrite
<1>2. CASE WriteExists
  BY <1>2 DEF WriteExists
<1>3. CASE WriteStat
  BY <1>3 DEF WriteStat, WriteFails
<1>4. CASE WriteText
  BY <1>4 DEF WriteText
<1>5. CASE WriteStatAgain
  BY <1>5 DEF WriteStatAgain, WriteFails
<1>6. CASE StartSync
  BY <1>6 DEF StartSync
<1>7. CASE SyncIsFile
  BY <1>7 DEF SyncIsFile
<1>8. CASE SyncExists
  BY <1>8 DEF SyncExists
<1>9. CASE SyncStat
  BY <1>9 DEF SyncStat
<1>10. CASE SyncReadText
  BY <1>10 DEF SyncReadText
<1>11. CASE StartRemove
  BY <1>11 DEF StartRemove
<1>12. CASE RemoveExists
  BY <1>12 DEF RemoveExists
<1>13. CASE RemoveUnlink
  BY <1>13 DEF RemoveUnlink
<1>14. CASE GiveUp
  BY <1>14 DEF GiveUp
<1>15. CASE \E new \in Text : Want(new)
  BY <1>15 DEF Want
<1>16. CASE \E new \in Text : OtherWrite(new)
  BY <1>16 DEF OtherWrite, OtherChange
<1>17. CASE OtherDelete
  BY <1>17 DEF OtherDelete, OtherChange
<1>18. CASE Tick
  BY <1>18 DEF Tick
<1>19. QED
  BY <1>1, <1>2, <1>3, <1>4, <1>5, <1>6, <1>7, <1>8, <1>9, <1>10, <1>11, <1>12,
     <1>13, <1>14, <1>15, <1>16, <1>17, <1>18 DEF AdapterNext, ThreadStep

\* Every step keeps the types.
LEMMA TypesNext == AdapterTypeOK /\ [AdapterNext]_vars => AdapterTypeOK'
<1> SUFFICES ASSUME AdapterTypeOK, [AdapterNext]_vars PROVE AdapterTypeOK'
  OBVIOUS
<1>1. CASE AdapterNext
  BY <1>1, RecordTypes, CounterTypes, FlagTypes, Zenon DEF AdapterTypeOK
<1>2. CASE UNCHANGED vars
  BY <1>2, FlagTypes, Zenon DEF AdapterTypeOK, vars
<1>3. QED
  BY <1>1, <1>2

-----------------------------------------------------------------------------
(* Calls. *)

\* At the start there is no file and nobody has done anything.
LEMMA CallsInit == AdapterInit => Calls
BY DEF AdapterInit, Calls, CallShape, QuietCall, Alike, Noticeable, Base, KnownAs,
       NoFile, NoNode, Unknown, Idle

\* After a last stat that met no change by others, the node has the version that
\* the adapter knows.
LEMMA SeenNoticeable ==
    ASSUME call' = Idle, known'.has, known'.version = tree'.version, tree'.version \in Nat,
           excused' = {} => ~news'
    PROVE  Noticeable'
<1>1. call'.op = "none" /\ call'.at = "none"
  BY DEF Idle
<1>2. tree'.version <= known'.version
  OBVIOUS
<1>3. Base' = tree'.version
  BY <1>1 DEF Base
<1>4. QED
  BY <1>1, <1>2, <1>3, Zenon DEF Noticeable

\* A write keeps the invariant, whatever the disk looks like at each of its calls.
LEMMA WriteCalls ==
    AdapterInv /\ (StartWrite \/ WriteExists \/ WriteStat \/ WriteText \/ WriteStatAgain)
    => Calls'
<1> SUFFICES ASSUME AdapterInv,
                    StartWrite \/ WriteExists \/ WriteStat \/ WriteText \/ WriteStatAgain
             PROVE  Calls'
  OBVIOUS
<1> /\ AdapterTypeOK /\ Calls
    /\ call \in Call /\ want \in Wish /\ known \in Memory /\ tree \in Node
    /\ disk.mtime \in 0..MaxClock
    /\ known.version \in Nat /\ tree.version \in Nat /\ call.version \in Nat
  BY FieldTypes DEF AdapterInv, AdapterTypeOK
<1> USE DEF Calls, CallShape, QuietCall, Alike, Noticeable, Base, KnownAs
<1>1. CASE StartWrite
  <2>1. call.op = "none" /\ call.at = "none" /\ call.quiet
    BY <1>1 DEF StartWrite, Idle
  <2>2. /\ call' = [op |-> "write", at |-> "exists", version |-> tree.version, quiet |-> TRUE]
        /\ tree' = [present |-> TRUE, text |-> want.text, version |-> tree.version + 1]
        /\ UNCHANGED <<disk, known, news, excused, agreed>>
    BY <1>1 DEF StartWrite, Begin, history
  <2>3. QED
    <3>1. CallShape'
      BY <2>1, <2>2
    <3>2. QuietCall'
      BY <2>1, <2>2
    <3>3. Alike'
      BY <2>1, <2>2
    <3>4. Noticeable'
      BY <2>1, <2>2
    <3>5. QED
      BY <3>1, <3>2, <3>3, <3>4
<1>2. CASE WriteExists
  <2> call.op = "write" /\ call.at = "exists" /\ UNCHANGED <<disk, news, agreed>>
    BY <1>2 DEF WriteExists, At
  <2>1. CASE disk.present
    <3>1. call' = [op |-> call.op, at |-> "stat", version |-> call.version,
                   quiet |-> call.quiet]
      BY <1>2, <2>1, GoToFacts DEF WriteExists
    <3>2. UNCHANGED <<known, tree, excused>>
      BY <1>2, <2>1 DEF WriteExists
    <3>3. QED
      BY <2>1, <3>1, <3>2
  <2>2. CASE ~disk.present
    <3>1. known' = Unknown /\ Compare(0) /\ excused' # {}
      BY <1>2, <2>2 DEF WriteExists
    <3>2. CASE call.version = 0
      <4>1. call' = [op |-> call.op, at |-> "write_text", version |-> 0,
                     quiet |-> call.quiet]
        BY <3>1, <3>2, GoToFacts DEF Compare
      <4>2. tree' = tree
        BY <3>1, <3>2 DEF Compare
      <4>3. QED
        BY <2>2, <3>1, <3>2, <4>1, <4>2 DEF Unknown
    <3>3. CASE call.version # 0
      <4>1. tree'.version = call.version /\ tree'.present = tree.present
            /\ tree'.text = tree.text /\ Ends("conflict")
        BY <3>1, <3>3 DEF Compare, AdapterTypeOK, Node
      <4>2. call' = Idle
        BY <4>1, EndsFacts
      <4>3. QED
        BY <2>2, <3>1, <3>3, <4>1, <4>2 DEF Unknown, Idle
    <3>4. QED
      BY <3>2, <3>3
  <2>3. QED
    BY <2>1, <2>2
<1>3. CASE WriteStat
  <2> call.op = "write" /\ call.at = "stat" /\ UNCHANGED disk
    BY <1>3 DEF WriteStat, At
  <2>1. CASE WriteFails
    <3>1. call' = Idle
      BY <2>1, EndsFacts DEF WriteFails
    <3>2. QED
      BY <2>1, <3>1 DEF WriteFails, Idle
  <2>2. CASE ~WriteFails
    <3> disk.present /\ known' = Refreshed(known, disk.mtime) /\ Compare(known'.version)
        /\ UNCHANGED <<news, excused, agreed>>
      BY <1>3, <2>2 DEF WriteStat, history
    <3>1. /\ known' \in Memory
          /\ known'.has /\ known'.mtime = disk.mtime
          /\ ~known.has => known'.version = 0
          /\ known.has /\ known.mtime = disk.mtime => known'.version = known.version
          /\ known.has /\ known.mtime # disk.mtime => known'.version = known.version + 1
      BY RefreshedFacts
    <3>2. CASE known'.version = call.version
      <4>1. call' = [op |-> call.op, at |-> "write_text", version |-> call.version,
                     quiet |-> call.quiet]
        BY <3>2, GoToFacts DEF Compare
      <4>2. tree' = tree
        BY <3>2 DEF Compare
      <4>3. QED
        <5>1. CallShape'
          BY <3>1, <3>2, <4>1, <4>2
        <5>2. QuietCall'
          BY <3>1, <3>2, <4>1, <4>2
        <5>3. Alike'
          BY <3>1, <3>2, <4>1, <4>2
        <5>4. Noticeable'
          BY <3>1, <3>2, <4>1, <4>2
        <5>5. QED
          BY <5>1, <5>2, <5>3, <5>4
    <3>3. CASE known'.version # call.version
      <4>1. tree'.version = call.version /\ tree'.present = tree.present
            /\ tree'.text = tree.text /\ Ends("conflict")
        BY <3>3 DEF Compare, AdapterTypeOK, Node
      <4>2. call' = Idle
        BY <4>1, EndsFacts
      <4>3. QED
        <5>1. CallShape'
          BY <3>1, <3>3, <4>1, <4>2 DEF Idle
        <5>2. QuietCall'
          BY <3>1, <3>3, <4>1, <4>2 DEF Idle
        <5>3. Alike'
          BY <3>1, <3>3, <4>1, <4>2 DEF Idle
        <5>4. Noticeable'
          BY <3>1, <3>3, <4>1, <4>2 DEF Idle
        <5>5. QED
          BY <5>1, <5>2, <5>3, <5>4
    <3>4. QED
      BY <3>2, <3>3
  <2>3. QED
    BY <2>1, <2>2
<1>4. CASE WriteText
  <2>1. call' = [op |-> call.op, at |-> "stat again", version |-> call.version,
                 quiet |-> call.quiet]
    BY <1>4, GoToFacts DEF WriteText
  <2>2. QED
    BY <1>4, <2>1 DEF WriteText, At
<1>5. CASE WriteStatAgain
  <2> call.op = "write" /\ call.at = "stat again" /\ UNCHANGED disk
    BY <1>5 DEF WriteStatAgain, At
  <2>1. CASE WriteFails
    <3>1. call' = Idle
      BY <2>1, EndsFacts DEF WriteFails
    <3>2. QED
      BY <2>1, <3>1 DEF WriteFails, Idle
  <2>2. CASE ~WriteFails
    <3>1. /\ disk.present
          /\ known' = [has |-> TRUE, version |-> call.version + 1, mtime |-> disk.mtime]
          /\ Ends("ok")
          /\ NowAgreed
          /\ UNCHANGED <<tree, news, excused>>
      BY <1>5, <2>2 DEF WriteStatAgain
    <3>2. call' = Idle
      BY <3>1, EndsFacts
    <3>3. QED
      <4>1. CallShape'
        BY <3>1, <3>2 DEF Idle, NowAgreed
      <4>2. QuietCall'
        BY <3>1, <3>2 DEF Idle, NowAgreed
      <4>3. Alike'
        BY <3>1, <3>2 DEF Idle, NowAgreed
      <4>4. Noticeable'
        BY <3>1, <3>2, SeenNoticeable DEF AdapterTypeOK, Node
      <4>5. QED
        BY <4>1, <4>2, <4>3, <4>4
  <2>3. QED
    BY <2>1, <2>2
<1>6. QED
  BY <1>1, <1>2, <1>3, <1>4, <1>5

\* A call that ends with an error was disturbed, and leaves the rest to the next.
LEMMA FailureCalls ==
    ASSUME AdapterInv, call.op \in {"sync", "remove"}, ~call.quiet,
           call' = Idle, UNCHANGED <<disk, known, tree, news, excused, agreed>>
    PROVE  Calls'
<1> /\ Calls /\ tree.version \in Nat
  BY FieldTypes DEF AdapterInv
<1>1. ~agreed /\ ~tree.present /\ tree.version = 0
  BY DEF Calls, Alike, CallShape
<1>2. call'.op = "none" /\ call'.at = "none" /\ call'.quiet
  BY DEF Idle
<1>3. QED
  BY <1>1, <1>2 DEF Calls, CallShape, QuietCall, Alike, Noticeable, Base

\* A call that ends well without meeting a file leaves none in the tree.
LEMMA NothingCalls ==
    ASSUME AdapterInv, ~tree.present, call' = Idle, NowAgreed, call.quiet => ~disk'.present,
           agreed => call.quiet, UNCHANGED tree, excused' = {}
    PROVE  Calls'
<1>1. ~tree'.present /\ tree'.version = 0
  BY DEF AdapterInv, Calls, CallShape
<1>2. call'.op = "none" /\ call'.at = "none" /\ call'.quiet
  BY DEF Idle
<1>3. agreed' => ~disk'.present
  BY DEF NowAgreed
<1>4. ~(tree'.version > 0)
  BY <1>1
<1>5. CallShape' /\ QuietCall'
  BY <1>1, <1>2 DEF CallShape, QuietCall
<1>6. Alike'
  BY <1>1, <1>2, <1>3 DEF Alike
<1>7. Noticeable'
  BY <1>2, <1>4 DEF Noticeable, Base
<1>8. QED
  BY <1>5, <1>6, <1>7 DEF Calls

\* So does a sync.
LEMMA SyncCalls ==
    AdapterInv /\ (StartSync \/ SyncIsFile \/ SyncExists \/ SyncStat \/ SyncReadText)
    => Calls'
<1> SUFFICES ASSUME AdapterInv,
                    StartSync \/ SyncIsFile \/ SyncExists \/ SyncStat \/ SyncReadText
             PROVE  Calls'
  OBVIOUS
<1> /\ AdapterTypeOK /\ Calls
    /\ call \in Call /\ want \in Wish /\ known \in Memory /\ tree \in Node
    /\ disk.mtime \in 0..MaxClock
    /\ known.version \in Nat /\ tree.version \in Nat /\ call.version \in Nat
  BY FieldTypes DEF AdapterInv, AdapterTypeOK
<1> USE DEF Calls, CallShape, QuietCall, Alike, Noticeable, Base, KnownAs
<1>1. CASE StartSync
  <2>1. call.op = "none" /\ call.at = "none" /\ call.quiet
    BY <1>1 DEF StartSync, Idle
  <2>2. /\ call' = [op |-> "sync", at |-> "is_file", version |-> 0, quiet |-> TRUE]
        /\ ~tree'.present /\ tree'.version = 0
    BY <1>1 DEF StartSync, Begin, NoNode
  <2>3. QED
    BY <2>1, <2>2
<1>2. CASE SyncIsFile
  <2> call.op = "sync" /\ call.at = "is_file"
    BY <1>2 DEF SyncIsFile, At
  <2>1. CASE disk.present
    <3>1. call' = [op |-> call.op, at |-> "exists", version |-> 0, quiet |-> call.quiet]
      BY <1>2, <2>1, GoToFacts DEF SyncIsFile
    <3>2. UNCHANGED <<disk, known, tree, news, excused, agreed>>
      BY <1>2, <2>1 DEF SyncIsFile, history
    <3>3. QED
      BY <2>1, <3>1, <3>2
  <2>2. CASE ~disk.present
    <3>1. Ends("ok") /\ NowAgreed /\ excused' = {} /\ UNCHANGED <<disk, known, tree>>
      BY <1>2, <2>2 DEF SyncIsFile
    <3>2. call' = Idle
      BY <3>1, EndsFacts
    <3>3. QED
      BY <2>2, <3>1, <3>2, NothingCalls
  <2>3. QED
    BY <2>1, <2>2
<1>3. CASE SyncExists
  <2> /\ call.op = "sync" /\ call.at = "exists"
      /\ UNCHANGED <<disk, tree, news, excused, agreed>>
    BY <1>3 DEF SyncExists, At, history
  <2>1. CASE disk.present
    <3>1. call' = [op |-> call.op, at |-> "stat", version |-> 0, quiet |-> call.quiet]
      BY <1>3, <2>1, GoToFacts DEF SyncExists
    <3>2. QED
      BY <1>3, <2>1, <3>1 DEF SyncExists
  <2>2. CASE ~disk.present
    <3>1. call' = [op |-> call.op, at |-> "read_text", version |-> 0, quiet |-> call.quiet]
      BY <1>3, <2>2, GoToFacts DEF SyncExists
    <3>2. QED
      BY <2>2, <3>1
  <2>3. QED
    BY <2>1, <2>2
<1>4. CASE SyncStat
  <2> /\ call.op = "sync" /\ call.at = "stat"
      /\ UNCHANGED <<disk, tree, news, excused, agreed>>
    BY <1>4 DEF SyncStat, At, history
  <2>1. CASE disk.present
    <3> known' = Refreshed(known, disk.mtime) /\ GoTo("read_text", known'.version)
      BY <1>4, <2>1 DEF SyncStat
    <3>1. known' \in Memory /\ known'.has /\ known'.mtime = disk.mtime
      BY RefreshedFacts
    <3>2. call' = [op |-> call.op, at |-> "read_text", version |-> known'.version,
                   quiet |-> call.quiet]
      BY GoToFacts
    <3>3. QED
      BY <2>1, <3>1, <3>2
  <2>2. CASE ~disk.present
    <3>1. Ends("error") /\ UNCHANGED known
      BY <1>4, <2>2 DEF SyncStat
    <3>2. call' = Idle
      BY <3>1, EndsFacts
    <3>3. QED
      BY <2>2, <3>1, <3>2, FailureCalls
  <2>3. QED
    BY <2>1, <2>2
<1>5. CASE SyncReadText
  <2> call.op = "sync" /\ call.at = "read_text" /\ UNCHANGED <<disk, known>>
    BY <1>5 DEF SyncReadText, At
  <2>1. CASE disk.present
    <3>1. /\ tree' = [present |-> TRUE, text |-> disk.text, version |-> call.version]
          /\ Ends("ok") /\ NowAgreed /\ news' = FALSE /\ excused' = {}
      BY <1>5, <2>1 DEF SyncReadText, NodeOfEntry
    <3>2. call' = Idle
      BY <3>1, EndsFacts
    <3>3. QED
      <4>1. CallShape'
        BY <2>1, <3>1, <3>2 DEF NowAgreed, Idle
      <4>2. QuietCall'
        BY <2>1, <3>1, <3>2 DEF NowAgreed, Idle
      <4>3. Alike'
        BY <2>1, <3>1, <3>2 DEF NowAgreed, Idle
      <4>4. Noticeable'
        BY <2>1, <3>1, <3>2 DEF NowAgreed, Idle
      <4>5. QED
        BY <4>1, <4>2, <4>3, <4>4
  <2>2. CASE ~disk.present
    <3>1. Ends("error") /\ UNCHANGED <<tree, news, excused, agreed>>
      BY <1>5, <2>2 DEF SyncReadText, history
    <3>2. call' = Idle
      BY <3>1, EndsFacts
    <3>3. QED
      BY <2>2, <3>1, <3>2, FailureCalls
  <2>3. QED
    BY <2>1, <2>2
<1>6. QED
  BY <1>1, <1>2, <1>3, <1>4, <1>5

\* So does a removal.
LEMMA RemoveCalls ==
    AdapterInv /\ (StartRemove \/ RemoveExists \/ RemoveUnlink) => Calls'
<1> SUFFICES ASSUME AdapterInv, StartRemove \/ RemoveExists \/ RemoveUnlink
             PROVE  Calls'
  OBVIOUS
<1> /\ AdapterTypeOK /\ Calls
    /\ call \in Call /\ want \in Wish /\ known \in Memory /\ tree \in Node
    /\ disk.mtime \in 0..MaxClock
    /\ known.version \in Nat /\ tree.version \in Nat /\ call.version \in Nat
  BY FieldTypes DEF AdapterInv, AdapterTypeOK
<1> USE DEF Calls, CallShape, QuietCall, Alike, Noticeable, Base, KnownAs
<1>1. CASE StartRemove
  <2>1. call.op = "none" /\ call.at = "none" /\ call.quiet
    BY <1>1 DEF StartRemove, Idle
  <2>2. /\ call' = [op |-> "remove", at |-> "exists", version |-> 0, quiet |-> TRUE]
        /\ ~tree'.present /\ tree'.version = 0
    BY <1>1 DEF StartRemove, Begin, NoNode
  <2>3. QED
    BY <2>1, <2>2
<1>2. CASE RemoveExists
  <2> call.op = "remove" /\ call.at = "exists" /\ UNCHANGED <<disk, tree>>
    BY <1>2 DEF RemoveExists, At
  <2>1. CASE disk.present
    <3>1. call' = [op |-> call.op, at |-> "unlink", version |-> 0, quiet |-> call.quiet]
      BY <1>2, <2>1, GoToFacts DEF RemoveExists
    <3>2. UNCHANGED <<known, news, excused, agreed>>
      BY <1>2, <2>1 DEF RemoveExists, history
    <3>3. QED
      BY <2>1, <3>1, <3>2
  <2>2. CASE ~disk.present
    <3>1. Ends("ok") /\ NowAgreed /\ excused' = {}
      BY <1>2, <2>2 DEF RemoveExists
    <3>2. call' = Idle
      BY <3>1, EndsFacts
    <3>3. QED
      BY <2>2, <3>1, <3>2, NothingCalls
  <2>3. QED
    BY <2>1, <2>2
<1>3. CASE RemoveUnlink
  <2> call.op = "remove" /\ call.at = "unlink" /\ UNCHANGED tree
    BY <1>3 DEF RemoveUnlink, At
  <2>1. CASE disk.present
    <3>1. disk' = NoFile /\ Ends("ok") /\ NowAgreed /\ excused' = {}
      BY <1>3, <2>1 DEF RemoveUnlink
    <3>2. call' = Idle
      BY <3>1, EndsFacts
    <3>3. QED
      BY <3>1, <3>2, NothingCalls DEF NoFile
  <2>2. CASE ~disk.present
    <3>1. Ends("error") /\ UNCHANGED <<disk, known, news, excused, agreed>>
      BY <1>3, <2>2 DEF RemoveUnlink, history
    <3>2. call' = Idle
      BY <3>1, EndsFacts
    <3>3. QED
      BY <2>2, <3>1, <3>2, FailureCalls
  <2>3. QED
    BY <2>1, <2>2
<1>4. QED
  BY <1>1, <1>2, <1>3

\* Another program disturbs the call under way, and its change can be noticed
\* unless one of the reasons excuses that.
LEMMA OtherCalls ==
    ASSUME AdapterInv, OtherChange,
           \/ ~disk'.present
           \/ disk'.present /\ disk'.mtime = clock
    PROVE  Calls'
<1> /\ AdapterTypeOK /\ Calls
    /\ call \in Call /\ want \in Wish /\ known \in Memory /\ tree \in Node
    /\ disk.mtime \in 0..MaxClock
    /\ known.version \in Nat /\ tree.version \in Nat /\ call.version \in Nat
  BY FieldTypes DEF AdapterInv, AdapterTypeOK
<1> USE DEF Calls, CallShape, QuietCall, Alike, Noticeable, Base, KnownAs
<1>1. /\ news' /\ ~agreed' /\ UNCHANGED <<known, tree>>
      /\ call' = [op |-> call.op, at |-> call.at, version |-> call.version,
                  quiet |-> (call = Idle)]
  BY DEF OtherChange, Call
<1>2. CallShape'
  <2>1. CASE call.op = "none"
    BY <1>1, <2>1 DEF Idle
  <2>2. CASE call.op # "none"
    BY <1>1, <2>2
  <2>3. QED
    BY <2>1, <2>2
<1>3. QuietCall'
  <2>1. CASE call = Idle
    BY <1>1, <2>1 DEF Idle
  <2>2. CASE call # Idle
    BY <1>1, <2>2
  <2>3. QED
    BY <2>1, <2>2
<1>4. Alike'
  BY <1>1
<1>5. Noticeable'
  <2>1. SUFFICES ASSUME excused' = {} PROVE Noticeable'
    OBVIOUS
  <2>2. excused = {} /\ Reasons = {}
    BY <2>1 DEF OtherChange
  <2>3. /\ ~(known.has /\ known.mtime = clock)
        /\ call.at # "write_text" /\ call.at # "stat again"
    BY <2>2 DEF Reasons
  <2>4. Base > 0 => known.has /\ Base <= known.version
    BY <2>2, <2>3
  <2>5. Base > 0 => ~disk'.present \/ known'.mtime # disk'.mtime
    BY <1>1, <2>3, <2>4
  <2>6. Base' = Base /\ call'.at = call.at
    BY <1>1
  <2>7. QED
    BY <1>1, <2>3, <2>4, <2>5, <2>6, Zenon DEF Noticeable
<1>6. QED
  BY <1>2, <1>3, <1>4, <1>5

-----------------------------------------------------------------------------
(* The theorems. *)

\* Every step keeps the invariant.
LEMMA AdapterInvNext == AdapterInv /\ [AdapterNext]_vars => AdapterInv'
<1> SUFFICES ASSUME AdapterInv, [AdapterNext]_vars PROVE AdapterInv'
  OBVIOUS
<1>1. AdapterTypeOK'
  BY TypesNext DEF AdapterInv
<1>2. Calls'
  <2> USE DEF Calls, CallShape, QuietCall, Alike, Noticeable, Base, KnownAs
  <2>1. CASE UNCHANGED <<disk, known, tree, call, news, excused, agreed>>
    BY <2>1 DEF AdapterInv
  <2>2. CASE ThreadStep \/ StartSync
    BY <2>2, WriteCalls, SyncCalls, RemoveCalls DEF ThreadStep
  <2>3. CASE StartRemove
    BY <2>3, RemoveCalls
  <2>4. CASE GiveUp
    BY <2>1, <2>4 DEF GiveUp, history
  <2>5. CASE \E new \in Text : Want(new)
    BY <2>1, <2>5 DEF Want, history
  <2>6. CASE \E new \in Text : OtherWrite(new)
    <3>1. PICK new \in Text : OtherWrite(new)
      BY <2>6
    <3>2. disk'.present /\ disk'.mtime = clock /\ OtherChange
      BY <3>1 DEF OtherWrite
    <3>3. QED
      BY <3>2, OtherCalls
  <2>7. CASE OtherDelete
    <3>1. ~disk'.present /\ OtherChange
      BY <2>7 DEF OtherDelete, NoFile
    <3>2. QED
      BY <3>1, OtherCalls
  <2>8. CASE Tick
    BY <2>1, <2>8 DEF Tick, history
  <2>9. CASE UNCHANGED vars
    BY <2>1, <2>9 DEF vars
  <2>10. QED
    BY <2>2, <2>3, <2>4, <2>5, <2>6, <2>7, <2>8, <2>9 DEF AdapterNext
<1>3. QED
  BY <1>1, <1>2 DEF AdapterInv

\* The invariant holds in every reachable state.
LEMMA AdapterInvAlways == AdapterSpec => []AdapterInv
<1>1. AdapterInit => AdapterInv
  BY TypesInit, CallsInit DEF AdapterInv
<1>2. QED
  BY <1>1, AdapterInvNext, PTL DEF AdapterSpec

\* The adapter's state is what its fields are for: versions are numbers, a call
\* is at one of its steps, times come from the clock.
THEOREM AdapterTypesHold == AdapterSpec => []AdapterTypeOK
<1>1. AdapterInv => AdapterTypeOK
  BY DEF AdapterInv
<1>2. QED
  BY <1>1, AdapterInvAlways, PTL

\* write_file, sync_storage and remove that end undisturbed leave the node with
\* the disk's text and the adapter's version, and so it stays.
THEOREM AgreementHolds == AdapterSpec => []AgreementLasts
<1>1. AdapterInv => AgreementLasts
  <2> SUFFICES ASSUME AdapterInv, call = Idle, agreed
               PROVE  /\ tree.present = disk.present
                      /\ tree.present => tree.text = disk.text /\ tree.version = known.version
    BY DEF AgreementLasts
  <2>1. call.op = "none"
    BY DEF Idle
  <2>2. /\ tree.present <=> disk.present
        /\ tree.present => tree.text = disk.text /\ KnownAs(tree.version)
    BY <2>1 DEF AdapterInv, Calls, Alike
  <2>3. tree.present \in BOOLEAN /\ disk.present \in BOOLEAN
    BY DEF AdapterInv, AdapterTypeOK, Node, File
  <2>4. QED
    BY <2>2, <2>3 DEF KnownAs
<1>2. QED
  BY <1>1, AdapterInvAlways, PTL

\* adapter.write undoes a change by others unseen only where a reason excuses it.
THEOREM LostUpdates == AdapterSpec => LostUpdatesAreExplained
<1>1. AdapterInv /\ [AdapterNext]_vars
      => [WriteText /\ news => call.version = 0 \/ excused # {}]_vars
  <2> SUFFICES ASSUME AdapterInv, WriteText, news, excused = {}
               PROVE  call.version = 0
    OBVIOUS
  <2>1. call.at = "write_text"
    BY DEF WriteText, At
  <2>2. QED
    BY <2>1 DEF AdapterInv, Calls, Noticeable
<1>2. QED
  BY <1>1, AdapterInvAlways, PTL DEF AdapterSpec, LostUpdatesAreExplained

\* A client is told of a conflict, or of an error, only if others changed the file
\* since tree and disk agreed.
THEOREM ConflictsHaveACause == AdapterSpec => ConflictMeansOthers
<1>1. AdapterInv /\ [AdapterNext]_vars
      => [want.next = "write" /\ want'.next = "sync" => ~agreed]_vars
  <2> SUFFICES ASSUME AdapterInv, AdapterNext, want.next = "write", want'.next = "sync", agreed
               PROVE  FALSE
    BY DEF vars
  <2> Calls /\ known \in Memory /\ disk.mtime \in 0..MaxClock /\ call.version \in Nat
    BY FieldTypes DEF AdapterInv, AdapterTypeOK
  <2>1. call.quiet
    BY DEF Calls, Alike
  <2>2. ~UNCHANGED want /\ ~(\E new \in Text : Want(new))
    BY DEF Want
  <2>3. CASE WriteExists
    <3>1. ~disk.present /\ Compare(0) /\ call.op = "write" /\ call.at = "exists"
      BY <2>2, <2>3 DEF WriteExists, At
    <3>2. call.version = 0
      BY <3>1 DEF Calls, Alike
    <3>3. QED
      BY <2>2, <3>1, <3>2 DEF Compare
  <2>4. CASE WriteStat
    <3>1. call.op = "write" /\ call.at = "stat" /\ disk.present
      BY <2>1, <2>4 DEF WriteStat, At, Calls, QuietCall
    <3>2. KnownAs(call.version)
      BY <3>1 DEF Calls, Alike
    <3>3. known' = Refreshed(known, disk.mtime) /\ Compare(known'.version)
      BY <2>4, <3>1 DEF WriteStat, WriteFails
    <3>4. known'.version = call.version
      BY <3>2, <3>3, RefreshedFacts DEF KnownAs
    <3>5. QED
      BY <2>2, <3>3, <3>4 DEF Compare
  <2>5. CASE WriteStatAgain
    <3>1. Ends("ok")
      BY <2>1, <2>5 DEF WriteStatAgain, WriteFails, At, Calls, QuietCall
    <3>2. QED
      BY <2>2, <3>1 DEF Ends, Content
  <2>6. CASE SyncIsFile \/ SyncExists \/ SyncStat \/ SyncReadText
    <3>1. Ends("ok")
      BY <2>1, <2>2, <2>6
         DEF SyncIsFile, SyncExists, SyncStat, SyncReadText, At, Calls, QuietCall, KnownAs
    <3>2. QED
      BY <2>2, <3>1 DEF Ends, Content
  <2>7. CASE RemoveExists \/ RemoveUnlink
    <3>1. Ends("ok")
      BY <2>1, <2>2, <2>7 DEF RemoveExists, RemoveUnlink, At, Calls, QuietCall
    <3>2. QED
      BY <2>2, <3>1 DEF Ends, Content
  <2>8. CASE GiveUp
    BY <2>8 DEF GiveUp, Content
  <2>9. QED
    BY <2>2, <2>3, <2>4, <2>5, <2>6, <2>7, <2>8
       DEF AdapterNext, ThreadStep, StartWrite, WriteText, StartSync, StartRemove,
           OtherWrite, OtherDelete, OtherChange, Tick
<1>2. QED
  BY <1>1, AdapterInvAlways, PTL DEF AdapterSpec, ConflictMeansOthers

=============================================================================
