------------------------- MODULE HostBridge_proofs -------------------------
(***************************************************************************)
(* The sync after a host command, for every tree, every policy, every set  *)
(* of mounts and whatever the process leaves on the host.  The invariant   *)
(* adds to that of VFS that the process left a tree and that what has been *)
(* brought back agrees with it; the two make each further call of the sync *)
(* an approach to the host's tree.                                         *)
(***************************************************************************)
EXTENDS HostBridge, VFS_proofs

HostInv ==
    /\ Inv
    /\ HostTypeOK
    /\ BroughtBackAgrees
    /\ syncing =>
        /\ WellFormed(host)
        /\ \A p \in todo : p # Root /\ host[p].kind # "none"

\* What one call of a sync may change.
Approach ==
    \A q \in Path : fs'[q] # fs[q] =>
        /\ AgreeAt(fs', q)
        /\ ~Exists(fs', q) => todo = {}

-----------------------------------------------------------------------------
LEMMA ExportFacts ==
    ASSUME NEW f \in Tree, WellFormed(f)
    PROVE  Export(f) \in HostTree /\ WellFormed(Export(f))
  <1>1. Export(f) \in HostTree
    BY DEF Export, HostTree, Tree, Node
  <1>2. \A q \in Path : Export(f)[q].kind = f[q].kind
    BY DEF Export
  <1>. QED
    BY <1>1, <1>2 DEF WellFormed, IsDir, Exists

LEMMA NoHostFacts ==
    NoHost \in HostTree
  BY EmptyTreeFacts, ExportFacts DEF NoHost

LEMMA HostTextIsSeq ==
    ASSUME host \in HostTree, NEW p \in Path
    PROVE  HostText(p) \in Seq(Data)
  <1>1. host[p].content \in Seq(Data)
    BY DEF HostTree
  <1>. DEFINE c == host[p].content
  <1>2. /\ Len(c) \in Nat /\ DOMAIN c = 1..Len(c)
        /\ \A i \in 1..Len(c) : c[i] \in Data
    BY <1>1
  <1>. HIDE DEF c
  <1>3. \A i \in 1..Len(c) : ReadText[c[i]] \in Data
    BY <1>2, HostAssumption
  <1>4. [i \in 1..Len(c) |-> ReadText[c[i]]] \in Seq(Data)
    BY <1>2, <1>3
  <1>. QED
    BY <1>2, <1>4 DEF HostText, c

-----------------------------------------------------------------------------
(* The calls of a sync, one by one. *)

LEMMA BringDirFacts ==
    ASSUME HostInv, syncing, NEW p \in todo, host[p].kind = "dir", BringDir(p)
    PROVE  /\ Inv'
           /\ Approach
           /\ \A q \in Path : Exists(fs, q) => fs'[q] = fs[q]
           /\ res' = "ok" => AgreeAt(fs', p)
  <1>1. /\ p \in Path /\ p # Root /\ Inv /\ fs \in Tree /\ WellFormed(fs)
        /\ host \in HostTree /\ WellFormed(host)
    BY DEF HostInv, HostTypeOK, Inv, TypeOK, TreeIsWellFormed
  <1>2. Inv'
    BY <1>1, MkdirInv DEF BringDir
  <1>3. CASE Raise
    BY <1>2, <1>3 DEF Raise, Return, Approach
  <1>4. CASE /\ MkdirAllowed(p, TRUE, TRUE)
             /\ Return("ok") /\ TreeOnly(MakeDirs(fs, p))
    <2>1. CanMakeDirs(fs, p)
      BY <1>1, <1>4, MkdirMeetsNoFile
    <2>2. fs' = MakeDirs(fs, p) /\ IsDir(fs', p)
      BY <1>1, <1>4, <2>1, MakeDirsFacts DEF TreeOnly
    <2>3. \A q \in Path : fs'[q] = IF Under(p, q) /\ ~Exists(fs, q) THEN NewDir ELSE fs[q]
      BY <2>2 DEF MakeDirs
    <2>4. \A q \in Path : Under(p, q) => host[q].kind = "dir"
      BY <1>1 DEF WellFormed, StrictlyUnder, Exists, IsDir
    <2>5. Approach
      BY <2>3, <2>4, NodeFacts DEF Approach, AgreeAt, Exists
    <2>6. AgreeAt(fs', p)
      BY <2>2 DEF AgreeAt, IsDir
    <2>. QED
      BY <1>2, <2>3, <2>5, <2>6
  <1>. QED
    BY <1>3, <1>4 DEF BringDir, Mkdir

\* The tree that _ensure_file leaves: new directories above p, and the file.
LEMMA EnsuredAgrees ==
    ASSUME HostInv, syncing, NEW p \in todo, host[p].kind = "file", CanEnsureFile(fs, p),
           NEW q \in Path, q # p
    PROVE  LET f == EnsureFile(fs, p)
           IN  /\ Exists(fs, q) => f[q] = fs[q]
               /\ f[q] # fs[q] => f[q].kind = "dir" /\ AgreeAt(f, q)
  <1>1. /\ p \in Path /\ p # Root /\ fs \in Tree
        /\ host \in HostTree /\ WellFormed(host)
    BY DEF HostInv, HostTypeOK, Inv, TypeOK
  <1>2. EnsureFile(fs, p)[q] = IF Under(Parent(p), q) /\ ~Exists(fs, q) THEN NewDir ELSE fs[q]
    BY DEF EnsureFile, MakeDirs
  <1>3. Under(Parent(p), q) => host[q].kind = "dir"
    <2>1. SUFFICES ASSUME Under(Parent(p), q)
                   PROVE  host[q].kind = "dir"
      OBVIOUS
    <2>2. Parent(p) \in Path /\ StrictlyUnder(p, Parent(p))
      BY <1>1, ParentFacts
    <2>3. StrictlyUnder(p, q)
      BY <1>1, <2>1, <2>2, UnderTransitive DEF StrictlyUnder
    <2>. QED
      BY <1>1, <2>3 DEF WellFormed, Exists, IsDir
  <1>. QED
    BY <1>2, <1>3, NodeFacts DEF AgreeAt

LEMMA BringFileFacts ==
    ASSUME HostInv, syncing, NEW p \in todo, host[p].kind = "file", BringFile(p)
    PROVE  /\ Inv'
           /\ Approach
           /\ \A q \in Path \ {p} : Exists(fs, q) => fs'[q] = fs[q]
           /\ res' = "ok" => AgreeAt(fs', p)
  <1>1. /\ p \in Path /\ p # Root /\ Inv /\ fs \in Tree /\ WellFormed(fs)
        /\ host \in HostTree
    BY DEF HostInv, HostTypeOK, Inv, TypeOK, TreeIsWellFormed
  <1>2. HostText(p) \in Seq(Data)
    BY <1>1, HostTextIsSeq
  <1>3. CASE Raise
    BY <1>1, <1>3, RaiseStep DEF Raise, Return, Approach
  <1>4. CASE SameText(p) /\ Return("ok") /\ TreeOnly(fs)
    <2>1. Inv'
      BY <1>1, <1>4, TreeOnlyStep DEF Return
    <2>. QED
      BY <1>4, <2>1 DEF SameText, IsFile, TreeOnly, AgreeAt, Approach
  <1>5. CASE WriteFile(p, HostText(p), FALSE, Unversioned)
    <2>. DEFINE f == EnsureFile(fs, p)
                node == Written(f[p], HostText(p), FALSE)
    <2>1. Inv'
      BY <1>1, <1>2, <1>5, WriteFileInv
    <2>2. CASE CanEnsureFile(fs, p)
      <3>1. f \in Tree /\ f[p].kind = "file"
        BY <1>1, <2>2, EnsureFileFacts DEF IsFile
      <3>2. \A q \in Path : q # p =>
              /\ Exists(fs, q) => f[q] = fs[q]
              /\ f[q] # fs[q] => f[q].kind = "dir" /\ f[q].kind = host[q].kind
        BY <2>2, EnsuredAgrees DEF AgreeAt
      <3>3. f[p] = IF IsFile(fs, p) THEN fs[p] ELSE NewFile
        <4>1. CASE IsFile(fs, p)
          BY <1>1, <4>1 DEF EnsureFile, MakeDirs, IsFile, Exists
        <4>2. CASE ~IsFile(fs, p)
          BY <1>1, <4>2 DEF EnsureFile
        <4>. QED
          BY <4>1, <4>2
      <3>4. node.kind = "file" /\ node.content = HostText(p)
        <4>1. f[p] \in Node
          BY <1>1, <3>1 DEF Tree
        <4>2. node = [f[p] EXCEPT !.content = HostText(p), !.version = f[p].version + 1]
          BY DEF Written
        <4>. QED
          BY <3>1, <4>1, <4>2 DEF Node
      <3>. HIDE DEF f, node
      <3>5. CASE ~WriteAllowed(f[p], FALSE) /\ Return("error") /\ TreeOnly(f)
        <4>1. WriteAllowed(NewFile, FALSE)
          BY DEF NewFile, FileNode, Open, WriteAllowed
        <4>2. fs' = f /\ f[p] = fs[p] /\ res' = "error"
          BY <3>3, <3>5, <4>1 DEF TreeOnly, Return
        <4>. QED
          BY <2>1, <3>2, <4>2 DEF Approach, AgreeAt, Exists
      <3>6. CASE PersistAndPublish(f, p, node)
        <4>1. /\ \A q \in Path : q # p => fs'[q] = f[q]
              /\ fs'[p].kind = "file" /\ fs'[p].content = HostText(p)
          <5>1. CASE fs' = [f EXCEPT ![p].content = node.content]
            <6>1. f[p] \in Node
              BY <1>1, <3>1 DEF Tree
            <6>2. fs'[p] = [f[p] EXCEPT !.content = node.content]
              BY <1>1, <3>1, <5>1 DEF Tree
            <6>3. fs'[p].kind = f[p].kind /\ fs'[p].content = node.content
              BY <6>1, <6>2 DEF Node
            <6>. QED
              BY <3>1, <3>4, <5>1, <6>3 DEF Tree
          <5>2. CASE fs' = [f EXCEPT ![p] = node]
            BY <1>1, <3>1, <3>4, <5>2 DEF Tree
          <5>. QED
            BY <3>6, <5>1, <5>2 DEF PersistAndPublish, AfterConflict, TreeOnly
        <4>. QED
          BY <2>1, <3>2, <4>1 DEF Approach, AgreeAt, Exists
      <3>. QED
        BY <1>5, <2>2, <3>5, <3>6 DEF WriteFile, VersionMatches, f, node
    <2>3. CASE ~CanEnsureFile(fs, p)
      BY <1>3, <1>5, <2>3 DEF WriteFile
    <2>. QED
      BY <2>2, <2>3
  <1>. QED
    BY <1>3, <1>4, <1>5 DEF BringFile

\* Whatever a removal takes out, it takes out at or below its target.
LEMMA RemovalBelow ==
    ASSUME NEW f \in Tree, NEW p \in Path, NEW tops \in RemovalOutcomes(f, p),
           NEW q \in Path, NEW t \in tops, Under(q, t)
    PROVE  Under(q, p)
  <1>1. t \in Path /\ Under(t, p)
    <2>1. CASE tops = {p}
      BY <2>1, PathFacts
    <2>2. ASSUME NEW b \in Stops(f, p), tops \in SUBSET FinishedBefore(f, p, b)
          PROVE  t \in Path /\ Under(t, p)
      BY <2>2 DEF FinishedBefore, Subtree
    <2>. QED
      BY <2>1, <2>2 DEF RemovalOutcomes
  <1>. QED
    BY <1>1, UnderTransitive

LEMMA DropFacts ==
    ASSUME HostInv, syncing, todo = {}, DropFile \/ DropDir
    PROVE  Inv' /\ Approach /\ (\A q \in Path : host[q].kind # "none" => fs'[q] = fs[q])
  <1>1. /\ Inv /\ fs \in Tree /\ WellFormed(fs)
        /\ host \in HostTree /\ WellFormed(host)
        /\ \A q \in Path : host[q].kind # "none" => AgreeAt(fs, q)
    BY DEF HostInv, HostTypeOK, Inv, TypeOK, TreeIsWellFormed, BroughtBackAgrees
  <1>2. PICK p \in Path, recursive \in BOOLEAN :
            Remove(p, recursive) /\ host[p].kind = "none"
    <2>1. CASE DropFile
      <3>1. PICK p \in MissingFiles : Remove(p, FALSE)
        BY <2>1 DEF DropFile
      <3>2. p \in Path /\ fs[p].kind = "file" /\ host[p].kind # "file"
        BY <3>1 DEF MissingFiles, Files
      <3>. QED
        BY <1>1, <3>1, <3>2 DEF AgreeAt
    <2>2. CASE DropDir
      <3>1. PICK p \in FromBelow(MissingDirs) : Remove(p, TRUE)
        BY <2>2 DEF DropDir
      <3>2. p \in Path /\ fs[p].kind = "dir" /\ host[p].kind # "dir"
        BY <3>1 DEF FromBelow, MissingDirs, IsDir
      <3>. QED
        BY <1>1, <3>1, <3>2 DEF AgreeAt
    <2>. QED
      BY <2>1, <2>2
  <1>3. Inv'
    BY <1>1, <1>2, RemoveInv
  <1>4. CASE Raise
    BY <1>3, <1>4 DEF Raise, Approach
  <1>5. ASSUME NEW tops \in RemovalOutcomes(fs, p), TakeOut(tops)
        PROVE  Approach /\ (\A q \in Path : host[q].kind # "none" => fs'[q] = fs[q])
    <2>1. \A q \in Path : fs'[q] = IF \E t \in tops : Under(q, t) THEN Absent ELSE fs[q]
      BY <1>5 DEF TakeOut, Detach
    <2>2. \A q \in Path : Under(q, p) => host[q].kind = "none"
      BY <1>1, <1>2 DEF WellFormed, StrictlyUnder, Exists, IsDir
    <2>3. \A q \in Path : fs'[q] # fs[q] => host[q].kind = "none" /\ fs'[q] = Absent
      BY <1>1, <1>5, <2>1, <2>2, RemovalBelow
    <2>. QED
      BY <2>3, NodeFacts DEF Approach, AgreeAt
  <1>. QED
    BY <1>2, <1>3, <1>4, <1>5 DEF Remove

-----------------------------------------------------------------------------
(* The invariant. *)

LEMMA HostInitInv ==
    HostInit => HostInv
  BY InitInv, NoHostFacts
     DEF HostInit, HostInv, Inv, HostTypeOK, BroughtBackAgrees

LEMMA EndSyncInv ==
    ASSUME Inv', EndSync
    PROVE  HostInv'
  BY NoHostFacts DEF EndSync, HostInv, HostTypeOK, BroughtBackAgrees, Inv

LEMMA HostCommandInv ==
    ASSUME HostInv, NEW p \in Path, NEW left \in HostTrees \cup {Export(fs)},
           HostCommand(p, left)
    PROVE  HostInv'
  <1>1. Inv /\ fs \in Tree /\ WellFormed(fs) /\ ~syncing /\ host \in HostTree
        /\ todo \subseteq Path
    BY DEF HostInv, HostTypeOK, Inv, TypeOK, TreeIsWellFormed, HostCommand
  <1>2. CASE Raise /\ UNCHANGED hostVars
    <2>1. Inv'
      BY <1>1, <1>2, RaiseStep
    <2>. QED
      BY <1>1, <1>2, <2>1 DEF hostVars, HostInv, HostTypeOK, BroughtBackAgrees, Inv
  <1>3. CASE /\ host' = left
             /\ syncing' = TRUE
             /\ todo' = {q \in Path \ {Root} : left[q].kind # "none"}
             /\ UNCHANGED vars
    <2>1. left \in HostTree /\ WellFormed(left)
      BY <1>1, ExportFacts, HostAssumption
    <2>2. Inv'
      BY <1>1, <1>3 DEF Inv, TypeOK, TreeIsWellFormed, vars
    <2>3. HostTypeOK'
      BY <1>3, <2>1, <2>2 DEF HostTypeOK, Inv
    <2>4. BroughtBackAgrees'
      <3>1. fs' = fs /\ fs[Root].kind = "dir" /\ left[Root].kind = "dir"
        BY <1>1, <1>3, <2>1 DEF vars, WellFormed, IsDir
      <3>. QED
        BY <1>3, <3>1 DEF BroughtBackAgrees, AgreeAt
    <2>. QED
      BY <1>3, <2>1, <2>2, <2>3, <2>4 DEF HostInv
  <1>. QED
    BY <1>2, <1>3 DEF HostCommand

\* A call of the sync that keeps what has been brought back.
LEMMA ProceedInv ==
    ASSUME HostInv, syncing, Inv', NEW rest \in SUBSET todo, Proceed(rest),
           res' = "ok" => \A q \in Path \ rest : host[q].kind # "none" => AgreeAt(fs', q)
    PROVE  HostInv'
  <1>1. CASE res' = "ok"
    <2>1. todo' = rest /\ host' = host /\ syncing' = syncing
      BY <1>1 DEF Proceed
    <2>2. \A q \in Path : AgreeAt(fs, q)' <=> AgreeAt(fs', q)
      BY <2>1 DEF AgreeAt, HostText
    <2>3. BroughtBackAgrees'
      BY <1>1, <2>1, <2>2 DEF BroughtBackAgrees
    <2>4. HostTypeOK'
      BY <2>1 DEF HostInv, HostTypeOK, Inv
    <2>. QED
      BY <2>1, <2>3, <2>4 DEF HostInv
  <1>2. CASE res' # "ok"
    BY <1>2, EndSyncInv DEF Proceed
  <1>. QED
    BY <1>1, <1>2

LEMMA BringStep ==
    ASSUME HostInv, Bring
    PROVE  HostInv' /\ Approach /\ (~syncing' => res' # "ok")
  <1>1. syncing /\ host \in HostTree
    BY DEF Bring, HostInv, HostTypeOK
  <1>2. PICK p \in todo : /\ IF host[p].kind = "dir" THEN BringDir(p) ELSE BringFile(p)
                          /\ Proceed(todo \ {p})
    BY DEF Bring
  <1>3. p \in Path /\ host[p].kind \in {"dir", "file"}
    BY <1>1 DEF HostInv, HostTypeOK, HostTree
  <1>4. /\ Inv' /\ Approach
        /\ \A q \in Path \ {p} : Exists(fs, q) => fs'[q] = fs[q]
        /\ res' = "ok" => AgreeAt(fs', p)
    BY <1>1, <1>2, <1>3, BringDirFacts, BringFileFacts
  <1>5. ASSUME res' = "ok", NEW q \in Path \ (todo \ {p}), host[q].kind # "none"
        PROVE  AgreeAt(fs', q)
    <2>1. CASE q = p
      BY <1>4, <1>5, <2>1
    <2>2. CASE q # p
      <3>1. AgreeAt(fs, q)
        BY <1>1, <1>5, <2>2 DEF HostInv, BroughtBackAgrees
      <3>2. Exists(fs, q)
        BY <1>5, <3>1 DEF AgreeAt, Exists
      <3>. QED
        BY <1>4, <2>2, <3>1, <3>2 DEF AgreeAt
    <2>. QED
      BY <2>1, <2>2
  <1>6. HostInv'
    BY <1>1, <1>2, <1>4, <1>5, ProceedInv
  <1>. QED
    BY <1>1, <1>2, <1>4, <1>6 DEF Proceed

LEMMA DropStep ==
    ASSUME HostInv, Drop
    PROVE  HostInv' /\ Approach /\ (~syncing' => res' # "ok")
  <1>1. syncing /\ todo = {} /\ (DropFile \/ DropDir) /\ Proceed({})
    BY DEF Drop
  <1>2. Inv' /\ Approach /\ (\A q \in Path : host[q].kind # "none" => fs'[q] = fs[q])
    BY <1>1, DropFacts
  <1>3. \A q \in Path : host[q].kind # "none" => AgreeAt(fs', q)
    BY <1>1, <1>2 DEF HostInv, BroughtBackAgrees, AgreeAt
  <1>4. HostInv'
    BY <1>1, <1>2, <1>3, ProceedInv
  <1>. QED
    BY <1>1, <1>2, <1>4 DEF Proceed

LEMMA FinishStep ==
    ASSUME HostInv, Finish
    PROVE  HostInv' /\ Approach /\ (\A q \in Path : AgreeAt(fs', q))
  <1>1. /\ Inv /\ syncing /\ todo = {} /\ fs \in Tree /\ WellFormed(host)
        /\ MissingFiles = {} /\ MissingDirs = {} /\ fs' = fs
        /\ EndSync /\ Return("ok") /\ TreeOnly(fs)
    BY DEF Finish, TreeOnly, HostInv, Inv, TypeOK
  <1>2. Inv'
    BY <1>1, TreeOnlyStep DEF Return, Inv, TypeOK, TreeIsWellFormed
  <1>3. ASSUME NEW q \in Path
        PROVE  AgreeAt(fs, q)
    <2>1. CASE host[q].kind # "none"
      BY <1>1, <2>1 DEF HostInv, BroughtBackAgrees
    <2>2. CASE host[q].kind = "none"
      <3>1. q # Root
        BY <1>1, <2>2 DEF WellFormed, IsDir
      <3>2. fs[q].kind \in {"none", "dir", "file"}
        BY <1>1 DEF Tree, Node
      <3>3. fs[q].kind # "file" /\ fs[q].kind # "dir"
        BY <1>1, <2>2, <3>1 DEF MissingFiles, MissingDirs, Files, IsDir
      <3>. QED
        BY <2>2, <3>2, <3>3 DEF AgreeAt
    <2>. QED
      BY <2>1, <2>2
  <1>4. HostInv'
    BY <1>1, <1>2, EndSyncInv
  <1>. QED
    BY <1>1, <1>3, <1>4 DEF Approach

LEMMA HostNextInv ==
    HostInv /\ [HostNext]_allVars => HostInv'
  <1>. SUFFICES ASSUME HostInv, [HostNext]_allVars
                PROVE  HostInv'
    OBVIOUS
  <1>1. CASE UNCHANGED allVars
    BY <1>1 DEF allVars, vars, hostVars, HostInv, Inv, HostTypeOK, TypeOK,
                TreeIsWellFormed, BroughtBackAgrees, AgreeAt, HostText
  <1>2. CASE ~syncing /\ Next /\ UNCHANGED hostVars
    <2>1. Inv'
      BY <1>2, NextInv DEF HostInv
    <2>. QED
      BY <1>2, <2>1 DEF hostVars, HostInv, HostTypeOK, Inv, BroughtBackAgrees
  <1>3. ASSUME NEW p \in Path, NEW left \in HostTrees \cup {Export(fs)},
               HostCommand(p, left)
        PROVE  HostInv'
    BY <1>3, HostCommandInv
  <1>4. CASE Sync
    BY <1>4, BringStep, DropStep, FinishStep DEF Sync
  <1>. QED
    BY <1>1, <1>2, <1>3, <1>4 DEF HostNext

LEMMA HostInvAlways ==
    HostSpec => []HostInv
  BY HostInitInv, HostNextInv, PTL DEF HostSpec

-----------------------------------------------------------------------------
(* What the invariant says of a step of a sync. *)

LEMMA SyncStep ==
    ASSUME HostInv, [HostNext]_allVars, syncing
    PROVE  /\ Approach
           /\ ~syncing' /\ res' = "ok" => \A q \in Path : AgreeAt(fs', q)
  <1>1. CASE UNCHANGED allVars
    BY <1>1 DEF allVars, vars, hostVars, Approach
  <1>2. CASE Sync
    BY <1>2, BringStep, DropStep, FinishStep DEF Sync
  <1>. QED
    BY <1>1, <1>2 DEF HostNext, HostCommand

\* Every variable of the bridge and of the file system keeps its type, through
\* every host command and every place where its sync may end.
THEOREM HostTypeCorrect ==
    HostSpec => []HostTypeOK
  BY HostInvAlways, PTL DEF HostInv

\* At every moment of a sync, what it has brought back is as the process left
\* it: no later call of the sync undoes an earlier one.
THEOREM BroughtBackStays ==
    HostSpec => []BroughtBackAgrees
  BY HostInvAlways, PTL DEF HostInv

\* A host command that reports no error leaves the file system with the tree
\* that the process left: all is brought back and nothing else stays.
THEOREM SyncIsComplete ==
    HostSpec => SyncBringsTheHost
  <1>1. HostInv /\ [HostNext]_allVars =>
          [syncing /\ ~syncing' /\ res' = "ok" => \A p \in Path : AgreeAt(fs', p)]_allVars
    BY SyncStep
  <1>. QED
    BY <1>1, HostInvAlways, PTL DEF HostSpec, SyncBringsTheHost

\* No call of a sync, also of one that fails later, changes a node to anything
\* but what it is on the host, or takes one away before all is brought back.
THEOREM SyncApproaches ==
    HostSpec => SyncOnlyApproaches
  <1>1. HostInv /\ [HostNext]_allVars =>
          [syncing =>
            \A p \in Path : fs'[p] # fs[p] =>
                /\ AgreeAt(fs', p)
                /\ ~Exists(fs', p) =>
                     \A q \in Path : host[q].kind # "none" => AgreeAt(fs, q)]_allVars
    <2>. SUFFICES ASSUME HostInv, [HostNext]_allVars, syncing,
                         NEW p \in Path, fs'[p] # fs[p]
                  PROVE  /\ AgreeAt(fs', p)
                         /\ ~Exists(fs', p) =>
                              \A q \in Path : host[q].kind # "none" => AgreeAt(fs, q)
      OBVIOUS
    <2>. QED
      BY SyncStep DEF Approach, HostInv, BroughtBackAgrees
  <1>. QED
    BY <1>1, HostInvAlways, PTL DEF HostSpec, SyncOnlyApproaches
=============================================================================
