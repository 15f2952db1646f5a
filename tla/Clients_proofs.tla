---------------------------- MODULE Clients_proofs ----------------------------
(***************************************************************************)
(* Optimistic versions make reading, extending and writing a shared file   *)
(* one step: Clients implements AppendLog, for any number of clients, any  *)
(* lengths of text and however often the file is reset.                    *)
(***************************************************************************)
EXTENDS Clients, VFS_proofs

\* A file that is not there has left neither text nor version behind.
Clean(f) ==
    ~IsFile(f, Shared) => f[Shared].content = << >> /\ f[Shared].version = 0

\* A client that no reset came between has seen no version that is still to
\* come; when it has seen the last one, it holds the text that goes with it.
Holds(c) ==
    phase[c] \in {"read_file", "write_file"} /\ c \notin behind =>
        /\ seen[c] <= fs[Shared].version
        /\ phase[c] = "write_file" /\ seen[c] = fs[Shared].version =>
               text[c] = fs[Shared].content

\* The clients' own state.
Callers ==
    /\ phase \in [Client -> {"get_version", "read_file", "write_file", "done"}]
    /\ seen \in [Client -> Nat]
    /\ text \in [Client -> Seq(Data)]
    /\ behind \subseteq Client
    /\ resets \in 0..MaxResets

\* No storage is mounted, so that no write meets a conflict.
Unmounted == mounted = {} /\ snap.mounted = {}

ClientsInv ==
    /\ Inv
    /\ Callers
    /\ Unmounted
    /\ Clean(fs)
    /\ Clean(snap.fs)
    /\ \A c \in Client : Holds(c)

-----------------------------------------------------------------------------
(* What a step does to the shared file. *)

LEMMA ClientsInitInv ==
    ClientsInit => ClientsInv
  <1>. SUFFICES ASSUME ClientsInit
                PROVE  ClientsInv
    OBVIOUS
  <1>1. Inv
    BY InitInv DEF ClientsInit
  <1>2. Callers
    BY ClientsAssumption, EmptySeq DEF ClientsInit, Callers
  <1>3. Unmounted
    BY DEF ClientsInit, Init, NoSnapshot, Unmounted
  <1>4. Clean(EmptyTree)
    BY ClientsAssumption DEF Clean, EmptyTree, Absent, NewFile, FileNode
  <1>5. fs = EmptyTree /\ snap.fs = EmptyTree
    BY DEF ClientsInit, Init, NoSnapshot
  <1>6. \A c \in Client : Holds(c)
    BY DEF ClientsInit, Holds
  <1>. QED
    BY <1>1, <1>2, <1>3, <1>4, <1>5, <1>6 DEF ClientsInv

\* Making sure that the file is there keeps its text and version.
LEMMA EnsureKeeps ==
    ASSUME NEW f \in Tree, Clean(f), WellFormed(f), CanEnsureFile(f, Shared)
    PROVE  /\ EnsureFile(f, Shared)[Shared].content = f[Shared].content
           /\ EnsureFile(f, Shared)[Shared].version = f[Shared].version
           /\ Clean(EnsureFile(f, Shared))
  <1>. DEFINE g == EnsureFile(f, Shared)
  <1>1. Shared \in Path
    BY ClientsAssumption
  <1>2. IsFile(g, Shared)
    BY <1>1, EnsureFileFacts
  <1>3. g[Shared] = IF IsFile(f, Shared) THEN f[Shared] ELSE NewFile
    BY <1>1 DEF EnsureFile, MakeDirs, IsFile, Exists
  <1>. HIDE DEF g
  <1>4. g[Shared].content = f[Shared].content /\ g[Shared].version = f[Shared].version
    BY <1>3 DEF Clean, NewFile, FileNode
  <1>5. Clean(g)
    BY <1>2 DEF Clean
  <1>. QED
    BY <1>4, <1>5 DEF g

\* The step leaves the file's text and version alone, or just makes it.
FileKept ==
    /\ fs'[Shared].content = fs[Shared].content
    /\ fs'[Shared].version = fs[Shared].version
    /\ Clean(fs)'
    /\ UNCHANGED <<mounted, snap>>

LEMMA TouchKeeps ==
    ASSUME ClientsInv, Touch(Shared)
    PROVE  FileKept
  <1>1. fs \in Tree /\ WellFormed(fs) /\ Clean(fs)
    BY DEF ClientsInv, Inv, TypeOK, TreeIsWellFormed
  <1>2. CASE Raise
    BY <1>1, <1>2 DEF Raise, FileKept, Clean
  <1>3. CASE CanEnsureFile(fs, Shared) /\ TreeOnly(EnsureFile(fs, Shared))
    BY <1>1, <1>3, EnsureKeeps DEF TreeOnly, FileKept, Clean
  <1>. QED
    BY <1>2, <1>3 DEF Touch

\* A write without mounts is refused and leaves the file's text and version
\* alone, or the version was the one expected and goes up by one.
LEMMA WriteOutcome ==
    ASSUME ClientsInv, NEW d \in Seq(Data), NEW v \in Nat,
           WriteFile(Shared, d, FALSE, v)
    PROVE  \/ res' = "error" /\ FileKept
           \/ /\ res' = "ok"
              /\ v = fs[Shared].version
              /\ fs'[Shared].content = d
              /\ fs'[Shared].version = v + 1
              /\ Clean(fs)'
              /\ UNCHANGED <<mounted, snap>>
  <1>. DEFINE f == EnsureFile(fs, Shared)
              node == Written(f[Shared], d, FALSE)
  <1>1. fs \in Tree /\ WellFormed(fs) /\ Clean(fs) /\ Shared \in Path
    BY ClientsAssumption DEF ClientsInv, Inv, TypeOK, TreeIsWellFormed
  <1>2. CASE Raise
    BY <1>1, <1>2 DEF Raise, Return, FileKept, Clean
  <1>3. CASE CanEnsureFile(fs, Shared)
    <2>1. /\ f[Shared].content = fs[Shared].content
          /\ f[Shared].version = fs[Shared].version
          /\ Clean(f) /\ f \in Tree /\ IsFile(f, Shared)
      BY <1>1, <1>3, EnsureKeeps, EnsureFileFacts
    <2>. HIDE DEF f
    <2>2. CASE Return("error") /\ TreeOnly(f)
      BY <2>1, <2>2 DEF Return, TreeOnly, FileKept, Clean
    <2>3. CASE VersionMatches(f[Shared], v) /\ PersistAndPublish(f, Shared, node)
      <3>1. MountsOver(Shared) = {}
        BY DEF ClientsInv, Unmounted, MountsOver
      <3>2. res' = "ok" /\ fs' = [f EXCEPT ![Shared] = node] /\ UNCHANGED <<mounted, snap>>
        BY <2>3, <3>1 DEF PersistAndPublish, AfterConflict, Return, ClientsInv, Unmounted
      <3>3. v = fs[Shared].version
        BY <2>1, <2>3, ClientsAssumption DEF VersionMatches
      <3>4. f[Shared] \in Node /\ f[Shared].kind = "file"
        BY <1>1, <2>1 DEF Tree, IsFile
      <3>5. node.kind = "file" /\ node.content = d /\ node.version = f[Shared].version + 1
        BY <3>4 DEF Written, Node
      <3>. HIDE DEF node
      <3>6. fs'[Shared] = node
        BY <1>1, <2>1, <3>2 DEF Tree
      <3>. QED
        BY <1>1, <2>1, <3>2, <3>3, <3>5, <3>6 DEF Clean, IsFile
    <2>. QED
      BY <1>2, <1>3, <2>2, <2>3 DEF WriteFile, f
  <1>. QED
    BY <1>2, <1>3 DEF WriteFile

\* What a reset leaves of the file is clean, and it mounts nothing.
LEMMA ResetFacts ==
    ASSUME ClientsInv, Remove(Shared, FALSE) \/ Restore
    PROVE  Inv' /\ Clean(fs)' /\ UNCHANGED snap /\ Unmounted'
  <1>1. /\ fs \in Tree /\ WellFormed(fs) /\ Clean(fs) /\ Clean(snap.fs)
        /\ Shared \in Path /\ Inv /\ Unmounted
    BY ClientsAssumption DEF ClientsInv, Inv, TypeOK, TreeIsWellFormed
  <1>2. Absent.content = << >> /\ Absent.version = 0
    BY DEF Absent, NewFile, FileNode
  <1>3. CASE Remove(Shared, FALSE)
    <2>1. Inv'
      BY <1>1, <1>3, RemoveInv
    <2>2. CASE Raise
      BY <1>1, <2>1, <2>2 DEF Raise, Clean, Unmounted
    <2>3. ASSUME NEW tops, TakeOut(tops)
          PROVE  Clean(fs)' /\ UNCHANGED <<mounted, snap>>
      <3>1. fs'[Shared] = Absent \/ fs'[Shared] = fs[Shared]
        BY <1>1, <2>3 DEF TakeOut, Detach
      <3>. QED
        BY <1>1, <1>2, <2>3, <3>1 DEF TakeOut, Clean, IsFile
    <2>. QED
      BY <1>1, <1>3, <2>1, <2>2, <2>3 DEF Remove, Unmounted
  <1>4. CASE Restore
    <2>1. Inv'
      BY <1>1, <1>4, RestoreInv
    <2>2. PICK T : fs' = RestoreTree(snap.fs, T)
      BY <1>4 DEF Restore
    <2>3. fs'[Shared] = Absent \/ fs'[Shared] = snap.fs[Shared]
      BY <1>1, <2>2 DEF RestoreTree
    <2>4. mounted' = snap.mounted /\ UNCHANGED snap
      BY <1>4 DEF Restore
    <2>. QED
      BY <1>1, <1>2, <2>1, <2>3, <2>4 DEF Clean, IsFile, Unmounted
  <1>. QED
    BY <1>3, <1>4

-----------------------------------------------------------------------------
(* Each step keeps the invariant and is a step of AppendLog or stutters. *)

Finished == {c \in Client : phase[c] = "done"}

LEMMA GetVersionStep ==
    ASSUME ClientsInv, NEW c \in Client, GetVersion(c)
    PROVE  ClientsInv' /\ Log!Begin(c)
  <1>1. /\ UNCHANGED <<vars, behind, resets>>
        /\ phase[c] = "get_version"
        /\ Callers /\ Clean(fs)
    BY DEF GetVersion, ClientsInv
  <1>2. fs[Shared].version \in Nat /\ fs[Shared].content \in Seq(Data)
    BY ClientsAssumption DEF ClientsInv, Inv, TypeOK, Tree, Node
  <1>3. PICK next \in {"read_file", "write_file"} :
          /\ phase' = [phase EXCEPT ![c] = next]
          /\ seen' = [seen EXCEPT ![c] = fs[Shared].version]
          /\ \/ next = "read_file" /\ UNCHANGED text
             \/ text' = [text EXCEPT ![c] = fs[Shared].content]
    BY <1>1 DEF GetVersion, Advance, Clean
  <1>4. Callers'
    BY <1>1, <1>2, <1>3 DEF Callers
  <1>5. ASSUME NEW x \in Client
        PROVE  Holds(x)'
    <2>1. Holds(x)
      BY DEF ClientsInv
    <2>2. CASE x = c
      BY <1>1, <1>2, <1>3, <2>2 DEF Callers, Holds, vars
    <2>3. CASE x # c
      BY <1>1, <1>3, <2>1, <2>3 DEF Callers, Holds, vars
    <2>. QED
      BY <2>2, <2>3
  <1>6. Inv' /\ Unmounted' /\ Clean(fs)' /\ Clean(snap.fs)'
    <2>1. fs' = fs /\ snap' = snap /\ mounted' = mounted
      BY <1>1 DEF vars
    <2>2. Inv'
      BY <1>1, NextInv DEF ClientsInv
    <2>. QED
      BY <2>1, <2>2 DEF ClientsInv, Unmounted, Clean
  <1>7. Begun' = Begun \cup {c} /\ Finished' = Finished /\ c \notin Begun \cup Finished
    BY <1>1, <1>3 DEF Callers, Begun, Finished
  <1>. QED
    BY <1>1, <1>4, <1>5, <1>6, <1>7 DEF ClientsInv, Log!Begin, Finished, vars

\* A client that starts again has looked at nothing.
LEMMA StartAgain ==
    ASSUME Callers, NEW c \in Client, Advance(c, "get_version"),
           phase[c] \in {"read_file", "write_file"}
    PROVE  Begun' = Begun \ {c} /\ Finished' = Finished /\ c \in Begun
  BY DEF Callers, Advance, Begun, Finished

\* The calls of one client leave what the others hold as it is.
LEMMA OthersHold ==
    ASSUME ClientsInv, NEW c \in Client, NEW x \in Client \ {c}, NEW next,
           Advance(c, next), behind' = behind \ {c} \/ UNCHANGED behind,
           UNCHANGED seen, text'[x] = text[x],
           \/ /\ fs'[Shared].content = fs[Shared].content
              /\ fs'[Shared].version = fs[Shared].version
           \/ /\ fs'[Shared].version = fs[Shared].version + 1
    PROVE  Holds(x)'
  <1>1. /\ Holds(x) /\ seen[x] \in Nat /\ fs[Shared].version \in Nat
        /\ phase'[x] = phase[x] /\ seen'[x] = seen[x]
        /\ x \in behind' <=> x \in behind
    BY ClientsAssumption DEF ClientsInv, Callers, Inv, TypeOK, Tree, Node, Advance
  <1>. QED
    BY <1>1 DEF Holds

LEMMA ReadFileStep ==
    ASSUME ClientsInv, NEW c \in Client, ReadFile(c)
    PROVE  ClientsInv' /\ (Log!GiveUp(c) \/ UNCHANGED Log!logVars)
  <1>1. /\ UNCHANGED <<vars, seen, resets>>
        /\ phase[c] = "read_file"
        /\ Callers
    BY DEF ReadFile, ClientsInv
  <1>2. fs[Shared].content \in Seq(Data)
    BY ClientsAssumption DEF ClientsInv, Inv, TypeOK, Tree, Node
  <1>3. Inv' /\ Unmounted' /\ Clean(fs)' /\ Clean(snap.fs)' /\ UNCHANGED fs
    <2>1. fs' = fs /\ snap' = snap /\ mounted' = mounted
      BY <1>1 DEF vars
    <2>2. Inv'
      BY <1>1, NextInv DEF ClientsInv
    <2>. QED
      BY <2>1, <2>2 DEF ClientsInv, Unmounted, Clean
  <1>4. CASE Advance(c, "get_version") /\ behind' = behind \ {c} /\ UNCHANGED text
    <2>1. Callers'
      BY <1>1, <1>4 DEF Callers, Advance
    <2>2. ASSUME NEW x \in Client
          PROVE  Holds(x)'
      <3>1. CASE x = c
        BY <1>1, <1>4, <3>1 DEF Callers, Advance, Holds
      <3>2. CASE x # c
        BY <1>1, <1>3, <1>4, <3>2, OthersHold
      <3>. QED
        BY <3>1, <3>2
    <2>3. Log!GiveUp(c)
      BY <1>1, <1>3, <1>4, StartAgain DEF Log!GiveUp, Finished
    <2>. QED
      BY <1>3, <2>1, <2>2, <2>3 DEF ClientsInv
  <1>5. CASE /\ Advance(c, "write_file")
             /\ text' = [text EXCEPT ![c] = fs[Shared].content]
             /\ UNCHANGED behind
    <2>1. Callers'
      BY <1>1, <1>2, <1>5 DEF Callers, Advance
    <2>2. ASSUME NEW x \in Client
          PROVE  Holds(x)'
      <3>1. CASE x = c
        <4>1. Holds(c)
          BY DEF ClientsInv
        <4>. QED
          BY <1>1, <1>3, <1>5, <3>1, <4>1 DEF Callers, Advance, Holds
      <3>2. CASE x # c
        <4>1. text'[x] = text[x]
          BY <1>1, <1>5, <3>2 DEF Callers
        <4>. QED
          BY <1>1, <1>3, <1>5, <3>2, <4>1, OthersHold
      <3>. QED
        BY <3>1, <3>2
    <2>3. Begun' = Begun /\ Finished' = Finished
      BY <1>1, <1>5 DEF Callers, Advance, Begun, Finished
    <2>. QED
      BY <1>3, <1>5, <2>1, <2>2, <2>3 DEF ClientsInv, Log!logVars, Finished
  <1>. QED
    BY <1>4, <1>5 DEF ReadFile

LEMMA WriteBackStep ==
    ASSUME ClientsInv, NEW c \in Client, WriteBack(c)
    PROVE  ClientsInv' /\ (Log!GiveUp(c) \/ Log!Add(c))
  <1>. DEFINE d == Append(text[c], c)
  <1>1. /\ Callers /\ Unmounted /\ Clean(snap.fs) /\ Inv /\ Holds(c)
        /\ c \in Data /\ Shared \in Path
    BY ClientsAssumption DEF ClientsInv
  <1>2. /\ phase[c] = "write_file"
        /\ WriteFile(Shared, d, FALSE, seen[c])
        /\ behind' = behind \ {c}
        /\ UNCHANGED <<seen, text, resets>>
        /\ Advance(c, IF res' = "ok" THEN "done" ELSE "get_version")
    BY DEF WriteBack
  <1>3. d \in Seq(Data) /\ seen[c] \in Nat
    BY <1>1 DEF Callers
  <1>. HIDE DEF d
  <1>4. Inv'
    BY <1>1, <1>2, <1>3, WriteFileInv
  <1>5. \/ res' = "error" /\ FileKept
        \/ /\ res' = "ok"
           /\ seen[c] = fs[Shared].version
           /\ fs'[Shared].content = d
           /\ fs'[Shared].version = seen[c] + 1
           /\ Clean(fs)'
           /\ UNCHANGED <<mounted, snap>>
    BY <1>2, <1>3, WriteOutcome
  <1>6. Unmounted' /\ Clean(fs)' /\ Clean(snap.fs)'
    BY <1>1, <1>5 DEF FileKept, Unmounted, Clean
  <1>7. Callers'
    BY <1>1, <1>2 DEF Callers, Advance
  <1>8. ASSUME NEW x \in Client
        PROVE  Holds(x)'
    <2>1. CASE x = c
      <3>1. phase'[c] \in {"done", "get_version"}
        BY <1>1, <1>2 DEF Callers, Advance
      <3>. QED
        BY <2>1, <3>1 DEF Holds
    <2>2. CASE x # c
      BY <1>2, <1>5, <2>2, OthersHold DEF FileKept
    <2>. QED
      BY <2>1, <2>2
  <1>9. CASE res' = "error" /\ FileKept
    <2>1. Begun' = Begun \ {c} /\ Finished' = Finished /\ c \in Begun
      BY <1>1, <1>2, <1>9, StartAgain
    <2>2. Log!GiveUp(c)
      BY <1>2, <1>9, <2>1 DEF Log!GiveUp, FileKept, Finished
    <2>. QED
      BY <1>4, <1>6, <1>7, <1>8, <2>2 DEF ClientsInv
  <1>10. CASE /\ res' = "ok"
              /\ seen[c] = fs[Shared].version
              /\ fs'[Shared].content = d
    <2>1. Begun' = Begun \ {c} /\ Finished' = Finished \cup {c} /\ c \in Begun
      BY <1>1, <1>2, <1>10 DEF Callers, Advance, Begun, Finished
    <2>2. c \notin behind => text[c] = fs[Shared].content
      BY <1>1, <1>2, <1>10 DEF Holds
    <2>3. c \notin behind => fs'[Shared].content = Append(fs[Shared].content, c)
      BY <1>10, <2>2 DEF d
    <2>4. Log!Add(c)
      BY <1>2, <2>1, <2>3 DEF Log!Add, Finished
    <2>. QED
      BY <1>4, <1>6, <1>7, <1>8, <2>4 DEF ClientsInv
  <1>. QED
    BY <1>5, <1>9, <1>10

\* After a reset nobody who has begun is promised anything.
LEMMA ResetStep ==
    ASSUME ClientsInv, ResetFile
    PROVE  ClientsInv' /\ Log!Reset
  <1>1. /\ Remove(Shared, FALSE) \/ Restore
        /\ resets' = resets + 1 /\ resets < MaxResets
        /\ behind' = Begun
        /\ UNCHANGED <<phase, seen, text>>
        /\ Callers /\ Clean(snap.fs)
    BY DEF ResetFile, ClientsInv
  <1>2. Inv' /\ Clean(fs)' /\ UNCHANGED snap /\ Unmounted'
    BY <1>1, ResetFacts
  <1>3. Clean(snap.fs)'
    BY <1>1, <1>2 DEF Clean
  <1>4. resets' \in 0..MaxResets
    BY <1>1, ClientsAssumption DEF Callers
  <1>5. Callers'
    BY <1>1, <1>4 DEF Callers, Begun
  <1>6. \A c \in Client : Holds(c)'
    BY <1>1 DEF Holds, Begun
  <1>7. Begun' = Begun /\ Finished' = Finished
    BY <1>1 DEF Begun, Finished
  <1>. QED
    BY <1>1, <1>2, <1>3, <1>5, <1>6, <1>7 DEF ClientsInv, Log!Reset, Finished

\* The clients stand still and the file keeps its text and version.
LEMMA FileKeptStep ==
    ASSUME ClientsInv, FileKept \/ UNCHANGED vars, Inv', Clean(snap.fs)', Unmounted',
           UNCHANGED clientVars
    PROVE  ClientsInv' /\ UNCHANGED Log!logVars
  <1>1. UNCHANGED <<phase, seen, text, behind, resets>> /\ Callers
    BY DEF clientVars, ClientsInv
  <1>2. /\ fs'[Shared].content = fs[Shared].content
        /\ fs'[Shared].version = fs[Shared].version
        /\ Clean(fs)'
    BY DEF FileKept, vars, ClientsInv, Clean
  <1>3. Callers'
    BY <1>1 DEF Callers
  <1>4. ASSUME NEW c \in Client
        PROVE  Holds(c)'
    <2>1. Holds(c)
      BY DEF ClientsInv
    <2>. QED
      BY <1>1, <1>2, <2>1 DEF Holds
  <1>5. Begun' = Begun /\ Finished' = Finished
    BY <1>1 DEF Begun, Finished
  <1>. QED
    BY <1>1, <1>2, <1>3, <1>4, <1>5 DEF ClientsInv, Log!logVars, Finished

LEMMA HostStepStep ==
    ASSUME ClientsInv, HostStep, UNCHANGED clientVars
    PROVE  ClientsInv' /\ UNCHANGED Log!logVars
  <1>1. Inv /\ Clean(fs) /\ Clean(snap.fs) /\ Unmounted /\ Shared \in Path
    BY ClientsAssumption DEF ClientsInv
  <1>2. CASE Snapshot
    <2>1. Inv'
      BY <1>1, <1>2, SnapshotInv
    <2>2. /\ snap'.fs = fs /\ snap'.mounted = mounted
          /\ UNCHANGED <<fs, mounted>>
      BY <1>2 DEF Snapshot
    <2>3. Clean(snap.fs)' /\ Unmounted' /\ Clean(fs)'
      BY <1>1, <2>2 DEF Clean, Unmounted
    <2>4. UNCHANGED <<phase, seen, text, behind, resets>> /\ Callers
      BY DEF clientVars, ClientsInv
    <2>5. Callers'
      BY <2>4 DEF Callers
    <2>6. ASSUME NEW c \in Client
          PROVE  Holds(c)'
      BY <2>2, <2>4 DEF Holds, ClientsInv
    <2>7. Begun' = Begun /\ Finished' = Finished
      BY <2>4 DEF Begun, Finished
    <2>. QED
      BY <2>1, <2>2, <2>3, <2>4, <2>5, <2>6, <2>7 DEF ClientsInv, Log!logVars, Finished
  <1>3. CASE Touch(Shared)
    <2>1. Inv'
      BY <1>1, <1>3, TouchInv
    <2>2. FileKept
      BY <1>3, TouchKeeps
    <2>3. Clean(snap.fs)' /\ Unmounted'
      BY <1>1, <2>2 DEF FileKept, Clean, Unmounted
    <2>. QED
      BY <2>1, <2>2, <2>3, FileKeptStep
  <1>. QED
    BY <1>2, <1>3 DEF HostStep

LEMMA ClientsNextStep ==
    ASSUME ClientsInv, [ClientsNext]_allVars
    PROVE  ClientsInv' /\ [Log!LogNext]_(Log!logVars)
  <1>1. CASE UNCHANGED allVars
    <2>1. UNCHANGED vars /\ UNCHANGED clientVars
      BY <1>1 DEF allVars
    <2>2. Inv'
      BY <2>1, NextInv DEF ClientsInv
    <2>3. Clean(snap.fs)' /\ Unmounted'
      BY <2>1 DEF vars, ClientsInv, Clean, Unmounted
    <2>. QED
      BY <2>1, <2>2, <2>3, FileKeptStep
  <1>2. ASSUME NEW c \in Client, GetVersion(c)
        PROVE  ClientsInv' /\ [Log!LogNext]_(Log!logVars)
    BY <1>2, GetVersionStep DEF Log!LogNext
  <1>3. ASSUME NEW c \in Client, ReadFile(c)
        PROVE  ClientsInv' /\ [Log!LogNext]_(Log!logVars)
    BY <1>3, ReadFileStep DEF Log!LogNext
  <1>4. ASSUME NEW c \in Client, WriteBack(c)
        PROVE  ClientsInv' /\ [Log!LogNext]_(Log!logVars)
    BY <1>4, WriteBackStep DEF Log!LogNext
  <1>5. CASE ResetFile
    BY <1>5, ResetStep DEF Log!LogNext
  <1>6. CASE HostStep /\ UNCHANGED clientVars
    BY <1>6, HostStepStep
  <1>. QED
    BY <1>1, <1>2, <1>3, <1>4, <1>5, <1>6 DEF ClientsNext, ClientStep

-----------------------------------------------------------------------------
LEMMA ClientsInvAlways ==
    ClientsSpec => []ClientsInv
  BY ClientsInitInv, ClientsNextStep, PTL DEF ClientsSpec

\* The file system and its clients keep their types, whoever is refused.
THEOREM ClientTypes ==
    ClientsSpec => []ClientsTypeOK
  <1>1. ClientsInv => ClientsTypeOK
    BY DEF ClientsInv, Inv, Callers, ClientsTypeOK
  <1>. QED
    BY <1>1, ClientsInvAlways, PTL

\* write_file with the version that get_version gave adds the client's piece to
\* the text that is there and to no other: reading, extending and writing is one
\* step, unless the file was reset in between.
THEOREM ClientsAddAtOnce ==
    ClientsSpec => AddsAtOnce
  <1>1. ClientsInit => Log!LogInit
    <2>1. SUFFICES ASSUME ClientsInit
                   PROVE  Log!LogInit
      OBVIOUS
    <2>2. /\ fs = EmptyTree
          /\ phase = [c \in Client |-> "get_version"]
          /\ behind = {}
      <3>1. Init /\ phase = [c \in Client |-> "get_version"] /\ behind = {}
        BY <2>1 DEF ClientsInit
      <3>. QED
        BY <3>1 DEF Init
    <2>3. fs[Shared].content = << >>
      BY <2>2, ClientsAssumption
         DEF EmptyTree, Absent, NewDir, NewFile, FileNode
    <2>4. Begun = {} /\ Finished = {}
      BY <2>2 DEF Begun, Finished
    <2>. QED
      BY <2>2, <2>3, <2>4 DEF Log!LogInit, Finished
  <1>. QED
    BY <1>1, ClientsInvAlways, ClientsNextStep, PTL
       DEF ClientsSpec, AddsAtOnce, Log!LogSpec
=============================================================================
