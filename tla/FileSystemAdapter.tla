------------------------- MODULE FileSystemAdapter -------------------------
(***************************************************************************)
(* A storage mount over a FileSystemAdapter, for one file: the node in the *)
(* tree, the file on the disk of the host, and what the adapter remembers  *)
(* of it.  write_file, sync_storage and remove reach the disk in several   *)
(* calls of the operating system; between any two of them other programs   *)
(* may write the file or delete it.  Modification times come from a clock  *)
(* that may stand still between two writes.                                *)
(***************************************************************************)
EXTENDS Naturals

CONSTANTS
    Text,       \* what is written
    MaxClock,   \* bound: ticks of the clock
    MaxOthers,  \* bound: changes by other programs
    MaxWrites   \* bound: texts that the client wants to write

ASSUME AdapterAssumption ==
    /\ MaxClock \in Nat
    /\ MaxOthers \in Nat
    /\ MaxWrites \in Nat

VARIABLES
    disk,       \* the file under the adapter's root
    clock,      \* the file system's time
    known,      \* _versions and _mtimes of the file
    tree,       \* the file's node under the mount
    call,       \* the call of the file system that is under way
    want,       \* the text that the client still has to bring to the disk
    others,     \* how often other programs have changed the file
    writes,     \* how many texts the client has wanted to write
    news,       \* others changed the file since the tree last read or wrote it
    excused,    \* why the adapter need not notice that
    agreed      \* nobody else has changed the file since tree and disk agreed

vars == <<disk, clock, known, tree, call, want, others, writes, news, excused, agreed>>
history == <<news, excused, agreed>>

NoFile == [present |-> FALSE, text |-> "none", mtime |-> 0]
NoNode == [present |-> FALSE, text |-> "none", version |-> 0]
Unknown == [has |-> FALSE, version |-> 0, mtime |-> 0]

\* at is the next call of the operating system; version is the one that the
\* adapter is given, or has found out.
Idle == [op |-> "none", at |-> "none", version |-> 0, quiet |-> TRUE]

\* next is what the client does next about the text it wants to write.
Content == [on |-> FALSE, text |-> "none", next |-> "write"]

File == [present: BOOLEAN, text: Text \cup {"none"}, mtime: 0..MaxClock]
Memory == [has: BOOLEAN, version: Nat, mtime: 0..MaxClock]
Node == [present: BOOLEAN, text: Text \cup {"none"}, version: Nat]
Call == [op: {"none", "write", "sync", "remove"},
         at: {"none", "is_file", "exists", "stat", "write_text",
              "stat again", "read_text", "unlink"},
         version: Nat, quiet: BOOLEAN]
Wish == [on: BOOLEAN, text: Text \cup {"none"}, next: {"write", "sync"}]
Excuse == {"same time", "during the call", "failed write", "forgotten"}

AdapterTypeOK ==
    /\ disk \in File
    /\ clock \in 0..MaxClock
    /\ known \in Memory
    /\ tree \in Node
    /\ call \in Call
    /\ want \in Wish
    /\ others \in 0..MaxOthers
    /\ writes \in 0..MaxWrites
    /\ news \in BOOLEAN
    /\ excused \subseteq Excuse
    /\ agreed \in BOOLEAN

AdapterInit ==
    /\ disk = NoFile
    /\ clock = 0
    /\ known = Unknown
    /\ tree = NoNode
    /\ call = Idle
    /\ want = Content
    /\ others = 0
    /\ writes = 0
    /\ news = FALSE
    /\ excused = {}
    /\ agreed = TRUE

-----------------------------------------------------------------------------
(* Helpers of the calls. *)

Begin(op, at, version) ==
    call' = [op |-> op, at |-> at, version |-> version, quiet |-> TRUE]
GoTo(at, version) == call' = [call EXCEPT !.at = at, !.version = version]

At(op, at) == call.op = op /\ call.at = at

\* The client repeats a write that failed after a sync that did not.
Ends(result) ==
    /\ call' = Idle
    /\ want' = IF ~want.on THEN want
               ELSE IF call.op = "write" /\ result = "ok" THEN Content
               ELSE [want EXCEPT !.next = IF result = "ok" THEN "write" ELSE "sync"]

\* Slip: a new modification time is noted, but makes no new version.
TimeNoted(k, mtime) == [k EXCEPT !.has = TRUE, !.mtime = mtime]

\* Slip: every look at the file makes a new version.
LookedAt(k, mtime) == [has |-> TRUE, version |-> k.version + 1, mtime |-> mtime]

\* _refresh_version of a file that is there.
Refreshed(k, mtime) ==
    IF ~k.has THEN [has |-> TRUE, version |-> 0, mtime |-> mtime]
    ELSE IF k.mtime # mtime THEN [has |-> TRUE, version |-> k.version + 1, mtime |-> mtime]
    ELSE k

\* Slip: the version of the entry is not taken over.
UnversionedNode(text, version) == [present |-> TRUE, text |-> text, version |-> 0]

\* The node that _load_storage_mount makes of an entry.
NodeOfEntry(text, version) == [present |-> TRUE, text |-> text, version |-> version]

\* The call ends with the tree and the disk alike, unless others interfered.
NowAgreed == agreed' = (agreed \/ call.quiet)

-----------------------------------------------------------------------------
(* write_file: the node first, then adapter.write. *)

StartWrite ==
    /\ call = Idle /\ want.on /\ want.next = "write"
    /\ tree' = [present |-> TRUE, text |-> want.text, version |-> tree.version + 1]
    /\ Begin("write", "exists", tree.version)
    /\ UNCHANGED <<disk, clock, known, want, others, writes, history>>

\* Slip: the version is counted back from what it was.
CompareCountingBack(current) ==
    \/ current = call.version /\ GoTo("write_text", current) /\ UNCHANGED <<tree, want>>
    \/ /\ current # call.version
       /\ tree' = [tree EXCEPT !.version = call.version - 1]
       /\ Ends("conflict")

\* A ValueError puts the node's version back; the text stays.
Compare(current) ==
    \/ /\ current = call.version
       /\ GoTo("write_text", current)
       /\ UNCHANGED <<tree, want>>
    \/ /\ current # call.version
       /\ tree' = [tree EXCEPT !.version = call.version]
       /\ Ends("conflict")

\* The versions of a file that is gone start again at 0, the node's do not.
WriteExists ==
    /\ At("write", "exists")
    /\ \/ /\ disk.present
          /\ GoTo("stat", call.version)
          /\ UNCHANGED <<known, tree, want, excused>>
       \/ /\ ~disk.present
          /\ known' = Unknown
          /\ Compare(0)
          /\ excused' = excused \cup {"forgotten"}
    /\ UNCHANGED <<disk, clock, others, writes, news, agreed>>

\* FileNotFoundError is no ValueError: the node keeps the version it was to get.
WriteFails ==
    /\ ~disk.present
    /\ Ends("error")
    /\ excused' = excused \cup {"failed write"}
    /\ UNCHANGED <<known, tree, news, agreed>>

WriteStat ==
    /\ At("write", "stat")
    /\ \/ WriteFails
       \/ /\ disk.present
          /\ known' = Refreshed(known, disk.mtime)
          /\ Compare(known'.version)
          /\ UNCHANGED history
    /\ UNCHANGED <<disk, clock, others, writes>>

WriteText ==
    /\ At("write", "write_text")
    /\ disk' = [present |-> TRUE, text |-> tree.text, mtime |-> clock]
    /\ GoTo("stat again", call.version)
    /\ news' = FALSE
    /\ excused' = {}
    /\ UNCHANGED <<clock, known, tree, want, others, writes, agreed>>

WriteStatAgain ==
    /\ At("write", "stat again")
    /\ \/ WriteFails
       \/ /\ disk.present
          /\ known' = [has |-> TRUE, version |-> call.version + 1, mtime |-> disk.mtime]
          /\ Ends("ok")
          /\ NowAgreed
          /\ UNCHANGED <<tree, news, excused>>
    /\ UNCHANGED <<disk, clock, others, writes>>

-----------------------------------------------------------------------------
(* sync_storage: the children are dropped, then adapter.list. *)

StartSync ==
    /\ call = Idle /\ (want.on => want.next = "sync")
    /\ tree' = NoNode
    /\ Begin("sync", "is_file", 0)
    /\ UNCHANGED <<disk, clock, known, want, others, writes, history>>

\* rglob meets the file, or there is none to list: what is known of it stays.
SyncIsFile ==
    /\ At("sync", "is_file")
    /\ \/ disk.present /\ GoTo("exists", 0) /\ UNCHANGED <<want, history>>
       \/ ~disk.present /\ Ends("ok") /\ NowAgreed
          /\ news' = FALSE /\ excused' = {}
    /\ UNCHANGED <<disk, clock, known, tree, others, writes>>

SyncExists ==
    /\ At("sync", "exists")
    /\ \/ disk.present /\ GoTo("stat", 0) /\ UNCHANGED known
       \/ ~disk.present /\ known' = Unknown /\ GoTo("read_text", 0)
    /\ UNCHANGED <<disk, clock, tree, want, others, writes, history>>

SyncStat ==
    /\ At("sync", "stat")
    /\ \/ ~disk.present /\ Ends("error") /\ UNCHANGED known
       \/ /\ disk.present
          /\ known' = Refreshed(known, disk.mtime)
          /\ GoTo("read_text", known'.version)
          /\ UNCHANGED want
    /\ UNCHANGED <<disk, clock, tree, others, writes, history>>

SyncReadText ==
    /\ At("sync", "read_text")
    /\ \/ ~disk.present /\ Ends("error") /\ UNCHANGED <<tree, history>>
       \/ /\ disk.present
          /\ tree' = NodeOfEntry(disk.text, call.version)
          /\ Ends("ok")
          /\ NowAgreed
          /\ news' = FALSE /\ excused' = {}
    /\ UNCHANGED <<disk, clock, known, others, writes>>

-----------------------------------------------------------------------------
(* remove: the node first, then adapter.delete. *)

StartRemove ==
    /\ call = Idle /\ ~want.on /\ tree.present
    /\ tree' = NoNode
    /\ Begin("remove", "exists", 0)
    /\ UNCHANGED <<disk, clock, known, want, others, writes, history>>

RemoveExists ==
    /\ At("remove", "exists")
    /\ \/ disk.present /\ GoTo("unlink", 0) /\ UNCHANGED <<known, want, history>>
       \/ ~disk.present /\ known' = Unknown /\ Ends("ok") /\ NowAgreed
          /\ news' = FALSE /\ excused' = {}
    /\ UNCHANGED <<disk, clock, tree, others, writes>>

RemoveUnlink ==
    /\ At("remove", "unlink")
    /\ \/ ~disk.present /\ Ends("error") /\ UNCHANGED <<disk, known, history>>
       \/ disk.present /\ disk' = NoFile /\ known' = Unknown /\ Ends("ok") /\ NowAgreed
          /\ news' = FALSE /\ excused' = {}
    /\ UNCHANGED <<clock, tree, others, writes>>

-----------------------------------------------------------------------------
(* The client, the other programs, the clock. *)

\* The client wants to write a text, and sees it through or gives up.
Want(text) ==
    /\ call = Idle /\ ~want.on /\ writes < MaxWrites
    /\ writes' = writes + 1
    /\ want' = [on |-> TRUE, text |-> text, next |-> "write"]
    /\ UNCHANGED <<disk, clock, known, tree, call, others, history>>

GiveUp ==
    /\ call = Idle /\ want.on /\ want.next = "sync"
    /\ want' = Content
    /\ UNCHANGED <<disk, clock, known, tree, call, others, writes, history>>

\* The adapter cannot notice a change at the time it knows the file by, nor one
\* after it has compared versions.
Reasons ==
    (IF known.has /\ known.mtime = clock THEN {"same time"} ELSE {}) \cup
    (IF call.at \in {"write_text", "stat again"} THEN {"during the call"} ELSE {})

OtherChange ==
    /\ others < MaxOthers
    /\ others' = others + 1
    /\ news' = TRUE
    /\ excused' = excused \cup Reasons
    /\ agreed' = FALSE
    /\ call' = [call EXCEPT !.quiet = (call = Idle)]
    /\ UNCHANGED <<clock, known, tree, want, writes>>

OtherWrite(text) ==
    /\ disk' = [present |-> TRUE, text |-> text, mtime |-> clock]
    /\ OtherChange

OtherDelete ==
    /\ disk.present
    /\ disk' = NoFile
    /\ OtherChange

Tick ==
    /\ clock < MaxClock
    /\ clock' = clock + 1
    /\ UNCHANGED <<disk, known, tree, call, want, others, writes, history>>

\* What the client's thread does: its calls to their end, its retries.
ThreadStep ==
    \/ StartWrite \/ WriteExists \/ WriteStat \/ WriteText \/ WriteStatAgain
    \/ SyncIsFile \/ SyncExists \/ SyncStat \/ SyncReadText
    \/ RemoveExists \/ RemoveUnlink
    \/ want.on /\ StartSync

AdapterNext ==
    \/ ThreadStep
    \/ StartSync
    \/ StartRemove
    \/ GiveUp
    \/ \E text \in Text : Want(text) \/ OtherWrite(text)
    \/ OtherDelete
    \/ Tick

AdapterSpec == AdapterInit /\ [][AdapterNext]_vars /\ WF_vars(ThreadStep)

-----------------------------------------------------------------------------
(* What versions made of modification times are good for. *)

\* README: conflict detection.  A write that is accepted undoes what others have
\* made of the file unseen only for a file of version 0 (new in the tree, or
\* never changed since it was first listed), at the time the adapter knows it
\* by, between the adapter's comparison and its last stat, after a write that
\* ended in FileNotFoundError and left its version behind (vfs.py:231), or after
\* one that was refused because the file was gone: _refresh_version forgets its
\* version then (adapters.py), counts again from 0 and may come to the node's.
LostUpdatesAreExplained ==
    [][ WriteText /\ news => call.version = 0 \/ excused # {} ]_vars

\* A call that ends well and undisturbed leaves the disk with the text of the
\* tree and the adapter with its version, and so it stays until others act.
AgreementLasts ==
    call = Idle /\ agreed =>
        /\ tree.present = disk.present
        /\ tree.present => tree.text = disk.text /\ tree.version = known.version

\* A conflict tells of a change by others since tree and disk agreed.
ConflictMeansOthers == [][ want.next = "write" /\ want'.next = "sync" => ~agreed ]_vars

\* A client that syncs and repeats its write after each failure is not refused
\* for ever: it gets its text through when the others stop, unless it gives up.
WantedIsWritten == want.on ~> ~want.on
=============================================================================
