------------------------------ MODULE Clients ------------------------------
(***************************************************************************)
(* Hosts that share a file of VFS as the README tells them to: each reads  *)
(* the file's version and its text, and writes the text with its own piece *)
(* at the end, expecting that version; when the write is refused it starts *)
(* again.  The file system is single-threaded, but the clients' calls      *)
(* alternate in every way, and the file may be removed, or brought back to *)
(* an earlier state with the tree, between any two of them.                *)
(***************************************************************************)
EXTENDS VFS

CONSTANTS
    Client,     \* the clients, each one also the piece that it adds
    Shared,     \* the file
    MaxResets   \* bound: removals and restores

ASSUME ClientsAssumption ==
    /\ Client \subseteq Data
    /\ Shared \in Path \ {Root}
    /\ Unversioned \notin Nat
    /\ MaxResets \in Nat

VARIABLES
    phase,      \* the next call of each client
    seen,       \* the version it got
    text,       \* the text it got
    behind,     \* clients whose version is from before the last reset
    resets      \* how often the file was reset

clientVars == <<phase, seen, text, behind, resets>>
allVars == <<vars, clientVars>>

ClientsTypeOK ==
    /\ TypeOK
    /\ phase \in [Client -> {"get_version", "read_file", "write_file", "done"}]
    /\ seen \in [Client -> Nat]
    /\ text \in [Client -> Seq(Data)]
    /\ behind \subseteq Client
    /\ resets \in 0..MaxResets

ClientsInit ==
    /\ Init
    /\ phase = [c \in Client |-> "get_version"]
    /\ seen = [c \in Client |-> 0]
    /\ text = [c \in Client |-> << >>]
    /\ behind = {}
    /\ resets = 0

-----------------------------------------------------------------------------
(* The calls of a client. *)

Advance(c, next) == phase' = [phase EXCEPT ![c] = next]

\* A file that is not there yet is expected to be new: version 0, no text.
GetVersion(c) ==
    /\ phase[c] = "get_version"
    /\ \/ ~IsFile(fs, Shared) /\ Advance(c, "write_file")
          /\ seen' = [seen EXCEPT ![c] = 0]
          /\ text' = [text EXCEPT ![c] = << >>]
       \/ IsFile(fs, Shared) /\ Advance(c, "read_file")
          /\ seen' = [seen EXCEPT ![c] = fs[Shared].version]
          /\ UNCHANGED text
    /\ UNCHANGED <<vars, behind, resets>>

ReadFile(c) ==
    /\ phase[c] = "read_file"
    /\ \/ ~(IsFile(fs, Shared) /\ fs[Shared].policy.readable)
          /\ Advance(c, "get_version")
          /\ behind' = behind \ {c}
          /\ UNCHANGED text
       \/ IsFile(fs, Shared) /\ fs[Shared].policy.readable
          /\ Advance(c, "write_file")
          /\ text' = [text EXCEPT ![c] = fs[Shared].content]
          /\ UNCHANGED behind
    /\ UNCHANGED <<vars, seen, resets>>

\* A write that is refused sends the client back to the start.
WriteBack(c) ==
    /\ phase[c] = "write_file"
    /\ WriteFile(Shared, Append(text[c], c), FALSE, seen[c])
    /\ Advance(c, IF res' = "ok" THEN "done" ELSE "get_version")
    /\ behind' = behind \ {c}
    /\ UNCHANGED <<seen, text, resets>>

ClientStep(c) == GetVersion(c) \/ ReadFile(c) \/ WriteBack(c)

-----------------------------------------------------------------------------
(* The calls of the host around them. *)

Begun == {c \in Client : phase[c] \in {"read_file", "write_file"}}

ResetFile ==
    /\ Remove(Shared, FALSE) \/ Restore
    /\ resets < MaxResets
    /\ resets' = resets + 1
    /\ behind' = Begun
    /\ UNCHANGED <<phase, seen, text>>

HostStep == Snapshot \/ Touch(Shared)

ClientsNext ==
    \/ \E c \in Client : ClientStep(c)
    \/ ResetFile
    \/ HostStep /\ UNCHANGED clientVars
    \/ (\A c \in Client : phase[c] = "done") /\ UNCHANGED allVars

\* Every client makes its next call at some time.
ClientsSpec ==
    /\ ClientsInit
    /\ [][ClientsNext]_allVars
    /\ \A c \in Client : WF_allVars(ClientStep(c))

-----------------------------------------------------------------------------
(* What the versions guarantee. *)

\* README: use optimistic versions to avoid clobbering concurrent updates.  A
\* write that write_file accepts adds its piece to the text that is there, not
\* to the one its client had read, and each client adds its piece once.
Log == INSTANCE AppendLog WITH
    log <- fs[Shared].content,
    begun <- Begun,
    finished <- {c \in Client : phase[c] = "done"}

AddsAtOnce == Log!LogSpec

\* No client is refused for ever: a write is refused only when another one, or a
\* reset, came between (_check_version).
EveryClientFinishes == <>(\A c \in Client : phase[c] = "done")
=============================================================================
