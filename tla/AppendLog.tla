----------------------------- MODULE AppendLog -----------------------------
(***************************************************************************)
(* What optimistic versions are for: clients that each add a piece of text *)
(* to a shared file by reading and writing it do so as if adding were one  *)
(* step.  Once the file was reset, that is removed or brought back to an   *)
(* earlier state, nothing is promised of the next write of a client that   *)
(* had begun before: versions start again, and its old one may match.      *)
(***************************************************************************)
EXTENDS Sequences

CONSTANT Client     \* each one is the piece that it adds

VARIABLES
    log,        \* the text
    begun,      \* the clients that have looked at the file
    behind,     \* those of them that did so before the last reset
    finished    \* the clients that have added their piece

logVars == <<log, begun, behind, finished>>

LogInit ==
    /\ log = << >>
    /\ begun = {}
    /\ behind = {}
    /\ finished = {}

Begin(c) ==
    /\ c \notin begun \cup finished
    /\ begun' = begun \cup {c}
    /\ UNCHANGED <<log, behind, finished>>

GiveUp(c) ==
    /\ c \in begun
    /\ begun' = begun \ {c}
    /\ behind' = behind \ {c}
    /\ UNCHANGED <<log, finished>>

Add(c) ==
    /\ c \in begun
    /\ c \notin behind => log' = Append(log, c)
    /\ begun' = begun \ {c}
    /\ behind' = behind \ {c}
    /\ finished' = finished \cup {c}

Reset ==
    /\ behind' = begun
    /\ UNCHANGED <<begun, finished>>

LogNext ==
    \/ \E c \in Client : Begin(c) \/ GiveUp(c) \/ Add(c)
    \/ Reset

LogSpec == LogInit /\ [][LogNext]_logVars
=============================================================================
