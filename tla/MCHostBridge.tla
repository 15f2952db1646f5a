---------------------------- MODULE MCHostBridge ----------------------------
(***************************************************************************)
(* An instance of HostBridge for TLC.                                      *)
(***************************************************************************)
EXTENDS MCVFS, HostBridge

\* The paths of Comb in their order.
CombRank ==
    [p \in CombPaths |->
        CHOOSE i \in 1..4 : <<<< >>, <<"a">>, <<"a", "b">>, <<"b">>>>[i] = p]

\* A text with the newlines of another system, and what is read of it.
Newlines == [d \in Data |-> IF d = "x_crlf" THEN "x" ELSE d]

\* Every tree that a process may leave: directories, and files of one piece.
HostNode(kind, content) == [kind |-> kind, content |-> content]
HostNodes ==
    {HostNode("none", << >>), HostNode("dir", << >>)} \cup {HostNode("file", d) : d \in Text}
Directories(h) == {p \in Path : h[p].kind = "dir"}
AnyTreeSet ==
    {h \in [Path -> HostNodes] :
        /\ h[Root].kind = "dir"
        /\ \A p \in Path \ {Root} : h[p].kind # "none" => Parent(p) \in Directories(h)}
AnyTree == AnyTreeSet

\* A child that may be locked or hidden.
LockedOrHiddenChild == {<<"a", "b">>} \X {Open, ReadOnly, Unreadable}
=============================================================================
