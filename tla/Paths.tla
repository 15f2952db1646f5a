------------------------------- MODULE Paths -------------------------------
(***************************************************************************)
(* Absolute paths of the virtual tree, after _normalize: the sequence of   *)
(* names from the root.  Path is the finite, prefix-closed universe in     *)
(* which a model works; an operation whose result would leave it is not    *)
(* taken (the bound on depth and names).                                   *)
(***************************************************************************)
EXTENDS Naturals, Sequences

CONSTANTS Name, Path

Root == <<>>

\* PurePosixPath.parent, for a path other than the root.
Parent(p) == SubSeq(p, 1, Len(p) - 1)

\* PurePosixPath.name.
BaseName(p) == p[Len(p)]

\* _path_matches_prefix: path.relative_to(prefix) succeeds.
Under(p, q) == Len(q) <= Len(p) /\ SubSeq(p, 1, Len(q)) = q

StrictlyUnder(p, q) == p # q /\ Under(p, q)

\* prefix.joinpath(path.relative_to(src)): where p goes when src becomes dst.
Rebase(p, src, dst) == dst \o SubSeq(p, Len(src) + 1, Len(p))

ASSUME PathAssumption ==
    /\ Path \subseteq Seq(Name)
    /\ \A p \in Path : \A n \in 0..Len(p) : SubSeq(p, 1, n) \in Path
    /\ Root \in Path
=============================================================================
