-------------------------- MODULE MCTreeAlgorithms --------------------------
(***************************************************************************)
(* An instance of TreeAlgorithms for TLC.                                  *)
(***************************************************************************)
EXTENDS MCVFS, TreeAlgorithms

SX == INSTANCE SequencesExt

\* Two directories with children, one of them with two.
FanPaths == {<< >>, <<"a">>, <<"b">>, <<"a", "a">>, <<"a", "b">>, <<"b", "a">>}
Fan == FanPaths

\* A directory that a restore may not fill, and two nodes that a removal may
\* stop at.
LockedFan == {<<"b">>, <<"a", "a">>, <<"a", "b">>} \X {Open, ReadOnly}

\* A mount at the root, whose adapter needs a for a file and for a directory.
AtRoot == {Root}
SeedRoot ==
    [m \in AtRoot |->
        [p \in Path |-> IF p \in {<<"a">>, <<"a", "a">>}
                        THEN StoredEntry(<<"x">>, 0) ELSE NoEntry]]

\* Every order of the paths, the root first.
FanOrderSet == {<<Root>> \o order : order \in SX!SetToSeqs(FanPaths \ {Root})}
FanOrders == FanOrderSet
=============================================================================
