------------------------------- MODULE MCVFS -------------------------------
(***************************************************************************)
(* Instances of VFS for TLC: universes of paths, policies and adapters.    *)
(***************************************************************************)
EXTENDS VFSProperties

\* Universes of paths.  TLC computes a definition without parameters once, but
\* one that a configuration puts in the place of a constant whenever it meets
\* the constant; hence a set and a name for it.

\* A directory and its child.
StemPaths == {<< >>, <<"a">>, <<"a", "b">>}
Stem == StemPaths

\* A directory that can hold a node with the name of its neighbour.
CombPaths == {<< >>, <<"a">>, <<"b">>, <<"a", "b">>}
Comb == CombPaths

\* A directory with two children, and room for one of them in its neighbour.
WidePaths == {<< >>, <<"a">>, <<"b">>, <<"a", "a">>, <<"a", "b">>, <<"b", "a">>}
Wide == WidePaths

\* A mount inside another, at a path where the outer adapter may have a file.
NestedPaths == {<< >>, <<"m">>, <<"m", "a">>, <<"m", "n">>, <<"m", "n", "a">>}
Nested == NestedPaths

ReadOnly   == [Open EXCEPT !.writable = FALSE]
AppendOnly == [Open EXCEPT !.append_only = TRUE]
Unreadable == [Open EXCEPT !.readable = FALSE]

AnyWrite == Path \X {Open, ReadOnly, AppendOnly}
OpenOrLocked == Path \X {Open, ReadOnly}

\* A file that a removal stops at, and a root that an index may not read.
LockedChildOrHiddenRoot ==
    ({<<"a", "b">>} \X {Open, ReadOnly}) \cup ({Root} \X {Open, Unreadable})

\* A directory that may be locked, and a root that an index may not read.
LockedDirOrHiddenRoot ==
    ({<<"a">>} \X {Open, ReadOnly}) \cup ({Root} \X {Open, Unreadable})

Nowhere == {}
Everywhere == {Root}
UnderA == {<<"a">>}
MountsMN == {<<"m">>, <<"m", "n">>}

\* What the adapters hold before they are mounted.
SeedMN ==
    [m \in MountsMN |->
        [p \in Path |-> IF m = <<"m">> /\ p = <<"m", "a">>
                        THEN StoredEntry(<<"x">>, 0) ELSE NoEntry]]
NoSeed == << >>

\* The run on index and mirror looks at the steps from states in which both are
\* in step with the tree; it follows no other state.
InStep == IndexInStep /\ MirrorInStep

\* Callers that give no version, and callers that give any.
Unchecked == {Unversioned}
Checked == {Unversioned} \cup 0..MaxVersion
=============================================================================
