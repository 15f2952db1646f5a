------------------------------ MODULE MCShell ------------------------------
(***************************************************************************)
(* Instance of Shell for TLC: a universe of paths with a storage mount and *)
(* lines that bring the commands, the pipes and the redirections together. *)
(***************************************************************************)
EXTENDS ShellProperties

ShellPaths == {<< >>, <<"a">>, <<"b">>, <<"a", "b">>, <<"m">>, <<"m", "a">>}
ShellUniverse == ShellPaths

PathA == <<"a">>
PathB == <<"b">>
PathAB == <<"a", "b">>
PathMA == <<"m", "a">>

Cmd(name, args) ==
    [name |-> name, operands |-> args, flag |-> FALSE, count |-> 1, text |-> << >>, piped |-> FALSE,
     stdin |-> NoFile, stdout |-> NoFile, append |-> FALSE]
Flag(c) == [c EXCEPT !.flag = TRUE]
Say(c) == [c EXCEPT !.text = <<"x">>]
From(c, p) == [c EXCEPT !.stdin = p]
To(c, p) == [c EXCEPT !.stdout = p]
AddTo(c, p) == [c EXCEPT !.stdout = p, !.append = TRUE]
Some(c, n) == [c EXCEPT !.count = n]
Piped(c) == [c EXCEPT !.piped = TRUE]

Echo == Say(Cmd("echo", << >>))
Cat(args) == Cmd("cat", args)

SomeLines == {
    \* touch b a/b
    << Cmd("touch", <<PathB, PathAB>>) >>,
    \* mkdir -p a; cp b a
    << Flag(Cmd("mkdir", <<PathA>>)), Cmd("cp", <<PathB, PathA>>) >>,
    \* rm -r b a
    << Flag(Cmd("rm", <<PathB, PathA>>)) >>,
    \* mv b a
    << Cmd("mv", <<PathB, PathA>>) >>,
    \* cp a b
    << Cmd("cp", <<PathA, PathB>>) >>,
    \* append b x; cat b a/b > b
    << Say(Cmd("append", <<PathB>>)), To(Cat(<<PathB, PathAB>>), PathB) >>,
    \* cat b > b
    << To(Cat(<<PathB>>), PathB) >>,
    \* echo x > m/a | cat < b >> m/a
    << To(Echo, PathMA), AddTo(From(Piped(Cat(<< >>)), PathB), PathMA) >>,
    \* echo x | cat >> b; nonsense
    << Echo, AddTo(Piped(Cat(<< >>)), PathB), Cmd("unknown", << >>) >>,
    \* tail -n 0 b | head -n 1 b m/a >> m/a
    << Some(Cmd("tail", <<PathB>>), 0), AddTo(Piped(Cmd("head", <<PathB, PathMA>>)), PathMA) >>,
    \* cat b b | head -n -1 | tail -n 1 > a
    << Cat(<<PathB, PathB>>), Some(Piped(Cmd("head", << >>)), -1),
       To(Piped(Cmd("tail", << >>)), PathA) >>,
    \* tail -n 1 b > b
    << To(Cmd("tail", <<PathB>>), PathB) >>,
    \* write b x, which is not allowed
    << Say(Cmd("write", <<PathB>>)) >>,
    \* cp b
    << Cmd("cp", <<PathB>>) >> }
ShellLines == SomeLines

ReadOnly == [Open EXCEPT !.writable = FALSE]
Unreadable == [Open EXCEPT !.readable = FALSE]
BranchLocks == ({PathB} \X {Open, Unreadable}) \cup ({PathAB} \X {Open, ReadOnly})

MountM == {<<"m">>}
SeedM ==
    [m \in MountM |->
        [p \in Path |-> IF p = PathMA THEN StoredEntry(<<"x">>, 0) ELSE NoEntry]]
AllButWrite == Commands \ {"write"}
NoPaths == {}
Unchecked == {Unversioned}
=============================================================================
