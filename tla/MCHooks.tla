------------------------------ MODULE MCHooks ------------------------------
(***************************************************************************)
(* An instance of Hooks for TLC: a directory, a file in it, and two hooks  *)
(* of each kind, one of all paths and one of the directory.                *)
(***************************************************************************)
EXTENDS Hooks, TLC

FolderPaths == {<< >>, <<"d">>, <<"d", "a">>}
Folder == FolderPaths

FolderFiles == {<<"d", "a">>}
InFolder == FolderFiles

AllThenFolder == << Root, <<"d">> >>

TextsAlike == Permutations(Data)
=============================================================================
