----------------------------- MODULE MCClients -----------------------------
(***************************************************************************)
(* An instance of Clients for TLC: three clients, one file.                *)
(***************************************************************************)
EXTENDS Clients

SharedPaths == {<< >>, <<"f">>}
OneFile == SharedPaths

Nowhere == {}
NoSeed == << >>
SharedFile == <<"f">>
=============================================================================
