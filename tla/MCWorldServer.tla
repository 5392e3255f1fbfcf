---------------------------- MODULE MCWorldServer ----------------------------
(***************************************************************************)
(* Two connections of one account and two names, with one thread of each   *)
(* kind and with two of one kind.  Neither connections nor names are told  *)
(* apart by anything in the model.                                         *)
(***************************************************************************)
EXTENDS WorldServer, TLC

MCThreads == {<<1, 1>>, <<1, 2>>, <<2, 1>>}

Symmetry == Permutations(Client) \union Permutations(Name)
=============================================================================
