-------------------------- MODULE MCSessionStorage --------------------------
(***************************************************************************)
(* SessionStorage with two clients: they are alike, and so are the ids.    *)
(***************************************************************************)
EXTENDS SessionStorage, TLC

BothAlike == Permutations(Clients) \cup Permutations(Ids)
=============================================================================
