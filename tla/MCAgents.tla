------------------------------ MODULE MCAgents ------------------------------
(***************************************************************************)
(* Instance of Agents: an RSA key that may be in the keyring and in the    *)
(* store, and one of another type that may be in the keyring.              *)
(***************************************************************************)
EXTENDS Agents, TLC

Symmetry == Permutations(Clients) \cup Permutations(Comments)
=============================================================================
