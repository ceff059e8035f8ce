-------------------------- MODULE MCAccountService --------------------------
(* The account service on small sets, for TLC. *)
EXTENDS AccountService, TLC

(* Clients and transaction ids are only compared for equality. *)
Symmetry == Permutations(ClientId) \cup Permutations(TransactionId)
=============================================================================
