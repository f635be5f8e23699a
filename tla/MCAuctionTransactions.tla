----------------------- MODULE MCAuctionTransactions -----------------------
(***************************************************************************)
(* Instances of AuctionTransactions for TLC.  Users, requests and workers  *)
(* are told apart only by name and every user starts with the same         *)
(* deposit, so the three sets are symmetric.                               *)
(***************************************************************************)
EXTENDS AuctionTransactions, TLC

Symmetry == Permutations(Users) \cup Permutations(Requests) \cup Permutations(Workers)
=============================================================================
