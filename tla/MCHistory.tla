------------------------------ MODULE MCHistory ------------------------------
(* Instances of History for TLC.                                           *)
EXTENDS History, Bodies, TLC

\* A payment each way between two wallets.
CrossingPayloads == {Pay(1, 2, 1, k1), Pay(2, 1, 1, k2)}

Symmetry == Permutations(Request)
===============================================================================
