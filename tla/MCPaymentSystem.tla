---------------------------- MODULE MCPaymentSystem ----------------------------
(* Instances of PaymentSystem for TLC.                                     *)
EXTENDS Audit, Claims, Invariant, Bodies, TLC

Symmetry == Permutations(Request)
===============================================================================
