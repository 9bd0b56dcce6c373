----------------------------- MODULE MCBusiness -----------------------------
(* Instances of Business for TLC.                                          *)
EXTENDS Business, TLC

CONSTANTS u1, u2, n1, n2, h1, p1

Users == {u1, u2}

(* User calls are interchangeable (none or all of them are cancellable).   *)
UserSymmetry == Permutations(Users)

=============================================================================
