----------------------------- MODULE MCHighway -----------------------------
(* Instances of Highway for TLC: a video of three chunks with a thumbnail of *)
(* one, and streams of two chunks and of one.                              *)
EXTENDS Highway

CONSTANTS t1, t2, t3

Lengths == [t \in Tasks |-> CASE t = t1 -> <<5, 2>> [] t = t2 -> <<3>> [] t = t3 -> <<2>>]

(* The second entity is announced as longer than it is.                    *)
DeclaredSizes == [t \in Tasks |-> CASE t = t1 -> <<5, 2>> [] t = t2 -> <<4>> [] t = t3 -> <<2>>]

=============================================================================
