------------------------------ MODULE MCCache ------------------------------
(* Instances of Cache for TLC: an answer has two pages, the bot and one    *)
(* other person are on the first, the third person is on the second.       *)
EXTENDS Cache, TLC

CONSTANTS me, ann, bob

PageOfPeople == [p \in {me, ann, bob} |-> IF p = bob THEN 2 ELSE 1]

TaskSymmetry == Permutations(Tasks)

=============================================================================
