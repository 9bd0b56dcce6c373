------------------------------ MODULE Sequence ------------------------------
(***************************************************************************)
(* SsoPacket::next_sequence (src/mania/src/core/packet.rs): threads take   *)
(* numbers from one atomic counter, whose first user moves it from 0 to a  *)
(* random offset.  The value 1 means "being initialised".  Every atomic    *)
(* operation is a step, and the counter has a fixed width.                 *)
(***************************************************************************)
EXTENDS Integers

CONSTANTS
    Threads,
    Width,     \* values of the counter: 2^32 in the code
    Offsets,   \* the offsets the initialiser can draw: 5000000..9900000
    MaxTaken   \* bound on the numbers taken in a behaviour

ASSUME SequenceAssumption ==
    /\ Width \in Nat /\ Width > 2
    /\ Offsets \subseteq 2 .. Width - 1
    /\ Offsets # {}
    /\ MaxTaken \in Nat

VARIABLES
    SEQUENCE,  \* the atomic counter
    pc,        \* where each thread is in next_sequence
    taken,     \* the numbers given out, a history variable
    count,     \* how many were given out
    start      \* the first offset drawn, 0 before

vars == <<SEQUENCE, pc, taken, count, start>>

TypeOK ==
    /\ SEQUENCE \in 0 .. Width - 1
    /\ pc \in [Threads -> {"idle", "draw", "spin", "add"}]
    /\ taken \subseteq 0 .. Width - 1
    /\ count \in Nat
    /\ start \in Offsets \cup {0}

Init ==
    /\ SEQUENCE = 0
    /\ pc = [t \in Threads |-> "idle"]
    /\ taken = {}
    /\ count = 0
    /\ start = 0

(* compare_exchange(0, 1): exactly one thread gets to draw the offset.     *)
Enter(t) ==
    /\ pc[t] = "idle"
    /\ count < MaxTaken
    /\ IF SEQUENCE = 0
         THEN SEQUENCE' = 1 /\ pc' = [pc EXCEPT ![t] = "draw"]
         ELSE SEQUENCE' = SEQUENCE /\ pc' = [pc EXCEPT ![t] = "spin"]
    /\ UNCHANGED <<taken, count, start>>

Draw(t) ==
    /\ pc[t] = "draw"
    /\ \E offset \in Offsets :
          /\ SEQUENCE' = offset
          /\ start' = IF start = 0 THEN offset ELSE start
    /\ pc' = [pc EXCEPT ![t] = "add"]
    /\ UNCHANGED <<taken, count>>

(* Mutant of Spin: the condition of the loop is inverted.                  *)
SpinInverted(t) ==
    /\ pc[t] = "spin"
    /\ SEQUENCE = 1
    /\ pc' = [pc EXCEPT ![t] = "add"]
    /\ UNCHANGED <<SEQUENCE, taken, count, start>>

(* The loop on load() == 1 ends when another value is read.                *)
Spin(t) ==
    /\ pc[t] = "spin"
    /\ SEQUENCE # 1
    /\ pc' = [pc EXCEPT ![t] = "add"]
    /\ UNCHANGED <<SEQUENCE, taken, count, start>>

(* Mutant of Add: no wrapping.                                             *)
AddUnbounded(t) ==
    /\ pc[t] = "add"
    /\ taken' = taken \cup {SEQUENCE}
    /\ count' = count + 1
    /\ SEQUENCE' = SEQUENCE + 1
    /\ pc' = [pc EXCEPT ![t] = "idle"]
    /\ UNCHANGED start

(* Mutant of Add: an increment that another thread's can overwrite.        *)
AddLost(t) ==
    /\ pc[t] = "add"
    /\ taken' = taken \cup {SEQUENCE}
    /\ count' = count + 1
    /\ SEQUENCE' \in {SEQUENCE, (SEQUENCE + 1) % Width}
    /\ pc' = [pc EXCEPT ![t] = "idle"]
    /\ UNCHANGED start

(* fetch_add(1) gives the value before, and wraps.                         *)
Add(t) ==
    /\ pc[t] = "add"
    /\ taken' = taken \cup {SEQUENCE}
    /\ count' = count + 1
    /\ SEQUENCE' = (SEQUENCE + 1) % Width
    /\ pc' = [pc EXCEPT ![t] = "idle"]
    /\ UNCHANGED start

Step(t) == Enter(t) \/ Draw(t) \/ Spin(t) \/ Add(t)

Next == \E t \in Threads : Step(t)

Spec == Init /\ [][Next]_vars

(* Every thread in next_sequence keeps running.                            *)
FairSpec == Spec /\ \A t \in Threads : WF_vars(Draw(t) \/ Spin(t) \/ Add(t))

-----------------------------------------------------------------------------
(* The counter has not come round to 0 since its first initialisation.     *)
FirstRound == start + count < Width

(* In the first round every caller gets a number of its own, and they are  *)
(* the ones that follow the offset, whoever initialised the counter        *)
(* (next_sequence, packet.rs).                                             *)
NumbersConsecutive ==
    FirstRound /\ count > 0 => taken = start .. start + count - 1

(* In the first round at most one thread draws an offset, while every      *)
(* other caller waits: none can take a number in between.                  *)
OneInitialiser ==
    FirstRound => \A t \in Threads : pc[t] = "draw" =>
        /\ SEQUENCE = 1
        /\ count = 0
        /\ \A u \in Threads \ {t} : pc[u] \in {"idle", "spin"}

(* In the first round no caller waits for ever.                            *)
CallersReturn ==
    [](FirstRound) => \A t \in Threads : (pc[t] # "idle") ~> (pc[t] = "idle")

(* The invariant behind the two: before the first offset is drawn nothing  *)
(* was taken and the counter is at 1 exactly while one thread draws; after *)
(* it the counter is ahead of the offset by what was taken.                *)
FirstRoundInv ==
    FirstRound =>
        /\ start = 0 =>
             /\ count = 0 /\ taken = {}
             /\ SEQUENCE \in {0, 1}
             /\ \A t \in Threads : pc[t] # "add"
             /\ SEQUENCE = 0 => \A t \in Threads : pc[t] = "idle"
             /\ \A t, u \in Threads : pc[t] = "draw" /\ pc[u] = "draw" => t = u
        /\ start # 0 =>
             /\ SEQUENCE = start + count
             /\ taken = start .. start + count - 1
             /\ \A t \in Threads : pc[t] # "draw"

=============================================================================
