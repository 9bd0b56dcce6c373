--------------------------- MODULE BusinessProofs ---------------------------
(* Proofs about module Business, for any sets of calls and pushes and any  *)
(* size of the sequence counter.                                           *)
EXTENDS Business, TLAPS

(* A number taken from the counter is one of its numbers.                  *)
LEMMA CounterRange == allocated \in Nat => allocated % SeqSpace \in CallSeqs
  BY SeqAssumption DEF CallSeqs

(* Until the counter comes round, the number taken is the count itself.    *)
LEMMA CounterIdentity ==
    ASSUME allocated \in Nat, allocated + 1 <= SeqSpace
    PROVE  allocated % SeqSpace = allocated
  BY SeqAssumption

(* What a dispatch task sends is a result.                                 *)
LEMMA ReplyType == \A q \in Packets : Reply(q) \in Results /\ Reply(q) # None
<1> SUFFICES ASSUME NEW q \in Packets PROVE Reply(q) \in Results
  BY CallsAssumption
<1>1. (task[q] = "reply_ok") \in BOOLEAN
  OBVIOUS
<1> QED BY <1>1, Zenon DEF Reply, Results

(* Every step keeps every variable in its type: in particular the pending  *)
(* table only ever holds calls of send_event, under numbers the counter or *)
(* a push can have.                                                        *)
LEMMA TypeStep == TypeOK /\ [Next]_vars => TypeOK'
<1> SUFFICES ASSUME TypeOK, [Next]_vars PROVE TypeOK'
  OBVIOUS
<1> USE CallsAssumption, SeqAssumption
    DEF TypeOK, Calls, SendCalls, Packets, CallStates, WireStates, TaskStates, Goto
<1>1. ASSUME NEW c \in Calls, CallStep(c) PROVE TypeOK'
  <2>1. CASE Invoke(c) BY <2>1 DEF Invoke
  <2>2. CASE PrepareFails(c) BY <2>2 DEF PrepareFails
  <2>3. CASE Build(c) BY <2>3, CounterRange DEF Build, Seqs
  <2>4. CASE Register(c) BY <2>4 DEF Register
  <2>5. CASE CheckToken(c) BY <2>5 DEF CheckToken
  <2>6. CASE Post(c) BY <2>6 DEF Post
  <2>7. CASE PostPanics(c) BY <2>7 DEF PostPanics
  <2>8. CASE Return(c) BY <2>8 DEF Return
  <2>9. CASE ReturnPanics(c) BY <2>9 DEF ReturnPanics
  <2>10. CASE Cancel(c) BY <2>10 DEF Cancel
  <2> QED BY <1>1, <2>1, <2>2, <2>3, <2>4, <2>5, <2>6, <2>7, <2>8, <2>9, <2>10 DEF CallStep
<1>2. CASE LoopStep
  BY <1>2 DEF LoopStep, LoopCheck, LoopTake, LoopPanics
<1>3. ASSUME NEW p \in Packets, TaskStep(p) PROVE TypeOK'
  <2>1. ASSUME NEW c \in NestedCalls, StartNested(p, c) PROVE TypeOK'
    BY <2>1 DEF StartNested
  <2>2. CASE EndNested(p) BY <2>2 DEF EndNested
  <2>3. CASE EndLogic(p) BY <2>3 DEF EndLogic
  <2>4. CASE Finish(p) BY <2>4 DEF Finish, Reply, Results, Over
  <2> QED BY <1>3, <2>1, <2>2, <2>3, <2>4 DEF TaskStep
<1>4. CASE ServerStep
  BY <1>4 DEF ServerStep, Answer, Refuse, Push, Seqs
<1>5. CASE Break BY <1>5 DEF Break
<1>6. CASE Close BY <1>6 DEF Close
<1>7. CASE UNCHANGED vars BY <1>7 DEF vars
<1> QED BY <1>1, <1>2, <1>3, <1>4, <1>5, <1>6, <1>7 DEF Next

THEOREM TypeCorrect == Spec => []TypeOK
<1>1. Init => TypeOK
  BY CallsAssumption, SeqAssumption
  DEF Init, TypeOK, CallStates, WireStates, TaskStates, Calls, SendCalls, Packets
<1> QED BY <1>1, TypeStep, PTL DEF Spec

(* A call leaves no trace before it takes a number and registers.         *)
LEMMA FreshStep ==
    ASSUME TypeOK, FreshCalls, EntryOfRegistered, SeqOrigin, [Next]_vars PROVE FreshCalls'
<1> USE CallsAssumption, SeqAssumption
    DEF TypeOK, Calls, SendCalls, Packets, Goto, FreshCalls, EntryOfRegistered, SeqOrigin
<1>1. ASSUME NEW x \in Calls, CallStep(x) PROVE FreshCalls'
  <2>1. CASE Invoke(x) BY <2>1 DEF Invoke
  <2>2. CASE PrepareFails(x) BY <2>2 DEF PrepareFails
  <2>3. CASE Build(x) BY <2>3, CounterRange DEF Build, Seqs
  <2>4. CASE Register(x) BY <2>4 DEF Register
  <2>5. CASE CheckToken(x) BY <2>5 DEF CheckToken
  <2>6. CASE Post(x) BY <2>6 DEF Post
  <2>7. CASE PostPanics(x) BY <2>7 DEF PostPanics
  <2>8. CASE Return(x) BY <2>8 DEF Return
  <2>9. CASE ReturnPanics(x) BY <2>9 DEF ReturnPanics
  <2>10. CASE Cancel(x) BY <2>10 DEF Cancel
  <2> QED BY <1>1, <2>1, <2>2, <2>3, <2>4, <2>5, <2>6, <2>7, <2>8, <2>9, <2>10 DEF CallStep
<1>2. CASE LoopStep
  <2>1. CASE LoopCheck BY <2>1 DEF LoopCheck
  <2>2. ASSUME NEW q \in Packets, LoopTake(q) PROVE FreshCalls'
    BY <2>2 DEF LoopTake
  <2>3. CASE LoopPanics BY <2>3 DEF LoopPanics
  <2> QED BY <1>2, <2>1, <2>2, <2>3 DEF LoopStep
<1>3. ASSUME NEW q \in Packets, TaskStep(q) PROVE FreshCalls'
  <2>1. ASSUME NEW x \in NestedCalls, StartNested(q, x) PROVE FreshCalls'
    BY <2>1 DEF StartNested
  <2>2. CASE EndNested(q) BY <2>2 DEF EndNested
  <2>3. CASE EndLogic(q) BY <2>3 DEF EndLogic
  <2>4. CASE Finish(q) BY <2>4 DEF Finish, Reply, Over
  <2> QED BY <1>3, <2>1, <2>2, <2>3, <2>4 DEF TaskStep
<1>4. CASE ServerStep
  <2>1. ASSUME NEW x \in Calls, Answer(x) \/ Refuse(x) PROVE FreshCalls'
    BY <2>1 DEF Answer, Refuse
  <2>2. ASSUME NEW q \in Pushes, Push(q) PROVE FreshCalls'
    BY <2>2 DEF Push
  <2> QED BY <1>4, <2>1, <2>2 DEF ServerStep
<1>5. CASE Break BY <1>5 DEF Break
<1>6. CASE Close BY <1>6 DEF Close
<1>7. CASE UNCHANGED vars BY <1>7 DEF vars
<1> QED BY <1>1, <1>2, <1>3, <1>4, <1>5, <1>6, <1>7 DEF Next

(* An entry of the table belongs to a registered call without a result.    *)
LEMMA EntryStep ==
    ASSUME TypeOK, FreshCalls, EntryOfRegistered, SeqOrigin, [Next]_vars PROVE EntryOfRegistered'
<1> USE CallsAssumption, SeqAssumption
    DEF TypeOK, Calls, SendCalls, Packets, Goto, FreshCalls, EntryOfRegistered, SeqOrigin
<1>1. ASSUME NEW x \in Calls, CallStep(x) PROVE EntryOfRegistered'
  <2>1. CASE Invoke(x) BY <2>1 DEF Invoke
  <2>2. CASE PrepareFails(x) BY <2>2 DEF PrepareFails
  <2>3. CASE Build(x) BY <2>3 DEF Build
  <2>4. CASE Register(x) BY <2>4 DEF Register
  <2>5. CASE CheckToken(x) BY <2>5 DEF CheckToken
  <2>6. CASE Post(x) BY <2>6 DEF Post
  <2>7. CASE PostPanics(x) BY <2>7 DEF PostPanics
  <2>8. CASE Return(x) BY <2>8 DEF Return
  <2>9. CASE ReturnPanics(x) BY <2>9 DEF ReturnPanics
  <2>10. CASE Cancel(x) BY <2>10 DEF Cancel
  <2> QED BY <1>1, <2>1, <2>2, <2>3, <2>4, <2>5, <2>6, <2>7, <2>8, <2>9, <2>10 DEF CallStep
<1>2. CASE LoopStep
  <2>1. CASE LoopCheck BY <2>1 DEF LoopCheck
  <2>2. ASSUME NEW q \in Packets, LoopTake(q) PROVE EntryOfRegistered'
    BY <2>2 DEF LoopTake
  <2>3. CASE LoopPanics BY <2>3 DEF LoopPanics
  <2> QED BY <1>2, <2>1, <2>2, <2>3 DEF LoopStep
<1>3. ASSUME NEW q \in Packets, TaskStep(q) PROVE EntryOfRegistered'
  <2>1. ASSUME NEW x \in NestedCalls, StartNested(q, x) PROVE EntryOfRegistered'
    BY <2>1 DEF StartNested
  <2>2. CASE EndNested(q) BY <2>2 DEF EndNested
  <2>3. CASE EndLogic(q) BY <2>3 DEF EndLogic
  <2>4. CASE Finish(q) BY <2>4 DEF Finish, Reply, Over
  <2> QED BY <1>3, <2>1, <2>2, <2>3, <2>4 DEF TaskStep
<1>4. CASE ServerStep
  <2>1. ASSUME NEW x \in Calls, Answer(x) \/ Refuse(x) PROVE EntryOfRegistered'
    BY <2>1 DEF Answer, Refuse
  <2>2. ASSUME NEW q \in Pushes, Push(q) PROVE EntryOfRegistered'
    <3>1. \A c \in Calls : seq'[c] = seq[c]
      BY <2>2 DEF Push
    <3>2. pending' = pending /\ call' = call /\ slot' = slot
      BY <2>2 DEF Push
    <3> QED BY <3>1, <3>2
  <2> QED BY <1>4, <2>1, <2>2 DEF ServerStep
<1>5. CASE Break BY <1>5 DEF Break
<1>6. CASE Close BY <1>6 DEF Close
<1>7. CASE UNCHANGED vars BY <1>7 DEF vars
<1> QED BY <1>1, <1>2, <1>3, <1>4, <1>5, <1>6, <1>7 DEF Next

(* Calls are numbered by the counter, pushes are not, and only a packet    *)
(* that was taken has a dispatch task.                                     *)
LEMMA OriginStep ==
    ASSUME TypeOK, FreshCalls, SeqOrigin, [Next]_vars PROVE SeqOrigin'
<1> USE CallsAssumption, SeqAssumption
    DEF TypeOK, Calls, SendCalls, Packets, Goto, FreshCalls, SeqOrigin
<1>1. ASSUME NEW x \in Calls, CallStep(x) PROVE SeqOrigin'
  <2>1. CASE Invoke(x) BY <2>1 DEF Invoke
  <2>2. CASE PrepareFails(x) BY <2>2 DEF PrepareFails
  <2>3. CASE Build(x) BY <2>3, CounterRange DEF Build
  <2>4. CASE Register(x) BY <2>4 DEF Register
  <2>5. CASE CheckToken(x) BY <2>5 DEF CheckToken
  <2>6. CASE Post(x) BY <2>6 DEF Post
  <2>7. CASE PostPanics(x) BY <2>7 DEF PostPanics
  <2>8. CASE Return(x) BY <2>8 DEF Return
  <2>9. CASE ReturnPanics(x) BY <2>9 DEF ReturnPanics
  <2>10. CASE Cancel(x) BY <2>10 DEF Cancel
  <2> QED BY <1>1, <2>1, <2>2, <2>3, <2>4, <2>5, <2>6, <2>7, <2>8, <2>9, <2>10 DEF CallStep
<1>2. CASE LoopStep
  <2>1. CASE LoopCheck BY <2>1 DEF LoopCheck
  <2>2. ASSUME NEW q \in Packets, LoopTake(q) PROVE SeqOrigin'
    BY <2>2 DEF LoopTake
  <2>3. CASE LoopPanics BY <2>3 DEF LoopPanics
  <2> QED BY <1>2, <2>1, <2>2, <2>3 DEF LoopStep
<1>3. ASSUME NEW q \in Packets, TaskStep(q) PROVE SeqOrigin'
  <2>1. ASSUME NEW x \in NestedCalls, StartNested(q, x) PROVE SeqOrigin'
    BY <2>1 DEF StartNested
  <2>2. CASE EndNested(q) BY <2>2 DEF EndNested
  <2>3. CASE EndLogic(q) BY <2>3 DEF EndLogic
  <2>4. CASE Finish(q) BY <2>4 DEF Finish
  <2> QED BY <1>3, <2>1, <2>2, <2>3, <2>4 DEF TaskStep
<1>4. CASE ServerStep
  <2>1. ASSUME NEW x \in Calls, Answer(x) \/ Refuse(x) PROVE SeqOrigin'
    BY <2>1 DEF Answer, Refuse
  <2>2. ASSUME NEW q \in Pushes, Push(q) PROVE SeqOrigin'
    <3>1. PICK s \in PushSeqs : seq' = [seq EXCEPT ![q] = s]
      BY <2>2 DEF Push
    <3>2. /\ \A c \in Calls : seq'[c] = seq[c]
          /\ \A p \in Packets : seq'[p] = IF p = q THEN s ELSE seq[p]
          /\ s # None
      BY <3>1 DEF Seqs
    <3> QED BY <2>2, <3>1, <3>2 DEF Push
  <2> QED BY <1>4, <2>1, <2>2 DEF ServerStep
<1>5. CASE Break BY <1>5 DEF Break
<1>6. CASE Close BY <1>6 DEF Close
<1>7. CASE UNCHANGED vars BY <1>7 DEF vars
<1> QED BY <1>1, <1>2, <1>3, <1>4, <1>5, <1>6, <1>7 DEF Next

(* Calls have distinct numbers until the counter comes round.              *)
LEMMA UniqueStep ==
    ASSUME TypeOK, FreshCalls, SeqOrigin, SeqUnique, [Next]_vars PROVE SeqUnique'
<1> USE CallsAssumption, SeqAssumption
    DEF TypeOK, Calls, SendCalls, Packets, Goto, FreshCalls, SeqOrigin, SeqUnique, NoReuse
<1>1. ASSUME NEW x \in Calls, CallStep(x) PROVE SeqUnique'
  <2>1. CASE Invoke(x) BY <2>1 DEF Invoke
  <2>2. CASE PrepareFails(x) BY <2>2 DEF PrepareFails
  <2>3. CASE Build(x)
    <3>1. NoReuse' => allocated % SeqSpace = allocated /\ NoReuse
      BY <2>3, CounterIdentity DEF Build
    <3>2. allocated' = allocated + 1 /\ seq' = [seq EXCEPT ![x] = allocated % SeqSpace]
      BY <2>3 DEF Build
    <3>3. \A c \in Calls : seq[c] # None => seq[c] \in Nat
      BY DEF CallSeqs
    <3>4. allocated \in Nat /\ allocated % SeqSpace # None
      BY CounterRange DEF Seqs
    <3>5. ASSUME NoReuse', NEW c \in Calls, NEW d \in Calls,
                 seq'[c] # None, seq'[c] = seq'[d]
          PROVE  seq'[c] < allocated' /\ c = d
      BY <3>1, <3>2, <3>3, <3>4, <3>5
    <3> QED BY <3>5
  <2>4. CASE Register(x) BY <2>4 DEF Register
  <2>5. CASE CheckToken(x) BY <2>5 DEF CheckToken
  <2>6. CASE Post(x) BY <2>6 DEF Post
  <2>7. CASE PostPanics(x) BY <2>7 DEF PostPanics
  <2>8. CASE Return(x) BY <2>8 DEF Return
  <2>9. CASE ReturnPanics(x) BY <2>9 DEF ReturnPanics
  <2>10. CASE Cancel(x) BY <2>10 DEF Cancel
  <2> QED BY <1>1, <2>1, <2>2, <2>3, <2>4, <2>5, <2>6, <2>7, <2>8, <2>9, <2>10 DEF CallStep
<1>2. CASE LoopStep
  <2>1. CASE LoopCheck BY <2>1 DEF LoopCheck
  <2>2. ASSUME NEW q \in Packets, LoopTake(q) PROVE SeqUnique'
    BY <2>2 DEF LoopTake
  <2>3. CASE LoopPanics BY <2>3 DEF LoopPanics
  <2> QED BY <1>2, <2>1, <2>2, <2>3 DEF LoopStep
<1>3. ASSUME NEW q \in Packets, TaskStep(q) PROVE SeqUnique'
  <2>1. ASSUME NEW x \in NestedCalls, StartNested(q, x) PROVE SeqUnique'
    BY <2>1 DEF StartNested
  <2>2. CASE EndNested(q) BY <2>2 DEF EndNested
  <2>3. CASE EndLogic(q) BY <2>3 DEF EndLogic
  <2>4. CASE Finish(q) BY <2>4 DEF Finish
  <2> QED BY <1>3, <2>1, <2>2, <2>3, <2>4 DEF TaskStep
<1>4. CASE ServerStep
  <2>1. ASSUME NEW x \in Calls, Answer(x) \/ Refuse(x) PROVE SeqUnique'
    BY <2>1 DEF Answer, Refuse
  <2>2. ASSUME NEW q \in Pushes, Push(q) PROVE SeqUnique'
    BY <2>2 DEF Push
  <2> QED BY <1>4, <2>1, <2>2 DEF ServerStep
<1>5. CASE Break BY <1>5 DEF Break
<1>6. CASE Close BY <1>6 DEF Close
<1>7. CASE UNCHANGED vars BY <1>7 DEF vars
<1> QED BY <1>1, <1>2, <1>3, <1>4, <1>5, <1>6, <1>7 DEF Next

(* A result always comes from the answer to the call it is given to.       *)
LEMMA OwnStep ==
    ASSUME TypeOK, EntryOfRegistered, SeqOrigin, SeqUnique, OwnAnswer, [Next]_vars PROVE OwnAnswer'
<1> USE CallsAssumption, SeqAssumption
    DEF TypeOK, Calls, SendCalls, Packets, Goto, EntryOfRegistered, SeqOrigin, SeqUnique, OwnAnswer, NoReuse
<1>1. ASSUME NEW x \in Calls, CallStep(x) PROVE OwnAnswer'
  <2>1. CASE Invoke(x) BY <2>1 DEF Invoke
  <2>2. CASE PrepareFails(x) BY <2>2 DEF PrepareFails
  <2>3. CASE Build(x) BY <2>3 DEF Build
  <2>4. CASE Register(x) BY <2>4 DEF Register
  <2>5. CASE CheckToken(x) BY <2>5 DEF CheckToken
  <2>6. CASE Post(x) BY <2>6 DEF Post
  <2>7. CASE PostPanics(x) BY <2>7 DEF PostPanics
  <2>8. CASE Return(x) BY <2>8 DEF Return
  <2>9. CASE ReturnPanics(x) BY <2>9 DEF ReturnPanics
  <2>10. CASE Cancel(x) BY <2>10 DEF Cancel
  <2> QED BY <1>1, <2>1, <2>2, <2>3, <2>4, <2>5, <2>6, <2>7, <2>8, <2>9, <2>10 DEF CallStep
<1>2. CASE LoopStep
  <2>1. CASE LoopCheck BY <2>1 DEF LoopCheck
  <2>2. ASSUME NEW q \in Packets, LoopTake(q) PROVE OwnAnswer'
    BY <2>2 DEF LoopTake
  <2>3. CASE LoopPanics BY <2>3 DEF LoopPanics
  <2> QED BY <1>2, <2>1, <2>2, <2>3 DEF LoopStep
<1>3. ASSUME NEW q \in Packets, TaskStep(q) PROVE OwnAnswer'
  <2>1. ASSUME NEW x \in NestedCalls, StartNested(q, x) PROVE OwnAnswer'
    BY <2>1 DEF StartNested
  <2>2. CASE EndNested(q) BY <2>2 DEF EndNested
  <2>3. CASE EndLogic(q) BY <2>3 DEF EndLogic
  <2>4. CASE Finish(q) BY <2>4 DEF Finish, Reply, Over, Results
  <2> QED BY <1>3, <2>1, <2>2, <2>3, <2>4 DEF TaskStep
<1>4. CASE ServerStep
  <2>1. ASSUME NEW x \in Calls, Answer(x) \/ Refuse(x) PROVE OwnAnswer'
    BY <2>1 DEF Answer, Refuse
  <2>2. ASSUME NEW q \in Pushes, Push(q) PROVE OwnAnswer'
    BY <2>2 DEF Push
  <2> QED BY <1>4, <2>1, <2>2 DEF ServerStep
<1>5. CASE Break BY <1>5 DEF Break
<1>6. CASE Close BY <1>6 DEF Close
<1>7. CASE UNCHANGED vars BY <1>7 DEF vars
<1> QED BY <1>1, <1>2, <1>3, <1>4, <1>5, <1>6, <1>7 DEF Next

(* A call on its way to its answer stays in the table.                     *)
LEMMA ActiveStep ==
    ASSUME TypeOK, FreshCalls, EntryOfRegistered, SeqOrigin, SeqUnique, ActiveIsRegistered, [Next]_vars PROVE ActiveIsRegistered'
<1> USE CallsAssumption, SeqAssumption
    DEF TypeOK, Calls, SendCalls, Packets, Goto, FreshCalls, EntryOfRegistered, SeqOrigin, SeqUnique, ActiveIsRegistered, NoReuse
<1>1. ASSUME NEW x \in Calls, CallStep(x) PROVE ActiveIsRegistered'
  <2>1. CASE Invoke(x) BY <2>1 DEF Invoke
  <2>2. CASE PrepareFails(x) BY <2>2 DEF PrepareFails
  <2>3. CASE Build(x) BY <2>3 DEF Build
  <2>4. CASE Register(x) BY <2>4 DEF Register
  <2>5. CASE CheckToken(x) BY <2>5 DEF CheckToken
  <2>6. CASE Post(x) BY <2>6 DEF Post
  <2>7. CASE PostPanics(x) BY <2>7 DEF PostPanics
  <2>8. CASE Return(x) BY <2>8 DEF Return
  <2>9. CASE ReturnPanics(x) BY <2>9 DEF ReturnPanics
  <2>10. CASE Cancel(x) BY <2>10 DEF Cancel
  <2> QED BY <1>1, <2>1, <2>2, <2>3, <2>4, <2>5, <2>6, <2>7, <2>8, <2>9, <2>10 DEF CallStep
<1>2. CASE LoopStep
  <2>1. CASE LoopCheck BY <2>1 DEF LoopCheck
  <2>2. ASSUME NEW q \in Packets, LoopTake(q) PROVE ActiveIsRegistered'
    BY <2>2 DEF LoopTake
  <2>3. CASE LoopPanics BY <2>3 DEF LoopPanics
  <2> QED BY <1>2, <2>1, <2>2, <2>3 DEF LoopStep
<1>3. ASSUME NEW q \in Packets, TaskStep(q) PROVE ActiveIsRegistered'
  <2>1. ASSUME NEW x \in NestedCalls, StartNested(q, x) PROVE ActiveIsRegistered'
    BY <2>1 DEF StartNested
  <2>2. CASE EndNested(q) BY <2>2 DEF EndNested
  <2>3. CASE EndLogic(q) BY <2>3 DEF EndLogic
  <2>4. CASE Finish(q)
    <3> DEFINE r == pending[seq[q]]
    <3>1. pending' = [pending EXCEPT ![seq[q]] = None]
      BY <2>4 DEF Finish
    <3>2. slot' = IF r # None /\ ~Over(r) THEN [slot EXCEPT ![r] = Reply(q)] ELSE slot
      BY <2>4 DEF Finish
    <3>3. call' = call /\ seq' = seq /\ allocated' = allocated
      BY <2>4 DEF Finish
    <3>4. Reply(q) # None
      BY ReplyType
    <3>5. ASSUME NoReuse', NEW d \in SendCalls,
                 call[d] \in {"check", "posting", "await"}, slot'[d] = None
          PROVE  pending'[seq[d]] = d
      <4>1. slot[d] = None
        BY <3>2, <3>4, <3>5
      <4>2. pending[seq[d]] = d
        BY <3>3, <3>5, <4>1
      <4>3. CASE seq[d] = seq[q]
        BY <3>2, <3>4, <3>5, <4>2, <4>3 DEF Over
      <4>4. CASE seq[d] # seq[q]
        BY <3>1, <4>2, <4>4
      <4> QED BY <4>3, <4>4
    <3> QED BY <3>3, <3>5
  <2> QED BY <1>3, <2>1, <2>2, <2>3, <2>4 DEF TaskStep
<1>4. CASE ServerStep
  <2>1. ASSUME NEW x \in Calls, Answer(x) \/ Refuse(x) PROVE ActiveIsRegistered'
    BY <2>1 DEF Answer, Refuse
  <2>2. ASSUME NEW q \in Pushes, Push(q) PROVE ActiveIsRegistered'
    BY <2>2 DEF Push
  <2> QED BY <1>4, <2>1, <2>2 DEF ServerStep
<1>5. CASE Break BY <1>5 DEF Break
<1>6. CASE Close BY <1>6 DEF Close
<1>7. CASE UNCHANGED vars BY <1>7 DEF vars
<1> QED BY <1>1, <1>2, <1>3, <1>4, <1>5, <1>6, <1>7 DEF Next

-----------------------------------------------------------------------------
LEMMA InitTable == Init => TableInv
  BY CallsAssumption, SeqAssumption
  DEF Init, TableInv, TypeOK, FreshCalls, EntryOfRegistered, SeqOrigin, SeqUnique,
      OwnAnswer, ActiveIsRegistered, NoReuse, CallStates, WireStates, TaskStates,
      Calls, SendCalls, Packets

(* The table of pending requests is consistent in every reachable state.   *)
THEOREM TableInvariant == Spec => []TableInv
<1>1. TableInv /\ [Next]_vars => TableInv'
  BY TypeStep, FreshStep, EntryStep, OriginStep, UniqueStep, OwnStep, ActiveStep DEF TableInv
<1> QED BY InitTable, <1>1, PTL DEF Spec

(* Until the sequence counter comes round, a call is only ever given the   *)
(* result made from its own answer: dispatch_sso_packet cannot hand it     *)
(* another call's, nor a push.                                             *)
THEOREM OwnAnswers == Spec => []OwnAnswer
<1>1. TableInv => OwnAnswer
  BY DEF TableInv
<1> QED BY TableInvariant, <1>1, PTL

(* No lost wake-up: until the counter comes round, a call that waits       *)
(* without a result is in the table under its number.                      *)
THEOREM AwaitingRegistered == Spec => []AwaitingIsRegistered
<1>1. TableInv => AwaitingIsRegistered
  BY DEF TableInv, ActiveIsRegistered, AwaitingIsRegistered
<1> QED BY TableInvariant, <1>1, PTL

(* An entry belongs to a call that has been given nothing, so that no call *)
(* is answered twice, whether or not numbers are reused.                   *)
THEOREM PendingUnanswered == Spec => []PendingIsUnanswered
<1>1. TableInv => PendingIsUnanswered
  BY DEF TableInv, EntryOfRegistered, PendingIsUnanswered
<1> QED BY TableInvariant, <1>1, PTL

-----------------------------------------------------------------------------
(* How an entry leaves the table, and what becomes of its call.            *)

LEMMA EntryLeavesStep ==
    ASSUME TableInv, [Next]_vars,
           NEW s \in Seqs, pending[s] # None, pending'[s] # pending[s]
    PROVE  \/ slot'[pending[s]] # None
           \/ Over(pending[s])
           \/ pending'[s] # None /\ ~NoReuse
<1> USE CallsAssumption, SeqAssumption DEF TableInv, TypeOK, Calls, SendCalls, Packets, Goto
<1>1. ASSUME NEW c \in Calls, Register(c) PROVE pending'[s] # None /\ ~NoReuse
  <2>1. pending' = [pending EXCEPT ![seq[c]] = c] /\ seq[c] = s /\ call[c] = "built"
    BY <1>1 DEF Register
  <2>2. pending'[s] = c /\ pending[s] # c
    BY <2>1
  <2>3. seq[pending[s]] = s /\ pending[s] \in Calls
    BY DEF EntryOfRegistered
  <2> QED
    BY <2>1, <2>2, <2>3 DEF SeqUnique
<1>2. ASSUME NEW p \in Packets, Finish(p)
      PROVE  slot'[pending[s]] # None \/ Over(pending[s])
  <2>1. seq[p] = s
    BY <1>2 DEF Finish
  <2>2. CASE Over(pending[s])
    BY <2>2
  <2>3. CASE ~Over(pending[s])
    BY <1>2, <2>1, <2>3, ReplyType DEF Finish
  <2> QED
    BY <2>2, <2>3
<1>3. \/ \E c \in Calls : Register(c)
      \/ \E p \in Packets : Finish(p)
      \/ pending' = pending
  BY DEF Next, CallStep, Invoke, PrepareFails, Build, CheckToken, Post, PostPanics, Return,
         ReturnPanics, Cancel, LoopStep, LoopCheck, LoopTake, LoopPanics, TaskStep,
         StartNested, EndNested, EndLogic, ServerStep, Answer, Refuse, Push, Break, Close, vars
<1> QED
  BY <1>1, <1>2, <1>3

(* An entry leaves the table only because its call is given its result or  *)
(* is over, or because the counter has come round to its number; no other  *)
(* step of business.rs removes one.                                        *)
THEOREM EntryLeaves == Spec => EntryLeavesOnlyByDelivery
<1>1. TableInv /\ [Next]_vars =>
        [\A s \in Seqs : pending[s] # None /\ pending'[s] # pending[s] =>
            \/ slot'[pending[s]] # None
            \/ Over(pending[s])
            \/ pending'[s] # None /\ ~NoReuse]_vars
  BY EntryLeavesStep
<1> QED
  BY <1>1, TableInvariant, PTL DEF Spec, EntryLeavesOnlyByDelivery

LEMMA TakenStep ==
    ASSUME TableInv, ResultTaken, [Next]_vars PROVE ResultTaken'
<1> USE CallsAssumption, SeqAssumption
    DEF TableInv, TypeOK, Calls, SendCalls, Packets, Results, ResultTaken
<1>1. \A q \in Packets : wire[q] = "taken" => wire'[q] = "taken"
  BY DEF Next, CallStep, Invoke, PrepareFails, Build, Register, CheckToken, Post, PostPanics,
         Return, ReturnPanics, Cancel, LoopStep, LoopCheck, LoopTake, LoopPanics, TaskStep,
         StartNested, EndNested, EndLogic, Finish, ServerStep, Answer, Refuse, Push, Break,
         Close, vars, FreshCalls
<1>2. ASSUME NEW p \in Packets, Finish(p) PROVE ResultTaken'
  <2>1. wire[p] = "taken" /\ wire' = wire
    BY <1>2 DEF Finish, SeqOrigin
  <2>2. ASSUME NEW c \in Calls, slot'[c] # None
        PROVE  wire'[slot'[c].about] = "taken"
    <3>1. slot'[c] = slot[c] \/ slot'[c] = Reply(p)
      BY <1>2 DEF Finish
    <3>2. Reply(p).about = p
      BY DEF Reply
    <3> QED
      BY <2>1, <2>2, <3>1, <3>2
  <2> QED
    BY <2>2
<1>3. \/ \E p \in Packets : Finish(p)
      \/ slot' = slot
  BY DEF Next, CallStep, Invoke, PrepareFails, Build, Register, CheckToken, Post, PostPanics,
         Return, ReturnPanics, Cancel, LoopStep, LoopCheck, LoopTake, LoopPanics, TaskStep,
         StartNested, EndNested, EndLogic, ServerStep, Answer, Refuse, Push, Break, Close, vars
<1>4. CASE slot' = slot
  <2>1. ASSUME NEW c \in Calls, slot[c] # None PROVE slot[c].about \in Packets
    BY <2>1
  <2> QED
    BY <1>1, <1>4, <2>1
<1> QED
  BY <1>2, <1>3, <1>4

LEMMA OpenStep ==
    ASSUME TableInv, OpenInv, [Next]_vars PROVE OpenInv'
<1> SUFFICES ASSUME NoReuse', link' = "open" PROVE OpenInv'
  BY DEF OpenInv
<1> USE CallsAssumption, SeqAssumption
    DEF TableInv, TypeOK, Calls, SendCalls, Packets, Goto, OpenInv
<1>1. NoReuse /\ link = "open"
  BY DEF NoReuse, Next, CallStep, Invoke, PrepareFails, Build, Register, CheckToken, Post,
         PostPanics, Return, ReturnPanics, Cancel, LoopStep, LoopCheck, LoopTake, LoopPanics,
         TaskStep, StartNested, EndNested, EndLogic, Finish, ServerStep, Answer, Refuse,
         Push, Break, Close, vars
<1>2. ASSUME NEW c \in Calls, CallStep(c) PROVE OpenInv'
  <2>1. CASE Invoke(c) BY <1>1, <2>1 DEF Invoke
  <2>2. CASE PrepareFails(c)
    BY <1>1, <2>2 DEF PrepareFails, EntryOfRegistered
  <2>3. CASE Build(c) BY <1>1, <2>3 DEF Build
  <2>4. CASE Register(c) BY <1>1, <2>4 DEF Register
  <2>5. CASE CheckToken(c) BY <1>1, <2>5 DEF CheckToken
  <2>6. CASE Post(c) BY <1>1, <2>6 DEF Post
  <2>7. CASE PostPanics(c) BY <1>1, <2>7 DEF PostPanics
  <2>8. CASE Return(c) BY <1>1, <2>8 DEF Return, EntryOfRegistered
  <2>9. CASE ReturnPanics(c)
    BY <1>1, <2>9 DEF ReturnPanics, ActiveIsRegistered, FreshCalls
  <2>10. CASE Cancel(c) BY <1>1, <2>10 DEF Cancel
  <2> QED
    BY <1>2, <2>1, <2>2, <2>3, <2>4, <2>5, <2>6, <2>7, <2>8, <2>9, <2>10 DEF CallStep
<1>3. CASE LoopStep
  BY <1>1, <1>3 DEF LoopStep, LoopCheck, LoopTake, LoopPanics
<1>4. ASSUME NEW p \in Packets, TaskStep(p) PROVE OpenInv'
  <2>1. ASSUME NEW c \in NestedCalls, StartNested(p, c) PROVE OpenInv'
    BY <1>1, <2>1 DEF StartNested
  <2>2. CASE EndNested(p) BY <1>1, <2>2 DEF EndNested
  <2>3. CASE EndLogic(p) BY <1>1, <2>3 DEF EndLogic
  <2>4. CASE Finish(p)
    <3> DEFINE d == pending[seq[p]]
    <3>1. task' = [task EXCEPT ![p] = IF d # None /\ Over(d) THEN "panicked" ELSE "done"]
      BY <2>4 DEF Finish
    <3>2. /\ pending' = [pending EXCEPT ![seq[p]] = None] /\ call' = call
          /\ seq[p] \in Seqs /\ sub' = sub
      BY <2>4 DEF Finish, SeqOrigin
    <3>3. ASSUME d # None, Over(d) PROVE p \in Calls /\ call[p] = "cancelled"
      <4>1. d \in SendCalls /\ seq[d] = seq[p] /\ call[d] # "ok"
        BY <3>2, <3>3 DEF EntryOfRegistered
      <4>2. call[d] = "cancelled"
        BY <1>1, <3>2, <3>3, <4>1 DEF Over
      <4>3. p \in Calls
        BY <3>2, <4>1 DEF SeqOrigin
      <4>4. p = d
        BY <1>1, <3>2, <4>1, <4>3 DEF SeqUnique
      <4> QED
        BY <4>2, <4>3, <4>4
    <3> HIDE DEF d
    <3> QED
      BY <1>1, <3>1, <3>2, <3>3
  <2> QED
    BY <1>4, <2>1, <2>2, <2>3, <2>4 DEF TaskStep
<1>5. CASE ServerStep
  BY <1>1, <1>5 DEF ServerStep, Answer, Refuse, Push
<1>6. CASE Break \/ Close
  BY <1>1, <1>6 DEF Break, Close
<1>7. CASE UNCHANGED vars
  BY <1>1, <1>7 DEF vars
<1> QED
  BY <1>2, <1>3, <1>4, <1>5, <1>6, <1>7 DEF Next

(* While the connection is up, expect("receiver dropped") fails for one    *)
(* reason only: a timeout dropped the very call that the packet answers.   *)
THEOREM PanicsExplained == Spec => []PanicsOnlyAfterCancel
<1>1. Init => OpenInv
  BY CallsAssumption DEF Init, OpenInv, Calls, SendCalls, Packets
<1>2. TableInv /\ OpenInv /\ [Next]_vars => OpenInv'
  BY OpenStep
<1>3. OpenInv => PanicsOnlyAfterCancel
  BY DEF OpenInv, PanicsOnlyAfterCancel
<1> QED
  BY <1>1, <1>2, <1>3, TableInvariant, PTL DEF Spec

-----------------------------------------------------------------------------
(* Business implements Rpc.                                                *)

(* One call moves.                                                         *)
LEMMA StatusMove ==
    ASSUME TypeOK, NEW c \in Calls, NEW place \in CallStates,
           call' = [call EXCEPT ![c] = place]
    PROVE  Status' = [Status EXCEPT ![c] = StatusOf(place)] /\ Status[c] = StatusOf(call[c])
BY DEF TypeOK, Status

LEMMA StatusValues ==
    /\ StatusOf("idle") = "idle" /\ StatusOf("ok") = "ok"
    /\ \A x \in {"err", "cancelled", "panicked"} : StatusOf(x) = "failed"
    /\ \A x \in {"start", "built", "check", "posting", "await"} : StatusOf(x) = "running"
BY DEF StatusOf

(* What a step of a call is for its caller.                                *)
LEMMA CallImplements ==
    ASSUME TableInv, ResultTaken, NoReuse, NEW c \in Calls, CallStep(c)
    PROVE  \/ Contract!Invoke(c) \/ Contract!Succeed(c) \/ Contract!GiveUp(c)
           \/ Status' = Status /\ Received' = Received
<1> USE DEF Goto, CallStates
<1>1. TypeOK
  BY DEF TableInv
<1>2. Contract!Calls = Calls
  BY DEF Contract!Calls, Calls
<1>3. ASSUME NEW place \in CallStates, call' = [call EXCEPT ![c] = place]
      PROVE  /\ Status' = [Status EXCEPT ![c] = StatusOf(place)]
             /\ Status[c] = StatusOf(call[c])
  BY <1>1, <1>3, StatusMove
<1>4. Status[c] = "running" => [Status EXCEPT ![c] = "running"] = Status
  BY DEF Status
<1>5. Received' = Received
  BY <1>1 DEF Received, TypeOK, Packets, CallStep, Invoke, PrepareFails, Build, Register, CheckToken,
              Post, PostPanics, Return, ReturnPanics, Cancel, TableInv, FreshCalls
<1>6. CASE Invoke(c)
  BY <1>3, <1>5, <1>6, StatusValues DEF Invoke, Contract!Invoke
<1>7. CASE PrepareFails(c) \/ PostPanics(c) \/ ReturnPanics(c) \/ Cancel(c)
  <2>1. PICK place \in {"err", "panicked", "cancelled"} : call' = [call EXCEPT ![c] = place]
    BY <1>7 DEF PrepareFails, PostPanics, ReturnPanics, Cancel
  <2>2. call[c] \in {"start", "built", "check", "posting", "await"}
    BY <1>7 DEF PrepareFails, PostPanics, ReturnPanics, Cancel
  <2> QED
    BY <1>3, <1>5, <2>1, <2>2, StatusValues DEF Contract!GiveUp
<1>8. CASE Build(c) \/ Register(c)
  <2>1. PICK place \in {"built", "check"} : call' = [call EXCEPT ![c] = place]
    BY <1>8 DEF Build, Register
  <2>2. call[c] \in {"start", "built"}
    BY <1>8 DEF Build, Register
  <2> QED
    BY <1>3, <1>4, <1>5, <2>1, <2>2, StatusValues, ZenonT(30)
<1>9. CASE CheckToken(c)
  <2>1. PICK place \in {"err", "posting"} : call' = [call EXCEPT ![c] = place]
    BY <1>9 DEF CheckToken
  <2>2. call[c] = "check"
    BY <1>9 DEF CheckToken
  <2> QED
    BY <1>3, <1>4, <1>5, <2>1, <2>2, StatusValues, ZenonT(30) DEF Contract!GiveUp
<1>10. CASE Post(c)
  <2>1. call[c] = "posting"
    BY <1>10 DEF Post
  <2>2. CASE c \in OneWayCalls
    <3>1. call' = [call EXCEPT ![c] = "ok"] /\ c \notin SendCalls
      BY <1>10, <2>2, CallsAssumption DEF Post
    <3> QED
      BY <1>3, <1>5, <2>1, <3>1, StatusValues DEF Contract!Succeed
  <2>3. CASE c \notin OneWayCalls
    <3>1. call' = [call EXCEPT ![c] = "await"]
      BY <1>10, <2>3 DEF Post
    <3> QED
      BY <1>3, <1>4, <1>5, <2>1, <3>1, StatusValues
  <2> QED
    BY <2>2, <2>3
<1>11. CASE Return(c)
  <2>1. call[c] = "await" /\ slot[c] # None
    BY <1>11 DEF Return
  <2>2. slot[c].about = c
    BY <2>1 DEF TableInv, OwnAnswer
  <2>3. c \in Received
    BY <2>1, <2>2 DEF ResultTaken, Received
  <2>4. PICK place \in {"ok", "err"} : call' = [call EXCEPT ![c] = place]
    BY <1>11 DEF Return
  <2> QED
    BY <1>3, <1>5, <2>1, <2>3, <2>4, StatusValues DEF Contract!Succeed, Contract!GiveUp
<1> QED
  BY <1>6, <1>7, <1>8, <1>9, <1>10, <1>11 DEF CallStep

(* A packet taken in by the receive loop is an answer received, if it is   *)
(* not a push.                                                             *)
LEMMA TakeImplements ==
    ASSUME TableInv, NEW p \in Packets, LoopTake(p)
    PROVE  (p \in Calls /\ Contract!Receive(p)) \/ (Status' = Status /\ Received' = Received)
<1>1. Status' = Status
  BY DEF LoopTake, Status
<1>2. wire' = [wire EXCEPT ![p] = "taken"] /\ wire[p] \in {"incoming", "refused"}
  BY DEF LoopTake
<1>3. CASE p \in Calls
  <2>1. Received' = Received \cup {p} /\ p \notin Received
    BY <1>2, <1>3 DEF Received, TableInv, TypeOK, Packets
  <2>2. Status[p] # "idle"
    <3>1. call[p] # "idle" /\ call[p] \in CallStates
      BY <1>2, <1>3 DEF TableInv, TypeOK, FreshCalls
    <3>2. StatusOf(call[p]) # "idle"
      BY <3>1 DEF StatusOf, CallStates
    <3> QED
      BY <1>3, <3>2 DEF Status
  <2> QED
    BY <1>1, <1>3, <2>1, <2>2 DEF Contract!Receive
<1>4. CASE p \notin Calls
  <2>1. Received' = Received
    BY <1>2, <1>4 DEF Received, TableInv, TypeOK, Packets
  <2> QED
    BY <1>1, <2>1
<1> QED
  BY <1>3, <1>4

LEMMA StepImplements ==
    ASSUME TableInv, ResultTaken, NoReuse, [Next]_vars
    PROVE  [Contract!Next]_(Contract!vars)
<1>1. Contract!Calls = Calls
  BY DEF Contract!Calls, Calls
<1>2. ASSUME NEW c \in Calls, CallStep(c) PROVE [Contract!Next]_(Contract!vars)
  BY <1>1, <1>2, CallImplements DEF Contract!Next, Contract!vars
<1>3. CASE LoopStep
  <2>1. ASSUME NEW p \in Packets, LoopTake(p) PROVE [Contract!Next]_(Contract!vars)
    BY <1>1, <2>1, TakeImplements DEF Contract!Next, Contract!vars
  <2>2. CASE LoopCheck \/ LoopPanics
    BY <2>2 DEF LoopCheck, LoopPanics, Contract!vars, Status, Received
  <2> QED
    BY <1>3, <2>1, <2>2 DEF LoopStep
<1>4. ASSUME NEW p \in Packets, TaskStep(p) PROVE [Contract!Next]_(Contract!vars)
  <2>1. ASSUME NEW c \in NestedCalls, StartNested(p, c) PROVE [Contract!Next]_(Contract!vars)
    <3>1. c \in Calls /\ "start" \in CallStates /\ call[c] = "idle"
      BY <2>1 DEF StartNested, Calls, SendCalls, CallStates
    <3>2. call' = [call EXCEPT ![c] = "start"] /\ Received' = Received
      BY <2>1 DEF StartNested, Goto, Received
    <3>3. Status' = [Status EXCEPT ![c] = "running"] /\ Status[c] = "idle"
      BY <3>1, <3>2, StatusMove, StatusValues DEF TableInv
    <3> QED
      BY <1>1, <3>1, <3>2, <3>3 DEF Contract!Invoke, Contract!Next
  <2>2. CASE EndNested(p) \/ EndLogic(p) \/ Finish(p)
    BY <2>2 DEF EndNested, EndLogic, Finish, Contract!vars, Status, Received
  <2> QED
    BY <1>4, <2>1, <2>2 DEF TaskStep
<1>5. CASE ServerStep \/ Break \/ Close \/ UNCHANGED vars
  <2>1. call' = call
    BY <1>5 DEF ServerStep, Answer, Refuse, Push, Break, Close, vars
  <2>2. \A c \in Calls : wire'[c] = "taken" <=> wire[c] = "taken"
    BY <1>5, CallsAssumption
    DEF ServerStep, Answer, Refuse, Push, Break, Close, vars, TableInv, TypeOK, Packets
  <2> QED
    BY <2>1, <2>2 DEF Contract!vars, Status, Received
<1> QED
  BY <1>2, <1>3, <1>4, <1>5 DEF Next

(* Until the counter comes round, send_event and push_event keep the       *)
(* contract of module Rpc, whatever the table, the tasks and the           *)
(* connection do.                                                          *)
THEOREM ImplementsContract == Spec /\ []NoReuse => KeepsContract
<1>1. Init => Contract!Init /\ ResultTaken
  BY CallsAssumption
  DEF Init, Contract!Init, Contract!Calls, Calls, SendCalls, Packets, Status, StatusOf,
      Received, ResultTaken
<1>2. TableInv /\ ResultTaken /\ [Next]_vars => ResultTaken'
  BY TakenStep
<1>3. TableInv /\ ResultTaken /\ NoReuse /\ [Next]_vars => [Contract!Next]_(Contract!vars)
  BY StepImplements
<1> QED
  BY <1>1, <1>2, <1>3, TableInvariant, PTL DEF Spec, KeepsContract, Contract!Spec

=============================================================================
