---------------------------- MODULE SocketProofs ----------------------------
(* Proofs about Socket, for any number of senders, packets and frames, any *)
(* capacity and any set of frames above the limit.                         *)
EXTENDS Socket, SequenceTheorems, TLAPS

(* Lemmas about sequences: taking the first element of a queue and a       *)
(* prefix of a sequence.                                                   *)

LEMMA HeadThenTail ==
    ASSUME NEW S, NEW q \in Seq(S), q # <<>>
    PROVE  /\ Head(q) \in S /\ Tail(q) \in Seq(S)
           /\ Len(Tail(q)) = Len(q) - 1
           /\ <<Head(q)>> \in Seq(S)
           /\ <<Head(q)>> \o Tail(q) = q
<1>1. /\ Head(q) \in S /\ Tail(q) \in Seq(S) /\ Len(Tail(q)) = Len(q) - 1
      /\ \A i \in 1 .. Len(Tail(q)) : Tail(q)[i] = q[i + 1]
  BY HeadTailProperties
<1>2. <<Head(q)>> \in Seq(S) /\ Len(<<Head(q)>>) = 1 /\ <<Head(q)>>[1] = q[1]
  BY <1>1
<1>3. Len(q) \in Nat /\ Len(q) >= 1
  BY EmptySeq, LenProperties
<1> DEFINE r == <<Head(q)>> \o Tail(q)
<1>4. r \in Seq(S) /\ Len(r) = Len(q)
      /\ \A i \in 1 .. Len(q) : r[i] = IF i <= 1 THEN <<Head(q)>>[i] ELSE Tail(q)[i - 1]
  BY <1>1, <1>2, <1>3, ConcatProperties
<1>5. ASSUME NEW i \in 1 .. Len(q) PROVE r[i] = q[i]
  BY <1>1, <1>2, <1>3, <1>4
<1>6. r = q
  BY <1>4, <1>5, SeqEqual
<1> QED BY <1>1, <1>2, <1>6

LEMMA PrefixOfConcat ==
    ASSUME NEW S, NEW s \in Seq(S), NEW t \in Seq(S)
    PROVE  IsPrefix(s, s \o t)
<1>1. Len(s) \in Nat /\ Len(t) \in Nat /\ Len(s \o t) = Len(s) + Len(t)
  BY ConcatProperties, LenProperties
<1>2. CASE Len(s) = 0
  BY <1>1, <1>2, SubSeqEmpty DEF IsPrefix
<1>3. CASE Len(s) # 0
  BY <1>1, <1>3, SubSeqOfConcat1 DEF IsPrefix
<1> QED BY <1>1, <1>2, <1>3

(* A prefix agrees with the whole element by element, and conversely.      *)
LEMMA PrefixByElement ==
    ASSUME NEW S, NEW s \in Seq(S), NEW t \in Seq(S)
    PROVE  IsPrefix(s, t) <=> Len(s) <= Len(t) /\ \A i \in 1 .. Len(s) : s[i] = t[i]
<1>1. Len(s) \in Nat /\ Len(t) \in Nat
  BY LenProperties
<1>2. SubSeq(s, 1, Len(s)) = s
  BY SubSeqFull
<1>3. ASSUME Len(s) <= Len(t)
      PROVE  /\ SubSeq(t, 1, Len(s)) \in Seq(S)
             /\ Len(SubSeq(t, 1, Len(s))) = Len(s)
             /\ \A i \in 1 .. Len(s) : SubSeq(t, 1, Len(s))[i] = t[i]
  <2>1. \A i \in 1 .. Len(s) : t[i] \in S
    BY <1>1, <1>3, ElementOfSeq
  <2> QED BY <1>1, <1>3, <2>1, SubSeqProperties
<1>4. ASSUME IsPrefix(s, t)
      PROVE  Len(s) <= Len(t) /\ \A i \in 1 .. Len(s) : s[i] = t[i]
  <2>1. Len(s) <= Len(t) /\ s = SubSeq(t, 1, Len(s))
    BY <1>2, <1>4 DEF IsPrefix
  <2> QED BY <1>3, <2>1
<1>5. ASSUME Len(s) <= Len(t), \A i \in 1 .. Len(s) : s[i] = t[i]
      PROVE  IsPrefix(s, t)
  <2>1. s = SubSeq(t, 1, Len(s))
    BY <1>3, <1>5, SeqEqual
  <2> QED BY <1>2, <1>5, <2>1 DEF IsPrefix
<1> QED BY <1>4, <1>5

LEMMA PrefixTransitive ==
    ASSUME NEW S, NEW s \in Seq(S), NEW t \in Seq(S), NEW u \in Seq(S),
           IsPrefix(s, t), IsPrefix(t, u)
    PROVE  IsPrefix(s, u)
<1>1. Len(s) \in Nat /\ Len(t) \in Nat /\ Len(u) \in Nat
  BY LenProperties
<1>2. Len(s) <= Len(t) /\ \A i \in 1 .. Len(s) : s[i] = t[i]
  BY PrefixByElement
<1>3. Len(t) <= Len(u) /\ \A i \in 1 .. Len(t) : t[i] = u[i]
  BY PrefixByElement
<1>4. Len(s) <= Len(u) /\ \A i \in 1 .. Len(s) : s[i] = u[i]
  BY <1>1, <1>2, <1>3
<1> QED BY <1>4, PrefixByElement

-----------------------------------------------------------------------------
(* The types of the histories and of what the loops hold; a sender whose   *)
(* send() is under way has not sent everything.                            *)
Types ==
    /\ TypeOK
    /\ outHand \in Seq(Packets) /\ accepted \in Seq(Packets) /\ written \in Seq(Packets)
    /\ inHand \in Seq(Garbage .. Frames) /\ Len(inHand) <= 1 /\ got \in Seq(Garbage .. Frames)
    /\ wireIn \in Seq(Garbage .. Frames)
    /\ \A s \in Senders : pc[s] = "checked" => sent[s] < Sends

LEMMA TypesInit == Init => Types
BY SocketAssumption DEF Init, Types, TypeOK, Garbage

LEMMA TypesStep == Types /\ [Next]_vars => Types'
<1> SUFFICES ASSUME Types, [Next]_vars PROVE Types'
  OBVIOUS
<1> USE SocketAssumption DEF Types, TypeOK, Garbage
<1>1. ASSUME NEW s \in Senders, SendCheck(s) PROVE Types'
  BY <1>1 DEF SendCheck, inVars
<1>2. ASSUME NEW s \in Senders, SendQueue(s) PROVE Types'
  <2>1. <<s, sent[s] + 1>> \in Packets
    BY <1>2, SMTT(30) DEF SendQueue, Packets
  <2>2. outq' \in Seq(Packets) /\ Len(outq') = Len(outq) + 1 /\ accepted' \in Seq(Packets)
    BY <1>2, <2>1, AppendProperties DEF SendQueue
  <2>3. sent' \in [Senders -> 0 .. Sends]
    BY <1>2, SMTT(30) DEF SendQueue
  <2>4. \A u \in Senders : pc'[u] = "checked" => sent'[u] < Sends
    BY <1>2 DEF SendQueue
  <2>5. Len(outq') <= Capacity
    BY <1>2, <2>2 DEF SendQueue
  <2> QED BY <1>2, <2>2, <2>3, <2>4, <2>5 DEF SendQueue, inVars
<1>3. ASSUME NEW s \in Senders, SendPanics(s) PROVE Types'
  BY <1>3 DEF SendPanics, inVars
<1>4. CASE Detach
  BY <1>4 DEF Detach, inVars
<1>5. CASE RecvCheck
  BY <1>5 DEF RecvCheck, outVars
<1>6. CASE RecvTake
  BY <1>6, HeadThenTail, AppendProperties, SMTT(30) DEF RecvTake, outVars
<1>7. CASE RecvPanics
  BY <1>7 DEF RecvPanics, outVars
<1>8. CASE DropReceiver
  BY <1>8 DEF DropReceiver, outVars
<1>9. CASE WriteTake
  BY <1>9, HeadThenTail DEF WriteTake, inVars
<1>10. CASE WriteDone
  BY <1>10, ConcatProperties DEF WriteDone, inVars
<1>11. CASE SendLoopEnds
  BY <1>11 DEF SendLoopEnds, inVars
<1>12. CASE ReadFrame
  <2>1. Tail(wireIn) \in Seq(0 .. Frames)
    BY <1>12, HeadThenTail DEF ReadFrame
  <2>2. \A n \in 0 .. Frames : <<n>> \in Seq(0 .. Frames) /\ Len(<<n>>) <= 1
    OBVIOUS
  <2>3. Head(wireIn) \in 0 .. Frames /\ 0 \in 0 .. Frames
    BY <1>12, HeadThenTail DEF ReadFrame
  <2>4. inHand' \in Seq(0 .. Frames) /\ Len(inHand') <= 1
    BY <1>12, <2>2, <2>3 DEF ReadFrame
  <2>5. /\ wireIn' = Tail(wireIn)
        /\ recvLoop' \in {"read", "forward", "ended"} /\ insync' \in BOOLEAN
        /\ UNCHANGED <<phase, inq, rpc, arrived, got, outVars>>
    BY <1>12 DEF ReadFrame
  <2> QED BY <2>1, <2>4, <2>5 DEF outVars
<1>13. CASE Forward
  <2>1. inq \o inHand \in Seq(0 .. Frames) /\ Len(inq \o inHand) = Len(inq) + Len(inHand)
    BY ConcatProperties
  <2>2. Len(inq) \in Nat /\ Len(inHand) \in Nat /\ Len(inq) < Capacity /\ Len(inHand) <= 1
    BY <1>13, LenProperties DEF Forward
  <2>3. inq' \in Seq(0 .. Frames) /\ Len(inq') <= Capacity
    BY <1>13, <2>1, <2>2 DEF Forward
  <2> QED BY <1>13, <2>3 DEF Forward, outVars
<1>14. CASE RecvLoopEnds
  BY <1>14 DEF RecvLoopEnds, outVars
<1>15. CASE DropLoops
  BY <1>15 DEF DropLoops
<1>16. CASE Release
  BY <1>16 DEF Release, outVars, inVars
<1>17. CASE PeerSend
  BY <1>17, AppendProperties, SMTT(30) DEF PeerSend, outVars
<1>18. CASE UNCHANGED vars
  BY <1>18 DEF vars, outVars, inVars
<1> QED BY <1>1, <1>2, <1>3, <1>4, <1>5, <1>6, <1>7, <1>8, <1>9, <1>10, <1>11, <1>12, <1>13,
           <1>14, <1>15, <1>16, <1>17, <1>18 DEF Next, LoopsStep

(* Every reachable state is well typed; neither channel holds more than    *)
(* CHANNEL_SIZE packets (send, recv_loop).                                 *)
THEOREM TypeCorrect == Spec => []TypeOK
<1>1. Types => TypeOK
  BY DEF Types
<1> QED BY <1>1, TypesInit, TypesStep, PTL DEF Spec

-----------------------------------------------------------------------------
(* Outbound: as long as the task runs, the packets accepted are those      *)
(* written, the one in the loop's hand, and those queued.                  *)
OutInv ==
    /\ phase = "running" => accepted = (written \o outHand) \o outq
    /\ phase = "running" /\ sendLoop # "write" => outHand = <<>>
    /\ IsPrefix(written, accepted)

(* The equation of a running task gives the prefix.                        *)
LEMMA WrittenIsPrefix ==
    ASSUME Types, accepted = (written \o outHand) \o outq
    PROVE  IsPrefix(written, accepted)
<1>1. written \in Seq(Packets) /\ outHand \in Seq(Packets) /\ outq \in Seq(Packets)
  BY DEF Types, TypeOK
<1>2. accepted = written \o (outHand \o outq) /\ outHand \o outq \in Seq(Packets)
  BY <1>1, ConcatAssociative, ConcatProperties
<1> QED BY <1>1, <1>2, PrefixOfConcat

LEMMA OutInit == Init => OutInv
<1> SUFFICES ASSUME Init PROVE OutInv
  OBVIOUS
<1>1. <<>> \in Seq(Packets) /\ accepted = (written \o outHand) \o outq
  BY ConcatEmptySeq, EmptySeq DEF Init
<1>2. Types
  BY TypesInit
<1> QED BY <1>1, <1>2, WrittenIsPrefix DEF Init, OutInv

LEMMA OutStep == Types /\ Types' /\ OutInv /\ [Next]_vars => OutInv'
<1> SUFFICES ASSUME Types, Types', OutInv, [Next]_vars PROVE OutInv'
  OBVIOUS
<1> USE DEF OutInv
<1>0. /\ written \in Seq(Packets) /\ outHand \in Seq(Packets) /\ outq \in Seq(Packets)
      /\ accepted \in Seq(Packets)
  BY DEF Types, TypeOK
<1>1. ASSUME accepted' = (written' \o outHand') \o outq' PROVE IsPrefix(written, accepted)'
  <2>1. written' \in Seq(Packets) /\ outHand' \in Seq(Packets) /\ outq' \in Seq(Packets)
    BY DEF Types, TypeOK
  <2>2. accepted' = written' \o (outHand' \o outq') /\ outHand' \o outq' \in Seq(Packets)
    BY <1>1, <2>1, ConcatAssociative, ConcatProperties, SMTT(30)
  <2>3. IsPrefix(written', accepted')
    BY <2>1, <2>2, PrefixOfConcat
  <2> QED BY <2>3
(* What touches none of the outbound state.                                *)
<1>2. ASSUME UNCHANGED <<outq, outHand, accepted, written>>, sendLoop' = sendLoop,
             phase' = "running" => phase = "running"
      PROVE  OutInv'
  BY <1>2 DEF IsPrefix
<1>3. ASSUME NEW s \in Senders, SendQueue(s) PROVE OutInv'
  <2> DEFINE packet == <<s, sent[s] + 1>>
  <2>1. packet \in Packets
    BY <1>3, SocketAssumption DEF SendQueue, Packets, Types, TypeOK
  <2>2. <<packet>> \in Seq(Packets) /\ written \o outHand \in Seq(Packets)
    BY <1>0, <2>1, ConcatProperties
  <2>3. accepted' = accepted \o <<packet>> /\ outq' = outq \o <<packet>>
    BY <1>0, <1>3, <2>1, AppendIsConcat DEF SendQueue
  <2>4. phase = "running" /\ UNCHANGED <<phase, written, outHand, sendLoop>>
    BY <1>3 DEF SendQueue
  <2>5. ((written \o outHand) \o outq) \o <<packet>> = (written \o outHand) \o (outq \o <<packet>>)
    BY <1>0, <2>2, ConcatAssociative, SMTT(30)
  <2>6. accepted' = (written' \o outHand') \o outq'
    BY <2>3, <2>4, <2>5
  <2> QED BY <1>1, <2>4, <2>6
<1>4. CASE WriteTake
  <2>1. /\ phase = "running" /\ outHand = <<>> /\ outq # <<>>
        /\ outHand' = <<Head(outq)>> /\ outq' = Tail(outq) /\ sendLoop' = "write"
        /\ UNCHANGED <<phase, accepted, written>>
    BY <1>4 DEF WriteTake
  <2>2. <<Head(outq)>> \in Seq(Packets) /\ Tail(outq) \in Seq(Packets) /\ <<Head(outq)>> \o Tail(outq) = outq
    BY <1>0, <2>1, HeadThenTail
  <2>3. (written \o <<Head(outq)>>) \o Tail(outq) = written \o outq
    BY <1>0, <2>2, ConcatAssociative, SMTT(30)
  <2>4. accepted = written \o outq
    BY <1>0, <2>1, ConcatEmptySeq
  <2>5. accepted' = (written' \o outHand') \o outq'
    BY <2>1, <2>3, <2>4
  <2> QED BY <1>1, <2>1, <2>5
<1>5. CASE WriteDone
  <2>1. /\ phase = "running" /\ written' = written \o outHand /\ outHand' = <<>>
        /\ sendLoop' = "recv" /\ UNCHANGED <<phase, outq, accepted>>
    BY <1>5 DEF WriteDone
  <2>2. written' \o outHand' = written \o outHand
    BY <1>0, <2>1, ConcatProperties, ConcatEmptySeq
  <2>3. accepted' = (written' \o outHand') \o outq'
    BY <2>1, <2>2
  <2> QED BY <1>1, <2>1, <2>3
<1>6. CASE SendLoopEnds
  <2>1. /\ phase = "running" /\ sendLoop = "recv" /\ sendLoop' = "ended"
        /\ UNCHANGED <<phase, outq, outHand, accepted, written>>
    BY <1>6 DEF SendLoopEnds
  <2> QED BY <2>1 DEF IsPrefix
<1>7. CASE DropLoops
  BY <1>7 DEF DropLoops, IsPrefix
<1>8. CASE Release
  BY <1>8 DEF Release, outVars, IsPrefix
<1>9. ASSUME NEW s \in Senders, SendCheck(s) \/ SendPanics(s) PROVE OutInv'
  BY <1>2, <1>9 DEF SendCheck, SendPanics
<1>10. CASE Detach
  BY <1>2, <1>10 DEF Detach
<1>11. CASE RecvCheck \/ RecvTake \/ RecvPanics \/ DropReceiver
  BY <1>2, <1>11 DEF RecvCheck, RecvTake, RecvPanics, DropReceiver, outVars
<1>12. CASE ReadFrame \/ Forward \/ RecvLoopEnds \/ PeerSend
  BY <1>2, <1>12 DEF ReadFrame, Forward, RecvLoopEnds, PeerSend, outVars
<1>13. CASE UNCHANGED vars
  BY <1>2, <1>13 DEF vars, outVars
<1> QED BY <1>3, <1>4, <1>5, <1>6, <1>7, <1>8, <1>9, <1>10, <1>11, <1>12, <1>13 DEF Next, LoopsStep

(* Packets of any number of senders leave in the order in which they were  *)
(* accepted, none twice and none skipped; when the connection breaks the   *)
(* peer has a prefix of them (send, send_loop).                            *)
THEOREM Outbound == Spec => []OutboundInOrder
<1>1. OutInv => OutboundInOrder
  BY DEF OutInv, OutboundInOrder
<1> QED BY <1>1, TypesInit, TypesStep, OutInit, OutStep, PTL DEF Spec

-----------------------------------------------------------------------------
(* Inbound: the frames 1 to n in order.                                    *)
Upto(n) == [i \in 1 .. n |-> i]

LEMMA UptoGrows ==
    ASSUME NEW n \in Nat, NEW m \in Nat, n < m
    PROVE  /\ Upto(n) \in Seq(0 .. m) /\ Upto(n + 1) \in Seq(0 .. m)
           /\ Upto(n + 1) = Append(Upto(n), n + 1)
           /\ IsPrefix(Upto(n), Upto(n + 1))
<1>1. Upto(n) \in Seq(0 .. m) /\ Len(Upto(n)) = n
  BY DEF Upto
<1>2. Upto(n + 1) \in Seq(0 .. m) /\ Len(Upto(n + 1)) = n + 1
  BY DEF Upto
<1>3. n + 1 \in 0 .. m
  OBVIOUS
<1> DEFINE longer == Append(Upto(n), n + 1)
<1>4. /\ longer \in Seq(0 .. m) /\ Len(longer) = n + 1
      /\ \A i \in 1 .. n : longer[i] = Upto(n)[i]
      /\ longer[n + 1] = n + 1
  BY <1>1, <1>3, AppendProperties
<1>5. \A i \in 1 .. n + 1 : Upto(n + 1)[i] = longer[i]
  BY <1>4 DEF Upto
<1>6. Upto(n + 1) = longer
  BY <1>2, <1>4, <1>5, SeqEqual
<1>7. \A i \in 1 .. n : Upto(n)[i] = Upto(n + 1)[i]
  BY DEF Upto
<1>8. IsPrefix(Upto(n), Upto(n + 1))
  BY <1>1, <1>2, <1>7, PrefixByElement
<1> QED BY <1>1, <1>2, <1>6, <1>8

(* The frames that recv() has handed over or will: those taken, queued, in *)
(* the loop's hand and on the wire.                                        *)
Delivered == got \o inq
Coming == inHand \o wireIn

InInv ==
    /\ recvLoop # "forward" => inHand = <<>>
    /\ recvLoop = "ended" => rpc = "gone"
    /\ insync => IsPrefix(Delivered, Upto(arrived))
    /\ insync /\ phase = "running" /\ rpc # "gone" => Delivered \o Coming = Upto(arrived)

LEMMA InInit == Init => InInv
<1> SUFFICES ASSUME Init PROVE InInv
  OBVIOUS
<1>1. <<>> \in Seq(Nat) /\ Upto(0) = <<>>
  BY EmptySeq DEF Upto
<1>2. Delivered = <<>> /\ Coming = <<>> /\ Delivered \o Coming = <<>>
  BY <1>1, ConcatEmptySeq DEF Init, Delivered, Coming
<1>3. IsPrefix(<<>>, <<>>)
  <2>1. IsPrefix(<<>>, <<>> \o <<>>)
    BY <1>1, PrefixOfConcat
  <2> QED BY <1>1, <2>1, ConcatEmptySeq
<1> QED BY <1>1, <1>2, <1>3 DEF Init, InInv

LEMMA InStep == Types /\ Types' /\ InInv /\ [Next]_vars => InInv'
<1> SUFFICES ASSUME Types, Types', InInv, [Next]_vars PROVE InInv'
  OBVIOUS
<1> USE SocketAssumption DEF InInv
<1> DEFINE S == 0 .. Frames
<1>0. /\ got \in Seq(S) /\ inq \in Seq(S) /\ inHand \in Seq(S) /\ wireIn \in Seq(S)
      /\ got' \in Seq(S) /\ inq' \in Seq(S) /\ inHand' \in Seq(S) /\ wireIn' \in Seq(S)
      /\ arrived \in Nat
  BY DEF Types, TypeOK, Garbage
<1> HIDE DEF S
<1>a. /\ got \in Seq(S) /\ inq \in Seq(S) /\ inHand \in Seq(S) /\ wireIn \in Seq(S)
  BY <1>0
<1>1. /\ Delivered \in Seq(S) /\ Coming \in Seq(S) /\ Delivered' \in Seq(S) /\ Coming' \in Seq(S)
  BY <1>0, ConcatProperties DEF Delivered, Coming
(* The equation gives the prefix.                                          *)
<1>2. ASSUME Delivered' \o Coming' = Upto(arrived') PROVE IsPrefix(Delivered', Upto(arrived'))
  BY <1>1, <1>2, PrefixOfConcat
(* What touches none of the inbound state.                                 *)
<1>3. ASSUME UNCHANGED inVars, phase' = "running" => phase = "running" PROVE InInv'
  BY <1>3 DEF inVars, Delivered, Coming
<1>4. ASSUME UNCHANGED <<recvLoop, inq, inHand, wireIn, arrived, insync, got, phase>>,
             rpc = "gone" <=> rpc' = "gone"
      PROVE  InInv'
  BY <1>4 DEF Delivered, Coming
<1>5. CASE RecvTake
  <2>1. /\ inq # <<>> /\ got' = Append(got, Head(inq)) /\ inq' = Tail(inq)
        /\ rpc = "waiting" /\ rpc' = "idle"
        /\ UNCHANGED <<phase, recvLoop, inHand, wireIn, arrived, insync>>
    BY <1>5 DEF RecvTake
  <2>2. Head(inq) \in S /\ <<Head(inq)>> \in Seq(S) /\ Tail(inq) \in Seq(S) /\ <<Head(inq)>> \o Tail(inq) = inq
    BY <1>0, <2>1, HeadThenTail
  <2>3. got' = got \o <<Head(inq)>>
    BY <1>0, <2>1, <2>2, AppendIsConcat
  <2>4. Delivered' = Delivered
    <3>1. (got \o <<Head(inq)>>) \o Tail(inq) = got \o (<<Head(inq)>> \o Tail(inq))
      BY <1>a, <2>2, ConcatAssociative, SMTT(30)
    <3>2. Delivered' = (got \o <<Head(inq)>>) \o Tail(inq)
      BY <2>1, <2>3 DEF Delivered
    <3> QED BY <2>2, <3>1, <3>2 DEF Delivered
  <2>5. Coming' = Coming
    BY <2>1 DEF Coming
  <2> QED BY <2>1, <2>4, <2>5
<1>6. CASE DropReceiver
  <2>1. inq' = <<>> /\ rpc' = "gone" /\ UNCHANGED <<phase, recvLoop, inHand, wireIn, arrived, insync, got>>
    BY <1>6 DEF DropReceiver
  <2>2. Delivered' = got
    BY <1>0, <2>1, ConcatEmptySeq DEF Delivered
  <2>3. IsPrefix(got, Delivered)
    BY <1>0, PrefixOfConcat DEF Delivered
  <2>4. insync => IsPrefix(got, Upto(arrived))
    <3> SUFFICES ASSUME insync PROVE IsPrefix(got, Upto(arrived))
      OBVIOUS
    <3>1. Upto(arrived) \in Seq(S)
      BY DEF Upto, Types, TypeOK, S
    <3> QED BY <1>0, <1>1, <2>3, <3>1, PrefixTransitive
  <2> QED BY <2>1, <2>2, <2>4
<1>7. CASE ReadFrame
  <2>1. /\ phase = "running" /\ recvLoop = "read" /\ wireIn # <<>> /\ wireIn' = Tail(wireIn)
        /\ UNCHANGED <<phase, inq, rpc, arrived, got>>
    BY <1>7 DEF ReadFrame
  <2>2. Delivered' = Delivered
    BY <2>1 DEF Delivered
  <2>3. CASE insync /\ inHand' = <<Head(wireIn)>> /\ recvLoop' = "forward" /\ insync' = insync
    <3>1. <<Head(wireIn)>> \o Tail(wireIn) = wireIn
      BY <1>0, <2>1, HeadThenTail
    <3>2. Coming = wireIn
      BY <1>0, <2>1, ConcatEmptySeq DEF Coming
    <3>3. Coming' = Coming
      BY <2>1, <2>3, <3>1, <3>2 DEF Coming
    <3> QED BY <2>1, <2>2, <2>3, <3>3
  <2>4. CASE ~insync' /\ (recvLoop' = "forward" \/ (recvLoop' = recvLoop /\ inHand' = inHand))
    BY <2>1, <2>4
  <2> QED BY <1>7, <2>3, <2>4 DEF ReadFrame
<1>8. CASE Forward
  <2>1. /\ phase = "running" /\ rpc # "gone" /\ inq' = inq \o inHand /\ inHand' = <<>> /\ recvLoop' = "read"
        /\ UNCHANGED <<phase, rpc, wireIn, arrived, insync, got>>
    BY <1>8 DEF Forward
  <2>2. Delivered' = Delivered \o inHand
    <3>1. (got \o inq) \o inHand = got \o (inq \o inHand)
      BY <1>a, ConcatAssociative
    <3>2. Delivered' = got \o (inq \o inHand)
      BY <2>1 DEF Delivered
    <3> QED BY <3>1, <3>2 DEF Delivered
  <2>3. Coming' = wireIn
    BY <1>0, <2>1, ConcatEmptySeq DEF Coming
  <2>4. Delivered' \o Coming' = Delivered \o Coming
    <3>0. Delivered \in Seq(S)
      BY <1>1
    <3>1. (Delivered \o inHand) \o wireIn = Delivered \o (inHand \o wireIn)
      BY <1>a, <3>0, ConcatAssociative, SMTT(30)
    <3> QED BY <2>2, <2>3, <3>1 DEF Coming
  <2> QED BY <1>2, <2>1, <2>4
<1>9. CASE RecvLoopEnds
  <2>1. /\ rpc = "gone" /\ inHand' = <<>> /\ recvLoop' = "ended"
        /\ UNCHANGED <<phase, inq, rpc, wireIn, arrived, insync, got>>
    BY <1>9 DEF RecvLoopEnds
  <2> QED BY <2>1 DEF Delivered
<1>10. CASE DropLoops
  <2>1. phase' = "dropped" /\ inHand' = <<>> /\ UNCHANGED <<recvLoop, inq, rpc, arrived, insync, got>>
    BY <1>10 DEF DropLoops
  <2> QED BY <2>1 DEF Delivered
<1>11. CASE PeerSend
  <2>1. /\ phase = "running" /\ arrived < Frames /\ arrived' = arrived + 1
        /\ wireIn' = Append(wireIn, arrived + 1)
        /\ UNCHANGED <<phase, recvLoop, inq, inHand, rpc, insync, got>>
    BY <1>11 DEF PeerSend
  <2>2. /\ Upto(arrived) \in Seq(S) /\ Upto(arrived') \in Seq(S)
        /\ Upto(arrived') = Append(Upto(arrived), arrived + 1)
        /\ IsPrefix(Upto(arrived), Upto(arrived'))
    BY <1>0, <2>1, UptoGrows DEF S
  <2>3. Delivered' = Delivered
    BY <2>1 DEF Delivered
  <2>4. arrived + 1 \in S /\ <<arrived + 1>> \in Seq(S)
    BY <1>0, <2>1 DEF S
  <2>5. Coming' = Coming \o <<arrived + 1>>
    BY <1>0, <2>1, <2>4, AppendIsConcat, ConcatAssociative DEF Coming
  <2>6. Delivered' \o Coming' = Append(Delivered \o Coming, arrived + 1)
    <3>1. Delivered' \o Coming' = (Delivered \o Coming) \o <<arrived + 1>>
      BY <1>1, <2>3, <2>4, <2>5, ConcatAssociative
    <3>2. Delivered \o Coming \in Seq(S)
      BY <1>1, ConcatProperties
    <3> QED BY <2>4, <3>1, <3>2, AppendIsConcat
  <2>7. insync => IsPrefix(Delivered, Upto(arrived'))
    BY <1>1, <2>2, PrefixTransitive
  <2> QED BY <2>1, <2>2, <2>3, <2>6, <2>7
<1>12. CASE Release
  BY <1>3, <1>12 DEF Release
<1>13. CASE RecvCheck
  BY <1>4, <1>13 DEF RecvCheck
<1>14. CASE RecvPanics
  BY <1>4, <1>14 DEF RecvPanics
<1>15. ASSUME NEW s \in Senders, SendCheck(s) \/ SendQueue(s) \/ SendPanics(s) PROVE InInv'
  BY <1>3, <1>15 DEF SendCheck, SendQueue, SendPanics
<1>16. CASE Detach \/ WriteTake \/ WriteDone \/ SendLoopEnds
  BY <1>3, <1>16 DEF Detach, WriteTake, WriteDone, SendLoopEnds
<1>17. CASE UNCHANGED vars
  BY <1>3, <1>17 DEF vars
<1> QED BY <1>5, <1>6, <1>7, <1>8, <1>9, <1>10, <1>11, <1>12, <1>13, <1>14, <1>15, <1>16, <1>17
           DEF Next, LoopsStep

(* Up to the first frame above the limit, recv() hands over the peer's     *)
(* frames in order, none twice and none skipped, and a broken connection   *)
(* only cuts off the end (recv_loop, recv).                                *)
THEOREM Inbound == Spec => []InboundInOrder
<1>1. Types /\ InInv => InboundInOrder
  <2> SUFFICES ASSUME Types, InInv PROVE InboundInOrder
    OBVIOUS
  <2>1. /\ got \in Seq(0 .. Frames) /\ inq \in Seq(0 .. Frames)
        /\ inHand \in Seq(0 .. Frames) /\ wireIn \in Seq(0 .. Frames)
    BY DEF Types, TypeOK, Garbage
  <2>2. got \o inq \in Seq(0 .. Frames)
    BY <2>1, ConcatProperties
  <2>3. ((got \o inq) \o inHand) \o wireIn = (got \o inq) \o (inHand \o wireIn)
    BY <2>1, <2>2, ConcatAssociative, SMTT(30)
  <2>4. ((got \o inq) \o inHand) \o wireIn = Delivered \o Coming
    BY <2>3 DEF Delivered, Coming
  <2> QED BY <2>4 DEF InInv, InboundInOrder, Delivered, Upto
<1> QED BY <1>1, TypesInit, TypesStep, InInit, InStep, PTL DEF Spec

=============================================================================
