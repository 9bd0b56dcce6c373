--------------------------- MODULE HighwayProofs ---------------------------
(* Proofs about Highway, for any number of uploads, any sizes and any      *)
(* length of a chunk.                                                      *)
EXTENDS Highway, TLAPS

(* Reading from the stream keeps the position within it.                   *)
LEMMA SmallerType ==
    ASSUME NEW a \in Nat, NEW b \in Nat
    PROVE  Smaller(a, b) \in Nat /\ Smaller(a, b) <= b
BY DEF Smaller

LEMMA ChunkIsNat == Chunk \in Nat /\ Chunk > 0
BY HighwayAssumption

(* Every entity has one stream or two, and their sizes are numbers.        *)
LEMMA StreamSizes ==
    ASSUME NEW t \in Tasks, NEW k \in DOMAIN Length[t]
    PROVE  /\ k \in {1, 2} /\ k \in DOMAIN Declared[t]
           /\ Length[t][k] \in Nat /\ Declared[t][k] \in Nat
<1>1. /\ Length[t] \in Seq(Nat) /\ Declared[t] \in Seq(Nat)
      /\ Len(Length[t]) \in {1, 2} /\ Len(Declared[t]) = Len(Length[t])
  BY HighwayAssumption
<1> QED
  BY <1>1

LEMMA AvailableType ==
    ASSUME TypeOK, NEW t \in Tasks
    PROVE  Available(t) \in Nat /\ Size(t) \in Nat /\ pos[t] <= Available(t)
BY StreamSizes DEF TypeOK, Available, Size

(* The two parts of TypeOK: the sets the variables are drawn from, and     *)
(* that every stream exists and stands within its bounds.                  *)
Shape ==
    /\ guard \in Tasks \cup {NoTask} /\ ticket \in BOOLEAN
    /\ client \in {"default", "ready"} /\ fetched \in Nat
    /\ pc \in [Tasks -> PCs] /\ via \in [Tasks -> {"none", "tcp", "http"}]
    /\ using \in [Tasks -> {"none", "default", "ready"}]
    /\ pos \in [Tasks -> Nat] /\ offset \in [Tasks -> Nat]
    /\ frame \in [Tasks -> Chunks] /\ accepted \in [Tasks -> Seq(Chunks)]
    /\ part \in [Tasks -> {1, 2}]

WithinStreams == \A u \in Tasks : part[u] \in DOMAIN Length[u] /\ pos[u] <= Available(u)

LEMMA TypeParts == Shape' /\ WithinStreams' => TypeOK'
BY DEF Shape, WithinStreams, TypeOK

LEMMA SameStream ==
    ASSUME TypeOK, part' = part, pos' = pos
    PROVE  WithinStreams'
BY DEF TypeOK, WithinStreams, Available

LEMMA MovedStream ==
    ASSUME TypeOK, NEW t \in Tasks, NEW n \in Nat, n <= Available(t),
           part' = part, pos' = [pos EXCEPT ![t] = n]
    PROVE  WithinStreams' /\ pos' \in [Tasks -> Nat]
BY DEF TypeOK, WithinStreams, Available

LEMMA TypeStep == TypeOK /\ [Next]_vars => TypeOK'
<1> SUFFICES ASSUME TypeOK, [Next]_vars PROVE TypeOK'
  OBVIOUS
<1>0. Shape /\ Chunk \in Nat
  BY ChunkIsNat DEF TypeOK, Shape
<1>1. CASE UNCHANGED vars
  BY <1>1 DEF TypeOK, Available, vars, shared, upload
<1>2. ASSUME NEW t \in Tasks, Lock(t) PROVE TypeOK'
  <2>1. WithinStreams'
    BY <1>2, SameStream DEF Lock, upload
  <2>2. Shape'
    BY <1>0, <1>2, <2>1 DEF Shape, Lock, Goto, PCs, shared, upload
  <2> QED
    BY <2>1, <2>2, TypeParts
<1>3. ASSUME NEW t \in Tasks, LoadTicket(t) PROVE TypeOK'
  <2>1. WithinStreams'
    BY <1>3, SameStream DEF LoadTicket, upload
  <2>2. Shape'
    BY <1>0, <1>3, <2>1 DEF Shape, LoadTicket, Goto, PCs, shared, upload
  <2> QED
    BY <2>1, <2>2, TypeParts
<1>4. ASSUME NEW t \in Tasks, FetchTicket(t) PROVE TypeOK'
  <2>1. WithinStreams'
    BY <1>4, SameStream DEF FetchTicket, upload
  <2>2. Shape'
    BY <1>0, <1>4, <2>1 DEF Shape, FetchTicket, Goto, PCs, shared, upload
  <2> QED
    BY <2>1, <2>2, TypeParts
<1>5. ASSUME NEW t \in Tasks, FetchFails(t) PROVE TypeOK'
  <2>1. WithinStreams'
    BY <1>5, SameStream DEF FetchFails, upload
  <2>2. Shape'
    BY <1>0, <1>5, <2>1 DEF Shape, FetchFails, Goto, PCs, shared, upload
  <2> QED
    BY <2>1, <2>2, TypeParts
<1>6. ASSUME NEW t \in Tasks, MakeClient(t) PROVE TypeOK'
  <2>1. WithinStreams'
    BY <1>6, SameStream DEF MakeClient, upload
  <2>2. Shape'
    BY <1>0, <1>6, <2>1 DEF Shape, MakeClient, Goto, PCs, shared, upload
  <2> QED
    BY <2>1, <2>2, TypeParts
<1>7. ASSUME NEW t \in Tasks, Hash(t) PROVE TypeOK'
  <2> DEFINE n == Available(t)
  <2>0. n \in Nat /\ n <= Available(t)
    BY AvailableType
  <2>1. part' = part /\ pos' = [pos EXCEPT ![t] = n]
    BY <1>7 DEF Hash
  <2> HIDE DEF n
  <2>2. WithinStreams' /\ pos' \in [Tasks -> Nat]
    BY <2>0, <2>1, MovedStream
  <2>3. Shape'
    BY <1>0, <1>7, <2>2 DEF Shape, Hash, Goto, shared, PCs
  <2> QED
    BY <2>2, <2>3, TypeParts
<1>8. ASSUME NEW t \in Tasks, Request(t) \/ RequestFails(t) \/ Finish(t) PROVE TypeOK'
  <2>1. WithinStreams'
    BY <1>8, SameStream DEF Request, RequestFails, Finish, upload
  <2>2. Shape'
    BY <1>0, <1>8, <2>1 DEF Shape, Request, RequestFails, Finish, Goto, PCs, shared, upload
  <2> QED
    BY <2>1, <2>2, TypeParts
<1>9. ASSUME NEW t \in Tasks, NextStream(t) PROVE TypeOK'
  <2> DEFINE k == part[t] + 1
  <2>1. /\ part[t] \in {1, 2} /\ part[t] \in DOMAIN Length[t] /\ part[t] < Len(Length[t])
        /\ Length[t] \in Seq(Nat)
    BY <1>9, HighwayAssumption DEF NextStream, TypeOK
  <2>2. k \in DOMAIN Length[t]
    BY <2>1
  <2>3. k \in {1, 2} /\ Length[t][k] \in Nat
    BY <2>2, StreamSizes
  <2>4. part' = [part EXCEPT ![t] = k] /\ pos' = [pos EXCEPT ![t] = Length[t][k]]
    BY <1>9 DEF NextStream
  <2> HIDE DEF k
  <2>5. WithinStreams'
    BY <1>0, <2>2, <2>3, <2>4 DEF TypeOK, Shape, WithinStreams, Available
  <2>6. part' \in [Tasks -> {1, 2}] /\ pos' \in [Tasks -> Nat]
    BY <1>0, <2>3, <2>4 DEF Shape
  <2>7. /\ accepted' \in [Tasks -> Seq(Chunks)] /\ offset' \in [Tasks -> Nat]
        /\ via' \in [Tasks -> {"none", "tcp", "http"}]
    BY <1>0, <1>9 DEF Shape, NextStream
  <2>8. pc' \in [Tasks -> PCs]
    BY <1>0, <1>9, ZenonT(30) DEF Shape, NextStream, Goto, PCs
  <2>9. Shape'
    BY <1>0, <1>9, <2>6, <2>7, <2>8 DEF Shape, NextStream, shared
  <2> QED
    BY <2>5, <2>9, TypeParts
<1>10. ASSUME NEW t \in Tasks, StartTcp(t) PROVE TypeOK'
  <2> DEFINE n == 0
  <2>0. n \in Nat /\ n <= Available(t)
    BY AvailableType
  <2>1. part' = part /\ pos' = [pos EXCEPT ![t] = n]
    BY <1>10 DEF StartTcp
  <2> HIDE DEF n
  <2>2. WithinStreams' /\ pos' \in [Tasks -> Nat]
    BY <2>0, <2>1, MovedStream
  <2>3. Shape'
    BY <1>0, <1>10, <2>2 DEF Shape, StartTcp, Goto, shared, PCs
  <2> QED
    BY <2>2, <2>3, TypeParts
<1>11. ASSUME NEW t \in Tasks, Connect(t) PROVE TypeOK'
  <2>1. WithinStreams'
    BY <1>11, SameStream DEF Connect, NextChunk, upload
  <2>2. Shape'
    BY <1>0, <1>11, <2>1 DEF Shape, Connect, NextChunk, Goto, PCs, shared, upload
  <2> QED
    BY <2>1, <2>2, TypeParts
<1>12. ASSUME NEW t \in Tasks, SendChunk(t) PROVE TypeOK'
  <2> DEFINE end == Smaller(pos[t] + Chunk, Available(t))
  <2>1. end \in Nat /\ end <= Available(t)
    <3>1. pos[t] + Chunk \in Nat
      BY <1>0 DEF Shape
    <3>2. Available(t) \in Nat
      BY AvailableType
    <3> QED
      BY <3>1, <3>2, SmallerType
  <2>2. frame' = [frame EXCEPT ![t] = <<offset[t], pos[t], end>>]
    BY <1>12 DEF SendChunk
  <2>3. <<offset[t], pos[t], end>> \in Chunks
    BY <1>0, <2>1 DEF Shape, Chunks
  <2>4. frame' \in [Tasks -> Chunks]
    BY <1>0, <2>2, <2>3 DEF Shape
  <2>5. part' = part /\ pos' = [pos EXCEPT ![t] = end]
    BY <1>12 DEF SendChunk
  <2> HIDE DEF end
  <2>6. WithinStreams' /\ pos' \in [Tasks -> Nat]
    BY <2>1, <2>5, MovedStream
  <2>7. Shape'
    BY <1>0, <1>12, <2>4, <2>6 DEF Shape, SendChunk, Goto, shared, PCs
  <2> QED
    BY <2>6, <2>7, TypeParts
<1>13. ASSUME NEW t \in Tasks, Reply(t) PROVE TypeOK'
  <2>1. accepted' \in [Tasks -> Seq(Chunks)]
    BY <1>0, <1>13 DEF Shape, Reply
  <2>2. WithinStreams'
    BY <1>13, SameStream DEF Reply
  <2>3. Shape'
    BY <1>0, <1>13, <2>1, <2>2 DEF Shape, Reply, NextChunk, Goto, shared, PCs
  <2> QED
    BY <2>2, <2>3, TypeParts
<1>14. ASSUME NEW t \in Tasks, TcpFails(t) PROVE TypeOK'
  <2> DEFINE n == 0
  <2>0. n \in Nat /\ n <= Available(t)
    BY AvailableType
  <2>1. part' = part /\ pos' = [pos EXCEPT ![t] = n]
    BY <1>14 DEF TcpFails, Restart
  <2> HIDE DEF n
  <2>2. WithinStreams' /\ pos' \in [Tasks -> Nat]
    BY <2>0, <2>1, MovedStream
  <2>3. Shape'
    BY <1>0, <1>14, <2>2 DEF Shape, TcpFails, Restart, NextChunk, Goto, shared, PCs
  <2> QED
    BY <2>2, <2>3, TypeParts
<1>15. ASSUME NEW t \in Tasks, HttpFails(t) \/ ServerBreaks(t) PROVE TypeOK'
  <2>1. WithinStreams'
    BY <1>15, SameStream DEF HttpFails, ServerBreaks, StreamEnds, ReplyPanics, ReplyTorn, upload
  <2>2. Shape'
    BY <1>0, <1>15, <2>1 DEF Shape, HttpFails, ServerBreaks, StreamEnds, ReplyPanics, ReplyTorn, Goto, PCs, shared, upload
  <2> QED
    BY <2>1, <2>2, TypeParts
<1> QED
  BY <1>1, <1>2, <1>3, <1>4, <1>5, <1>6, <1>7, <1>8, <1>9, <1>10, <1>11, <1>12,
     <1>13, <1>14, <1>15 DEF Next, TaskStep

(* Every reachable state is well typed, and no stream is read past its end *)
(* (read_stream, hw_client.rs).                                            *)
THEOREM TypeCorrect == Spec => []TypeOK
<1>1. Init => TypeOK
  <2> SUFFICES ASSUME Init PROVE TypeOK
    OBVIOUS
  <2>1. <<0, 0, 0>> \in Chunks
    BY DEF Chunks
  <2>2. frame \in [Tasks -> Chunks] /\ accepted \in [Tasks -> Seq(Chunks)]
    BY <2>1 DEF Init
  <2>3. \A t \in Tasks : part[t] \in DOMAIN Length[t] /\ pos[t] <= Available(t)
    <3>1. TAKE t \in Tasks
    <3>2. part[t] = 1 /\ pos[t] = 0
      BY DEF Init
    <3>3. 1 \in DOMAIN Length[t]
      BY HighwayAssumption
    <3> QED
      BY <3>2, <3>3, StreamSizes DEF Available
  <2>4. /\ pos \in [Tasks -> Nat] /\ offset \in [Tasks -> Nat]
        /\ pc \in [Tasks -> PCs] /\ via \in [Tasks -> {"none", "tcp", "http"}]
        /\ using \in [Tasks -> {"none", "default", "ready"}]
        /\ part \in [Tasks -> {1, 2}]
    BY DEF Init, PCs
  <2>5. /\ guard \in Tasks \cup {NoTask} /\ ticket \in BOOLEAN
        /\ client \in {"default", "ready"} /\ fetched \in Nat
    BY DEF Init
  <2> QED
    BY <2>2, <2>3, <2>4, <2>5 DEF TypeOK
<1> QED
  BY <1>1, TypeStep, PTL DEF Spec

-----------------------------------------------------------------------------
(* Who holds the guard, and what it protects.                              *)
LEMMA PrepareStep ==
    ASSUME TypeOK, PrepareInv, [Next]_vars PROVE PrepareInv'
<1>0. Shape /\ NoTask \notin Tasks
  BY HighwayAssumption DEF TypeOK, Shape
<1> USE <1>0 DEF Shape, PrepareInv
<1>1. CASE UNCHANGED vars
  BY <1>1 DEF vars, shared, upload
<1>2. ASSUME NEW t \in Tasks, Lock(t) PROVE PrepareInv'
  BY <1>2 DEF Lock, Goto, upload
<1>3. ASSUME NEW t \in Tasks, LoadTicket(t) PROVE PrepareInv'
  BY <1>3 DEF LoadTicket, Goto, shared, upload
<1>4. ASSUME NEW t \in Tasks, FetchTicket(t) PROVE PrepareInv'
  BY <1>4 DEF FetchTicket, Goto, upload
<1>5. ASSUME NEW t \in Tasks, FetchFails(t) PROVE PrepareInv'
  BY <1>5 DEF FetchFails, Goto, upload
<1>6. ASSUME NEW t \in Tasks, MakeClient(t) PROVE PrepareInv'
  BY <1>6 DEF MakeClient, Goto, upload
<1>7. ASSUME NEW t \in Tasks, Hash(t) PROVE PrepareInv'
  BY <1>7 DEF Hash, Goto, shared
<1>8. ASSUME NEW t \in Tasks, Request(t) \/ RequestFails(t) \/ Finish(t) PROVE PrepareInv'
  <2>1. CASE Request(t)
    BY <2>1 DEF Request, Goto, shared, upload
  <2>2. CASE RequestFails(t)
    BY <2>2 DEF RequestFails, Goto, shared, upload
  <2>3. CASE Finish(t)
    BY <2>3 DEF Finish, Goto, shared, upload
  <2> QED
    BY <1>8, <2>1, <2>2, <2>3
<1>9. ASSUME NEW t \in Tasks, NextStream(t) PROVE PrepareInv'
  BY <1>9, ZenonT(30) DEF NextStream, Goto, shared
<1>10. ASSUME NEW t \in Tasks, StartTcp(t) PROVE PrepareInv'
  BY <1>10 DEF StartTcp, Goto, shared
<1>11. ASSUME NEW t \in Tasks, Connect(t) PROVE PrepareInv'
  BY <1>11 DEF Connect, NextChunk, Goto, shared, upload
<1>12. ASSUME NEW t \in Tasks, SendChunk(t) PROVE PrepareInv'
  BY <1>12 DEF SendChunk, Goto, shared
<1>13. ASSUME NEW t \in Tasks, Reply(t) PROVE PrepareInv'
  BY <1>13 DEF Reply, NextChunk, Goto, shared
<1>14. ASSUME NEW t \in Tasks, TcpFails(t) PROVE PrepareInv'
  BY <1>14 DEF TcpFails, Restart, NextChunk, Goto, shared
<1>15. ASSUME NEW t \in Tasks, HttpFails(t) PROVE PrepareInv'
  BY <1>15 DEF HttpFails, Goto, shared, upload
<1>16. ASSUME NEW t \in Tasks, StreamEnds(t) PROVE PrepareInv'
  BY <1>16 DEF StreamEnds, Goto, shared, upload
<1>17. ASSUME NEW t \in Tasks, ReplyTorn(t) PROVE PrepareInv'
  BY <1>17 DEF ReplyTorn, Goto, shared, upload
<1>18. ASSUME NEW t \in Tasks, ReplyPanics(t) PROVE PrepareInv'
  BY <1>18 DEF ReplyPanics, Goto, shared, upload
<1> QED
  BY <1>1, <1>2, <1>3, <1>4, <1>5, <1>6, <1>7, <1>8, <1>9, <1>10, <1>11, <1>12,
     <1>13, <1>14, <1>15, <1>16, <1>17, <1>18 DEF Next, TaskStep, ServerBreaks

(* One ticket is fetched however many uploads prepare at the same time,    *)
(* and none runs with the default client (prepare_highway).                *)
THEOREM TicketFetchedOnce == Spec => []OneTicket
<1>1. Init => PrepareInv
  BY HighwayAssumption DEF Init, PrepareInv
<1>2. PrepareInv => OneTicket
  BY DEF PrepareInv, OneTicket
<1> QED
  BY <1>1, <1>2, TypeCorrect, PrepareStep, PTL DEF Spec

-----------------------------------------------------------------------------
(* The chunks of an upload.                                                *)

(* Reading on from the end of what has been read.                          *)
LEMMA NextPosition ==
    ASSUME NEW o \in Nat, NEW c \in Nat, NEW l \in Nat
    PROVE  Smaller(Smaller(o, l) + c, l) = Smaller(o + c, l)
BY DEF Smaller

(* The offset after one more chunk.                                        *)
LEMMA OneMore ==
    ASSUME NEW n \in Nat, NEW c \in Nat PROVE (n + 1) * c = n * c + c
OBVIOUS

LEMMA TypeOfTask ==
    ASSUME TypeOK, NEW t \in Tasks
    PROVE  /\ pos[t] \in Nat /\ offset[t] \in Nat /\ pc[t] \in PCs
           /\ accepted[t] \in Seq(Chunks) /\ Len(accepted[t]) \in Nat
           /\ Available(t) \in Nat /\ Size(t) \in Nat
           /\ Chunk \in Nat
BY HighwayAssumption, AvailableType DEF TypeOK

(* A task's chunks depend on its own part of the state alone.              *)
LEMMA Elsewhere ==
    ASSUME NEW u, TaskChunks(u),
           offset'[u] = offset[u], accepted'[u] = accepted[u], pc'[u] = pc[u],
           via'[u] = via[u], part'[u] = part[u], pos'[u] = pos[u], frame'[u] = frame[u]
    PROVE  TaskChunks(u)'
BY DEF TaskChunks, ChunkAt, Available, Size

LEMMA StepElsewhere ==
    ASSUME TypeOK, NEW t \in Tasks, NEW u \in Tasks, u # t, TaskChunks(u),
           Lock(t) \/ TaskStep(t) \/ ServerBreaks(t)
    PROVE  TaskChunks(u)'
<1>1. /\ offset'[u] = offset[u] /\ accepted'[u] = accepted[u] /\ pc'[u] = pc[u]
      /\ via'[u] = via[u] /\ part'[u] = part[u] /\ pos'[u] = pos[u] /\ frame'[u] = frame[u]
  BY DEF TypeOK, Lock, TaskStep, ServerBreaks, StreamEnds, ReplyPanics, ReplyTorn, LoadTicket, FetchTicket,
         FetchFails, MakeClient, Hash, Request, RequestFails, NextStream, Finish, StartTcp, Connect,
         SendChunk, Reply, TcpFails, HttpFails, Restart, NextChunk, Goto, shared, upload
<1> QED
  BY <1>1, Elsewhere

(* A chunk is read where the stream stands, and that is at the offset.     *)
LEMMA SendStep ==
    ASSUME TypeOK, NEW t \in Tasks, TaskChunks(t), SendChunk(t) PROVE TaskChunks(t)'
<1> DEFINE end == Smaller(pos[t] + Chunk, Available(t))
<1>1. pos[t] = Smaller(offset[t], Available(t)) /\ offset[t] < Size(t)
  BY DEF SendChunk, TaskChunks
<1>2. end = Smaller(offset[t] + Chunk, Available(t))
  BY <1>1, TypeOfTask, NextPosition
<1>3. frame'[t] = <<offset[t], pos[t], end>>
  BY DEF SendChunk, TypeOK
<1>4. frame'[t] = ChunkAt(t, offset[t])
  BY <1>1, <1>2, <1>3 DEF ChunkAt
<1>5. /\ pc'[t] = "reply" /\ offset' = offset /\ accepted' = accepted /\ via' = via
      /\ part' = part /\ pos'[t] = end
  BY DEF SendChunk, Goto, TypeOK, PCs
<1> QED
  BY <1>1, <1>2, <1>4, <1>5 DEF TaskChunks, ChunkAt, Available, Size

(* The chunk accepted is the next one, and the stream stands behind it.    *)
LEMMA ReplyStep ==
    ASSUME TypeOK, NEW t \in Tasks, TaskChunks(t), Reply(t) PROVE TaskChunks(t)'
<1> DEFINE n == Len(accepted[t])
<1>1. /\ n \in Nat /\ offset[t] \in Nat /\ Chunk \in Nat /\ Size(t) \in Nat
      /\ accepted[t] \in Seq(Chunks)
  BY TypeOfTask
<1>2. offset[t] = n * Chunk /\ frame[t] = ChunkAt(t, offset[t])
  BY DEF Reply, TaskChunks
<1>3. /\ accepted'[t] = Append(accepted[t], frame[t])
      /\ offset'[t] = offset[t] + Chunk /\ pos' = pos /\ via' = via
      /\ part' = part
      /\ pc'[t] = IF offset[t] + Chunk < Size(t) THEN "chunk" ELSE "next"
  BY DEF Reply, NextChunk, Goto, TypeOK
<1>4. frame[t] \in Chunks
  BY DEF TypeOK
<1>5. Len(accepted'[t]) = n + 1 /\ DOMAIN accepted'[t] = 1 .. n + 1
  BY <1>1, <1>3, <1>4
<1>6. offset'[t] = Len(accepted'[t]) * Chunk
  BY <1>1, <1>2, <1>3, <1>5, OneMore
<1>7. \A i \in DOMAIN accepted'[t] : accepted'[t][i] = ChunkAt(t, (i - 1) * Chunk)
  <2> SUFFICES ASSUME NEW i \in 1 .. n + 1
               PROVE  accepted'[t][i] = ChunkAt(t, (i - 1) * Chunk)
    BY <1>5
  <2>1. CASE i = n + 1
    <3>1. accepted'[t][i] = frame[t]
      BY <2>1, <1>1, <1>3, <1>4
    <3>2. i - 1 = n
      BY <2>1, <1>1
    <3> QED
      BY <3>1, <3>2, <1>2
  <2>2. CASE i \in 1 .. n
    <3>1. accepted'[t][i] = accepted[t][i] /\ i \in DOMAIN accepted[t]
      BY <2>2, <1>1, <1>3, <1>4
    <3> QED
      BY <3>1 DEF TaskChunks
  <2> QED
    BY <2>1, <2>2, <1>1
<1>8. pc'[t] = "chunk" => pos'[t] = Smaller(offset'[t], Available(t))
  <2>1. pos[t] = Smaller(offset[t] + Chunk, Available(t))
    BY DEF Reply, TaskChunks
  <2> QED
    BY <2>1, <1>3
<1>9. /\ pc'[t] \in {"chunk", "next"}
      /\ pc'[t] = "chunk" => offset'[t] < Size(t)
      /\ pc'[t] = "next" => offset'[t] >= Size(t)
  BY <1>1, <1>3
<1>10. Available(t)' = Available(t) /\ Size(t)' = Size(t)
  BY <1>3 DEF Available, Size
<1> HIDE DEF n
<1> QED
  BY <1>6, <1>7, <1>8, <1>9, <1>10 DEF TaskChunks, ChunkAt

(* The steps before the upload, and those that leave it as it is.          *)
LEMMA OtherStep ==
    ASSUME TypeOK, NEW t \in Tasks, TaskChunks(t),
           \/ Lock(t) \/ LoadTicket(t) \/ FetchTicket(t) \/ FetchFails(t)
           \/ MakeClient(t) \/ Hash(t) \/ Request(t) \/ RequestFails(t)
           \/ Finish(t) \/ StartTcp(t) \/ HttpFails(t) \/ ServerBreaks(t)
    PROVE  TaskChunks(t)'
<1>1. /\ offset' = offset /\ accepted' = accepted /\ frame' = frame /\ part' = part
  BY DEF Lock, LoadTicket, FetchTicket, FetchFails, MakeClient, Hash, Request,
         RequestFails, Finish, StartTcp, HttpFails, ServerBreaks, StreamEnds,
         ReplyPanics, ReplyTorn, upload
<1>2. Available(t)' = Available(t) /\ Size(t)' = Size(t)
  BY <1>1 DEF Available, Size
<1>3. CASE StartTcp(t)
  BY <1>1, <1>2, <1>3 DEF TypeOK, TaskChunks, ChunkAt, StartTcp, Goto
<1>4. CASE ~StartTcp(t)
  <2>1. via' = via
    BY <1>4 DEF Lock, LoadTicket, FetchTicket, FetchFails, MakeClient, Hash, Request,
                RequestFails, Finish, HttpFails, ServerBreaks, StreamEnds, ReplyPanics,
                ReplyTorn, upload
  <2>2. CASE Finish(t)
    BY <1>1, <1>2, <2>1, <2>2 DEF TypeOK, TaskChunks, ChunkAt, Finish, Goto
  <2>3. CASE ~Finish(t)
    <3>1. \/ /\ pc[t] \in {"prepare", "sig", "ticket", "make", "hash", "request"}
             /\ pc'[t] \in {"sig", "ticket", "make", "hash", "request", "load", "next", "failed"}
          \/ /\ pc[t] \in {"chunk", "reply"}
             /\ pc'[t] \in {"failed", "spin", "torn"}
          \/ pc[t] = "next" /\ pc'[t] = "failed"
      BY <1>4, <2>3 DEF TypeOK, Lock, LoadTicket, FetchTicket, FetchFails, MakeClient,
                        Hash, Request, RequestFails, HttpFails, ServerBreaks, StreamEnds,
                        ReplyPanics, ReplyTorn, Goto
    <3>2. pc'[t] \in {"spin", "torn"} => pc[t] \in {"chunk", "reply"}
      BY <1>4, <2>3 DEF TypeOK, Lock, LoadTicket, FetchTicket, FetchFails, MakeClient,
                        Hash, Request, RequestFails, HttpFails, ServerBreaks, StreamEnds,
                        ReplyPanics, ReplyTorn, Goto
    <3> QED
      BY <1>1, <1>2, <2>1, <3>1, <3>2 DEF TaskChunks, ChunkAt
  <2> QED
    BY <2>2, <2>3
<1> QED
  BY <1>3, <1>4

(* The next stream of the entity.                                          *)
LEMMA NextStreamStep ==
    ASSUME TypeOK, NEW t \in Tasks, NextStream(t) PROVE TaskChunks(t)'
<1>1. /\ offset'[t] = 0 /\ accepted'[t] = <<>> /\ via'[t] = "none"
      /\ pc'[t] \in {"load", "next"}
  BY DEF NextStream, TypeOK, Goto
<1>2. 0 * Chunk = 0
  BY ChunkIsNat
<1> QED
  BY <1>1, <1>2 DEF TaskChunks

(* The start of an attempt.                                                *)
LEMMA StartStep ==
    ASSUME TypeOK, NEW t \in Tasks, TaskChunks(t), Connect(t) \/ TcpFails(t)
    PROVE  TaskChunks(t)'
<1>1. /\ pos'[t] = 0 /\ accepted'[t] = <<>> /\ offset'[t] = 0
      /\ pc'[t] = IF 0 < Size(t) THEN "chunk" ELSE "next"
  <2>1. CASE Connect(t)
    <3>1. accepted[t] = <<>> /\ pos[t] = 0 /\ offset[t] = 0 * Chunk
      BY <2>1 DEF Connect, TaskChunks
    <3> QED
      BY <2>1, <3>1, TypeOfTask DEF Connect, NextChunk, Goto, TypeOK, upload
  <2>2. CASE TcpFails(t)
    BY <2>2 DEF TcpFails, Restart, NextChunk, Goto, TypeOK
  <2> QED
    BY <2>1, <2>2
<1>2. Smaller(0, Available(t)) = 0
  BY TypeOfTask DEF Smaller
<1>3. 0 * Chunk = 0 /\ Size(t) \in Nat
  BY TypeOfTask
<1>4. part' = part
  BY DEF Connect, TcpFails, Restart, upload
<1>5. Available(t)' = Available(t) /\ Size(t)' = Size(t)
  BY <1>4 DEF Available, Size
<1> QED
  BY <1>1, <1>2, <1>3, <1>5 DEF TaskChunks, ChunkAt

LEMMA ChunkStep ==
    ASSUME TypeOK, ChunkInv, [Next]_vars PROVE ChunkInv'
<1>1. CASE UNCHANGED vars
  BY <1>1, Elsewhere DEF ChunkInv, vars, upload
<1>2. ASSUME NEW t \in Tasks, NEW u \in Tasks,
             Lock(t) \/ TaskStep(t) \/ ServerBreaks(t)
      PROVE  TaskChunks(u)'
  <2>1. TaskChunks(u)
    BY DEF ChunkInv
  <2>2. CASE u # t
    BY <1>2, <2>1, <2>2, StepElsewhere
  <2>3. CASE u = t
    BY <1>2, <2>1, <2>3, SendStep, ReplyStep, OtherStep, StartStep, NextStreamStep DEF TaskStep
  <2> QED
    BY <2>2, <2>3
<1> QED
  BY <1>1, <1>2 DEF Next, ChunkInv

(* An upload that succeeds has had every chunk acknowledged in one         *)
(* attempt, each with its own data, whatever the attempt over TCP left     *)
(* behind (HighwayClient::upload).                                         *)
THEOREM UploadWhole == Spec => []DeliveredWhole
<1>1. Init => ChunkInv
  <2> SUFFICES ASSUME Init, NEW t \in Tasks PROVE TaskChunks(t)
    BY DEF ChunkInv
  <2>1. /\ offset[t] = 0 /\ accepted[t] = <<>> /\ pc[t] = "prepare" /\ via[t] = "none"
    BY DEF Init
  <2>2. 0 * Chunk = 0
    BY ChunkIsNat
  <2> QED
    BY <2>1, <2>2 DEF TaskChunks
<1>2. ChunkInv => DeliveredWhole
  BY DEF ChunkInv, TaskChunks, DeliveredWhole
<1> QED
  BY <1>1, <1>2, TypeCorrect, ChunkStep, PTL DEF Spec

=============================================================================
