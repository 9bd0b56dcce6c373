-------------------------- MODULE MessagingProofs ---------------------------
(***************************************************************************)
(* Proofs about Messaging, for any packets, messages and workloads: what a *)
(* task has asked, what has been answered or failed and what is still to   *)
(* be asked always make up its program, so that no notice is lost, a       *)
(* failure stays where it is, and a message is posted whole and to the     *)
(* peer its files were announced for.                                      *)
(***************************************************************************)
EXTENDS Messaging, ListLemmas, FiniteSetTheorems

(* Whom a request is about (besides the place of an entity) and what it     *)
(* asks for.                                                                *)
Names == {"member", "invitor", "operator", "friend", "join", "cache"}
Files == {"groupImage", "c2cImage", "multi", "groupFile", "c2cFile", "groupRecord", "c2cRecord", "uid", "video"}
Parts == {"ticket", "open", "hash", "head", "hashThumb", "encode", "announce",
          "1001", "1002", "1003", "1004", "1005", "1006", "1007", "1008", "seek", "seekThumb"}
Asks  == Files \cup Parts \cup {"friend", "group", "groupVideo", "uin", "stranger", "requests", "filtered", "target", "refresh"}

Lookups == {"friend", "group"}
Requested == [of : Nat \cup Names, ask : Asks, must : BOOLEAN]
Pairs     == (Nat \cup Names) \X (Asks \cup {"send"})

(* By this a task remembers that a request has been answered or has         *)
(* failed.                                                                  *)
Pair(r)   == <<r.of, r.ask>>

(* The requests of a program, in whatever stage.                            *)
Steps(s)  == UNION Items(s)

(* No request stands in a program twice.                                    *)
Distinct(s) ==
    \A i, j \in 1 .. Len(s) : \A a \in s[i], b \in s[j] : Pair(a) = Pair(b) => i = j /\ a = b

(* The requests a task has to make, from messaging_logic and wt_logic.      *)
Program(t) ==
    IF t \in Messages THEN Outgoing(Message(t))
    ELSE IF Parse(Push(t)).result = "chain" THEN ChainSteps(Parse(Push(t)))
    ELSE NoticeSteps(t, Parse(Push(t)).name)

(* The types of the variables.                                              *)
Shape ==
    /\ given \in Workloads
    /\ pc \in [Tasks -> {"idle", "run", "posted"} \cup Settled]
    /\ todo \in [Tasks -> Seq(SUBSET Requested)]
    /\ known \in [Tasks -> SUBSET Pairs] /\ failed \in [Tasks -> SUBSET Pairs]
    /\ uid \in [Tasks -> {"", "peer"}]
    /\ packet \in [Messages -> {NotPosted, "", "peer"}]
    /\ peers \in [Messages -> SUBSET {"", "peer"}]
    /\ name \in Pushes \cup {Nobody}

(* The packet makes an event: a message, or a notice that has a handler.    *)
Delivers(p) ==
    \/ Parse(Push(p)).result = "chain"
    \/ Parse(Push(p)).result = "notice" /\ Parse(Push(p)).name \in Handled

(* How far a packet can be.                                                 *)
PushStage(p) ==
    /\ pc[p] \notin {"posted", "ok", "err"}
    /\ pc[p] # "idle" => p \in DOMAIN given.pushes
    /\ pc[p] \in {"run", "sent"} => Delivers(p)

(* How far a message can be.                                                *)
MessageStage(m) ==
    /\ pc[m] \in {"idle", "run", "posted", "ok", "err"}
    /\ pc[m] # "idle" => m \in DOMAIN given.messages
    /\ packet[m] # NotPosted => pc[m] \in {"posted", "ok", "err"}
    /\ pc[m] = "err" => failed[m] # {}
    /\ pc[m] = "idle" => peers[m] = {}

(* Only a running task has requests left, and no stage is empty.            *)
Stage(t) ==
    /\ pc[t] # "run" => todo[t] = <<>>
    /\ pc[t] = "idle" => known[t] = {} /\ failed[t] = {} /\ uid[t] = ""
    /\ {} \notin Items(todo[t])

(* The task has been given its program and has not been broken off.         *)
Running(t) == pc[t] \in {"run", "sent"} \/ (t \in Messages /\ packet[t] # NotPosted)

(* Every request of the program is still to be made, has been answered,     *)
(* or is one the code makes without `?` and has failed. Nothing else        *)
(* becomes of a request.                                                    *)
Covered(t) ==
    Running(t) =>
        \A r \in Steps(Program(t)) :
            r \in Steps(todo[t]) \/ Pair(r) \in known[t] \/ (~ r.must /\ Pair(r) \in failed[t])

(* The request is in what is left of the program.                           *)
OutFor(t, i, ask) == \E r \in Steps(todo[t]) : Pair(r) = <<i, ask>>

(* A video of a group whose url could not be fetched is asked for once      *)
(* more (messaging_logic.rs, the None arm of the video).                    *)
Fallback(p) ==
    pc[p] \in {"run", "sent"} /\ Push(p).grouped =>
        \A i \in Nat : <<i, "video">> \in failed[p] =>
            OutFor(p, i, "groupVideo") \/ <<i, "groupVideo">> \in known[p] \cup failed[p]

(* Only a request to join makes requests that end the task when they        *)
(* fail.                                                                    *)
MustOnly(p) ==
    \A r \in Steps(todo[p]) : r.must => Parse(Push(p)) = Notice("joinRequest") /\ r.of \in {"member", "join"}

(* NoticeNotLost, of one packet.                                            *)
Told(p) ==
    pc[p] \in Settled =>
        \/ Parse(Push(p)).result \in {"refused", "panics", "nothing"}
        \/ pc[p] = "sent"
        \/ /\ Parse(Push(p)) = Notice("joinRequest")
           /\ ~Push(p).listed \/ \E f \in failed[p] : f[1] \in {"member", "join"}

(* A request is made once: what is left of the program has not been         *)
(* answered and has not failed, and the two exclude each other.             *)
Once(t) ==
    /\ Distinct(todo[t])
    /\ known[t] \cap failed[t] = {}
    /\ \A r \in Steps(todo[t]) : Pair(r) \notin known[t] \cup failed[t] /\ r.ask # "send"
    /\ <<Itself, "send">> \notin known[t]

(* The second request for a video comes only after the first has failed.    *)
SecondTry(t) ==
    \A i \in Nat \cup Names :
        OutFor(t, i, "groupVideo") \/ <<i, "groupVideo">> \in known[t] \cup failed[t]
            => <<i, "video">> \in failed[t]

(* The lookup that a message to a friend begins with.                       *)
FriendStep == [of |-> Itself, ask |-> "friend", must |-> FALSE]

(* The lookup is still ahead, and nothing has been announced.               *)
Unasked(m) ==
    /\ todo[m] # <<>> /\ Head(todo[m]) = {FriendStep}
    /\ \A r \in Steps(Tail(todo[m])) : r.ask \notin Lookups
    /\ peers[m] = {} /\ uid[m] = "" /\ Pair(FriendStep) \notin known[m]

(* The lookup is over, its outcome is the uid the task goes on with, and    *)
(* every announcement has been made under it.                               *)
Asked(m) ==
    /\ \A r \in Steps(todo[m]) : r.ask \notin Lookups
    /\ uid[m] = IF Pair(FriendStep) \in known[m] THEN "peer" ELSE ""
    /\ peers[m] \subseteq {uid[m]}

(* A message to a friend is before or after its lookup, and its packet      *)
(* goes to that uid.                                                        *)
FriendFirst(m) ==
    pc[m] # "idle" /\ Message(m).typ = "friend" =>
        (Unasked(m) \/ Asked(m)) /\ (packet[m] # NotPosted => packet[m] = uid[m])

PushInv(p)    == PushStage(p) /\ Fallback(p) /\ MustOnly(p) /\ Told(p)
MessageInv(m) == MessageStage(m) /\ FriendFirst(m)

(* What holds of every task by itself.                                      *)
TaskInv(t) ==
    /\ Stage(t) /\ Covered(t) /\ Once(t) /\ SecondTry(t)
    /\ t \in Pushes => PushInv(t)
    /\ t \in Messages => MessageInv(t)

(* The packets whose event has been sent.                                   *)
SentPushes == {p \in Pushes : pc[p] = "sent"}

(* How often the event in a channel can have been handled: a listener       *)
(* that has been woken by one version may read a later one, and is then     *)
(* woken by that one too.                                                   *)
MostReads(c) ==
    IF mark[c] < chan[c].version THEN IF listener = c THEN 0 ELSE 1
    ELSE IF listener = c THEN 1 ELSE 2
WatchShape ==
    /\ chan \in [Channels -> [by : Pushes \cup {Nobody}, version : Nat]]
    /\ mark \in [Channels -> Nat] /\ listener \in Channels \cup {Nobody, Answering, Dead}
    /\ sentAs \in [Pushes -> Nat] /\ reads \in [Pushes -> Nat]

(* A channel's version counts sends, and it keeps the last event.           *)
Channel(c) ==
    /\ mark[c] <= chan[c].version /\ chan[c].version <= Cardinality(SentPushes)
    /\ listener = c => mark[c] > 0
    /\ chan[c].version > 0 => /\ chan[c].by \in SentPushes /\ Target(chan[c].by) = c
                              /\ reads[chan[c].by] <= MostReads(c)

(* An event is handled twice at most, and only if it has been sent.         *)
Counted(p) ==
    /\ reads[p] <= 2 /\ sentAs[p] <= Cardinality(SentPushes)
    /\ p \notin SentPushes => reads[p] = 0
Watched == WatchShape /\ (\A c \in Channels : Channel(c)) /\ (\A p \in Pushes : Counted(p))

(* The inductive invariant.                                                 *)
Inv == Shape /\ (\A t \in Tasks : TaskInv(t)) /\ Watched

-----------------------------------------------------------------------------
LEMMA StepsShort ==
    ASSUME NEW x
    PROVE  Steps(<<>>) = {} /\ Steps(<<x>>) = x
  <1>1. Items(<<>>) = {} /\ Items(<<x>>) = {x}
    BY ItemsShort
  <1>2. QED
    BY <1>1 DEF Steps

LEMMA StepsConcat ==
    ASSUME NEW S, NEW s \in Seq(S), NEW t \in Seq(S)
    PROVE  /\ s \o t \in Seq(S)
           /\ Steps(s \o t) = Steps(s) \cup Steps(t)
  <1>1. s \o t \in Seq(S)
    BY ConcatProperties
  <1>2. Items(s \o t) = Items(s) \cup Items(t)
    BY ItemsConcat
  <1>3. QED
    BY <1>1, <1>2 DEF Steps

LEMMA StepAt ==
    ASSUME NEW s, NEW r
    PROVE  r \in Steps(s) <=> \E i \in 1 .. Len(s) : r \in s[i]
  BY Zenon DEF Steps, Items

LEMMA DistinctShort ==
    ASSUME NEW r
    PROVE  Distinct(<<>>) /\ Distinct(<<{r}>>)
  <1>1. Distinct(<<>>)
    BY DEF Distinct
  <1>2. Distinct(<<{r}>>)
    <2> DEFINE s == <<{r}>>
    <2>1. \A i \in 1 .. Len(s) : i = 1 /\ s[i] = {r}
      OBVIOUS
    <2> HIDE DEF s
    <2>2. Distinct(s)
      BY <2>1, Zenon DEF Distinct
    <2>3. QED
      BY <2>2 DEF s
  <1>3. QED
    BY <1>1, <1>2

(* Two programs that have no request in common, one after the other.        *)
LEMMA DistinctConcat ==
    ASSUME NEW S, NEW s \in Seq(S), NEW t \in Seq(S), Distinct(s), Distinct(t),
           \A a \in Steps(s), b \in Steps(t) : Pair(a) # Pair(b)
    PROVE  Distinct(s \o t)
  <1>1. /\ Len(s \o t) = Len(s) + Len(t)
        /\ \A i \in 1 .. Len(s) + Len(t) : (s \o t)[i] = IF i <= Len(s) THEN s[i] ELSE t[i - Len(s)]
        /\ Len(s) \in Nat /\ Len(t) \in Nat
    BY ConcatProperties
  <1>2. SUFFICES ASSUME NEW i \in 1 .. Len(s) + Len(t), NEW j \in 1 .. Len(s) + Len(t),
                        NEW a \in (s \o t)[i], NEW b \in (s \o t)[j], Pair(a) = Pair(b)
                 PROVE  i = j /\ a = b
    BY <1>1, Zenon DEF Distinct
  <1>3. CASE i <= Len(s) /\ j <= Len(s)
    <2>1. i \in 1 .. Len(s) /\ j \in 1 .. Len(s) /\ a \in s[i] /\ b \in s[j]
      BY <1>1, <1>2, <1>3
    <2>2. QED
      BY <1>2, <2>1, Zenon DEF Distinct
  <1>4. CASE ~ (i <= Len(s)) /\ ~ (j <= Len(s))
    <2> DEFINE k == i - Len(s)
               l == j - Len(s)
    <2>1. k \in 1 .. Len(t) /\ l \in 1 .. Len(t) /\ a \in t[k] /\ b \in t[l]
      BY <1>1, <1>2, <1>4
    <2>2. k = l => i = j
      BY <1>1
    <2> HIDE DEF k, l
    <2>3. QED
      BY <1>2, <2>1, <2>2, ZenonT(30) DEF Distinct
  <1>5. CASE i <= Len(s) /\ ~ (j <= Len(s))
    <2>1. i \in 1 .. Len(s) /\ j - Len(s) \in 1 .. Len(t) /\ a \in s[i] /\ b \in t[j - Len(s)]
      BY <1>1, <1>2, <1>5
    <2>2. a \in Steps(s) /\ b \in Steps(t)
      BY <2>1, StepAt
    <2>3. QED
      BY <1>2, <2>2
  <1>6. CASE ~ (i <= Len(s)) /\ j <= Len(s)
    <2>1. i - Len(s) \in 1 .. Len(t) /\ j \in 1 .. Len(s) /\ a \in t[i - Len(s)] /\ b \in s[j]
      BY <1>1, <1>2, <1>6
    <2>2. a \in Steps(t) /\ b \in Steps(s)
      BY <2>1, StepAt
    <2>3. QED
      BY <1>2, <2>2
  <1>7. QED
    BY <1>3, <1>4, <1>5, <1>6

(* A stage loses requests: those that are left are still distinct.          *)
LEMMA DistinctShrinks ==
    ASSUME NEW s, NEW w, NEW d \in Nat, Distinct(s), Len(w) \in Nat,
           \A i \in 1 .. Len(w) : i + d \in 1 .. Len(s) /\ w[i] \subseteq s[i + d]
    PROVE  Distinct(w)
  <1>1. SUFFICES ASSUME NEW i \in 1 .. Len(w), NEW j \in 1 .. Len(w),
                        NEW a \in w[i], NEW b \in w[j], Pair(a) = Pair(b)
                 PROVE  i = j /\ a = b
    BY Zenon DEF Distinct
  <1> DEFINE k == i + d
             l == j + d
  <1>2. k \in 1 .. Len(s) /\ l \in 1 .. Len(s) /\ a \in s[k] /\ b \in s[l]
    OBVIOUS
  <1>3. k = l => i = j
    OBVIOUS
  <1> HIDE DEF k, l
  <1>4. QED
    BY <1>1, <1>2, <1>3, ZenonT(30) DEF Distinct

-----------------------------------------------------------------------------
(* A program without a request of its first stage; an empty stage is        *)
(* dropped.                                                                 *)
Rest(s, step) ==
    IF Head(s) \ {step} = {} THEN Tail(s) ELSE <<Head(s) \ {step}>> \o Tail(s)

LEMMA RestShape ==
    ASSUME NEW S, NEW s \in Seq(SUBSET S), s # <<>>, NEW step \in Head(s)
    PROVE  /\ Rest(s, step) \in Seq(SUBSET S)
           /\ Items(Rest(s, step)) \subseteq {Head(s) \ {step}} \cup Items(Tail(s))
           /\ Steps(Rest(s, step)) = (Head(s) \ {step}) \cup Steps(Tail(s))
           /\ Steps(s) = Head(s) \cup Steps(Tail(s))
           /\ {} \notin Items(s) => {} \notin Items(Rest(s, step))
           /\ Distinct(s) => Distinct(Rest(s, step))
  <1> DEFINE left == Head(s) \ {step}
  <1>1. /\ Tail(s) \in Seq(SUBSET S) /\ Head(s) \in SUBSET S
        /\ Items(s) = {Head(s)} \cup Items(Tail(s))
    BY ItemsTail, HeadTailProperties
  <1>2. /\ Head(s) = s[1] /\ Len(Tail(s)) \in Nat
        /\ \A i \in 1 .. Len(Tail(s)) : i + 1 \in 1 .. Len(s) /\ Tail(s)[i] = s[i + 1]
        /\ 1 \in 1 .. Len(s) /\ Len(s) = Len(Tail(s)) + 1
    BY HeadTailProperties
  <1>3. Steps(s) = Head(s) \cup Steps(Tail(s))
    BY <1>1 DEF Steps
  <1>4. CASE left = {}
    <2>1. Rest(s, step) = Tail(s)
      BY <1>4 DEF Rest
    <2>2. Distinct(s) => Distinct(Tail(s))
      <3> DEFINE w == Tail(s)
      <3>1. \A i \in 1 .. Len(w) : i + 1 \in 1 .. Len(s) /\ w[i] \subseteq s[i + 1]
        BY <1>2
      <3>2. Len(w) \in Nat
        BY <1>2
      <3> HIDE DEF w
      <3>3. Distinct(s) => Distinct(w)
        BY <3>1, <3>2, DistinctShrinks
      <3>4. QED
        BY <3>3 DEF w
    <2>3. QED
      BY <1>1, <1>3, <1>4, <2>1, <2>2
  <1>5. CASE left # {}
    <2>1. Rest(s, step) = <<left>> \o Tail(s)
      BY <1>5 DEF Rest
    <2>2. <<left>> \in Seq(SUBSET S) /\ Len(<<left>>) = 1 /\ <<left>>[1] = left
      BY <1>1
    <2>3. Items(<<left>>) = {left}
      BY ItemsShort
    <2> DEFINE w == <<left>> \o Tail(s)
    <2>4. /\ w \in Seq(SUBSET S)
          /\ Items(w) = {left} \cup Items(Tail(s))
      <3>1. w \in Seq(SUBSET S)
        BY <1>1, <2>2, ConcatProperties
      <3>2. Items(w) = Items(<<left>>) \cup Items(Tail(s))
        <4> DEFINE u == <<left>>
                   v == Tail(s)
        <4>1. u \in Seq(SUBSET S) /\ v \in Seq(SUBSET S)
          BY <1>1, <2>2
        <4> HIDE DEF u, v
        <4>2. Items(u \o v) = Items(u) \cup Items(v)
          BY <4>1, ItemsConcat
        <4>3. QED
          BY <4>2 DEF u, v
      <3>3. QED
        BY <2>3, <3>1, <3>2
    <2>5. /\ Len(w) = Len(s)
          /\ \A i \in 1 .. Len(w) : w[i] \subseteq s[i]
      <3>1. /\ Len(w) = Len(<<left>>) + Len(Tail(s))
            /\ \A i \in 1 .. Len(<<left>>) + Len(Tail(s)) :
                  w[i] = IF i <= Len(<<left>>) THEN <<left>>[i] ELSE Tail(s)[i - Len(<<left>>)]
        BY <1>1, <2>2, ConcatProperties
      <3> HIDE DEF w
      <3>2. ASSUME NEW i \in 1 .. Len(s) PROVE w[i] \subseteq s[i]
        <4>1. CASE i = 1
          BY <1>2, <2>2, <3>1, <4>1
        <4>2. CASE i # 1
          <5>1. i - 1 \in 1 .. Len(Tail(s)) /\ (i - 1) + 1 = i
            BY <1>2, <4>2
          <5>2. w[i] = Tail(s)[i - 1]
            BY <1>2, <2>2, <3>1, <4>2
          <5>3. QED
            BY <1>2, <5>1, <5>2
        <4>3. QED
          BY <4>1, <4>2
      <3>3. QED
        BY <1>2, <2>2, <3>1, <3>2
    <2> HIDE DEF w
    <2>6. Distinct(s) => Distinct(w)
      <3>1. Len(w) \in Nat /\ 0 \in Nat
        BY <2>4
      <3>2. \A i \in 1 .. Len(w) : i + 0 \in 1 .. Len(s) /\ w[i] \subseteq s[i + 0]
        BY <2>5
      <3>3. QED
        BY <3>1, <3>2, DistinctShrinks
    <2>7. Steps(w) = left \cup Steps(Tail(s))
      BY <2>4 DEF Steps
    <2>8. Rest(s, step) = w
      BY <2>1 DEF w
    <2> HIDE DEF left
    <2>9. {} \notin Items(s) => {} \notin Items(w)
      BY <1>1, <1>5, <2>4
    <2>10. QED
      BY <1>1, <1>3, <2>4, <2>6, <2>7, <2>8, <2>9 DEF left
  <1>6. QED
    BY <1>4, <1>5

(* The request that has ended is not left anywhere in the program.          *)
LEMMA RestLeaves ==
    ASSUME NEW S, NEW s \in Seq(SUBSET S), s # <<>>, NEW step \in Head(s), Distinct(s)
    PROVE  \A r \in Steps(Rest(s, step)) : Pair(r) # Pair(step)
  <1>1. SUFFICES ASSUME NEW r \in Steps(Rest(s, step)), Pair(r) = Pair(step) PROVE FALSE
    OBVIOUS
  <1>2. Steps(Rest(s, step)) = (Head(s) \ {step}) \cup Steps(Tail(s))
    BY RestShape
  <1>3. /\ Head(s) = s[1] /\ 1 \in 1 .. Len(s)
        /\ \A i \in 1 .. Len(Tail(s)) : i + 1 \in 1 .. Len(s) /\ i + 1 # 1 /\ Tail(s)[i] = s[i + 1]
    BY HeadTailProperties
  <1>4. step \in s[1]
    BY <1>3
  <1>5. CASE r \in Head(s) \ {step}
    <2>1. r \in s[1] /\ r # step
      BY <1>3, <1>5
    <2>2. QED
      BY <1>1, <1>3, <1>4, <2>1, ZenonT(30) DEF Distinct
  <1>6. CASE r \in Steps(Tail(s))
    <2>1. PICK i \in 1 .. Len(Tail(s)) : r \in Tail(s)[i]
      BY <1>6, StepAt
    <2> DEFINE k == i + 1
    <2>2. k \in 1 .. Len(s) /\ k # 1 /\ r \in s[k]
      BY <1>3, <2>1
    <2> HIDE DEF k
    <2>3. QED
      BY <1>1, <1>3, <1>4, <2>2, Zenon DEF Distinct
  <1>7. QED
    BY <1>2, <1>5, <1>6

-----------------------------------------------------------------------------
(* Every program asks for the entity at its own place only.                 *)
EachForItsPlace(seqs) ==
    \A i \in 1 .. Len(seqs) : Distinct(seqs[i]) /\ \A r \in Steps(seqs[i]) : r.of = i

(* Programs for different places, joined, are distinct.                     *)
LEMMA FlattenDistinct ==
    ASSUME NEW S, NEW seqs \in Seq(Seq(S)),
           EachForItsPlace(seqs)
    PROVE  Distinct(FlattenSeq(seqs))
  <1>1. CASE seqs = <<>>
    <2>1. FlattenSeq(seqs) = <<>>
      BY <1>1 DEF FlattenSeq
    <2>2. QED
      BY <2>1, DistinctShort
  <1>2. CASE seqs # <<>>
    <2>1. PICK g : /\ Unfolds(seqs, g) /\ FlattenSeq(seqs) = g[Len(seqs)]
                   /\ \A n \in 1 .. Len(seqs) :
                         g[n] \in Seq(S) /\ Items(g[n]) = UNION {Items(seqs[i]) : i \in 1 .. n}
      BY <1>2, FlattenUnfolds
    <2> DEFINE n == Len(seqs)
               Good == {k \in 1 .. n : Distinct(g[k])}
    <2>2. n \in Nat /\ n >= 1 /\ \A i \in 1 .. n : seqs[i] \in Seq(S)
      BY <1>2
    <2>3. 1 \in Good
      <3>1. g[1] = seqs[1] /\ 1 \in 1 .. n
        BY <2>1, <2>2 DEF Unfolds
      <3>2. QED
        BY <3>1 DEF EachForItsPlace
    <2>4. ASSUME NEW k \in 1 .. n, Distinct(g[k]), k + 1 \in 1 .. n
          PROVE  Distinct(g[k + 1])
      <3> DEFINE l == k + 1
      <3>1. l # 1 /\ l - 1 = k /\ l \in 1 .. n
        BY <2>4
      <3> HIDE DEF l
      <3>2. g[l] = g[k] \o seqs[l]
        BY <2>1, <3>1, Zenon DEF Unfolds
      <3>3. g[k] \in Seq(S) /\ Items(g[k]) = UNION {Items(seqs[i]) : i \in 1 .. k}
        BY <2>1
      <3>4. ASSUME NEW a \in Steps(g[k]), NEW b \in Steps(seqs[l])
            PROVE  Pair(a) # Pair(b)
        <4>1. PICK i \in 1 .. k : a \in Steps(seqs[i])
          BY <3>3 DEF Steps
        <4>2. i \in 1 .. n /\ i # l
          BY <3>1, <2>2 DEF l
        <4>3. a.of = i /\ b.of = l
          BY <3>1, <4>1, <4>2 DEF EachForItsPlace
        <4>4. QED
          BY <4>2, <4>3 DEF Pair
      <3>5. seqs[l] \in Seq(S) /\ Distinct(seqs[l])
        BY <2>2, <3>1 DEF EachForItsPlace
      <3>6. Distinct(g[k] \o seqs[l])
        BY <2>4, <3>3, <3>4, <3>5, DistinctConcat
      <3>7. QED
        BY <3>2, <3>6 DEF l
    <2>5. \A k \in 1 .. n : k \in Good /\ k + 1 \in 1 .. n => k + 1 \in Good
      BY <2>4
    <2>6. 1 .. n \subseteq Good
      <3> HIDE DEF Good, n
      <3>1. QED
        BY <2>2, <2>3, <2>5, Induction
    <2>7. QED
      BY <2>1, <2>2, <2>6, SMTT(30)
  <1>3. QED
    BY <1>1, <1>2

(* A request.                                                               *)
Of(of, ask, must) == [of |-> of, ask |-> ask, must |-> must]

(* The requests of one entity: one at a time.                               *)
Singly(of, asks, must) == [i \in 1 .. Len(asks) |-> {Of(of, asks[i], must)}]

LEMMA OneByOne ==
    ASSUME NEW of \in Nat \cup Names, NEW asks \in Seq(Asks), NEW must \in BOOLEAN, Uniq(asks)
    PROVE  /\ Singly(of, asks, must) \in Seq(SUBSET Requested)
           /\ {} \notin Items(Singly(of, asks, must))
           /\ Distinct(Singly(of, asks, must))
           /\ \A r : r \in Steps(Singly(of, asks, must)) <=> \E i \in 1 .. Len(asks) : r = Of(of, asks[i], must)
  <1> DEFINE s == Singly(of, asks, must)
  <1>1. Len(asks) \in Nat /\ \A i \in 1 .. Len(asks) : asks[i] \in Asks
    OBVIOUS
  <1>2. \A i \in 1 .. Len(asks) : {Of(of, asks[i], must)} \in SUBSET Requested
    BY <1>1 DEF Of, Requested
  <1>3. s \in Seq(SUBSET Requested) /\ Len(s) = Len(asks)
    BY <1>1, <1>2 DEF Singly
  <1>4. \A i \in 1 .. Len(s) : s[i] = {Of(of, asks[i], must)}
    BY <1>3 DEF Singly
  <1> HIDE DEF s
  <1>5. {} \notin Items(s)
    BY <1>4, Zenon DEF Items
  <1>6. Distinct(s)
    <2>1. SUFFICES ASSUME NEW i \in 1 .. Len(s), NEW j \in 1 .. Len(s),
                          NEW a \in s[i], NEW b \in s[j], Pair(a) = Pair(b)
                   PROVE  i = j /\ a = b
      BY Zenon DEF Distinct
    <2>2. a = Of(of, asks[i], must) /\ b = Of(of, asks[j], must)
      BY <1>4
    <2>3. asks[i] = asks[j]
      BY <2>1, <2>2 DEF Pair, Of
    <2>4. i = j
      BY <1>3, <2>3, Zenon DEF Uniq
    <2>5. QED
      BY <2>2, <2>4
  <1>7. ASSUME NEW r PROVE r \in Steps(s) <=> \E i \in 1 .. Len(asks) : r = Of(of, asks[i], must)
    <2>1. r \in Steps(s) <=> \E i \in 1 .. Len(s) : r \in s[i]
      BY StepAt
    <2>2. QED
      BY <1>3, <1>4, <2>1, Zenon
  <1>8. QED
    BY <1>3, <1>5, <1>6, <1>7 DEF s

LEMMA InTurnIsOneByOne ==
    ASSUME NEW of, NEW asks
    PROVE  /\ InTurn(of, asks, Try) = Singly(of, asks, FALSE)
           /\ InTurn(of, asks, Must) = Singly(of, asks, TRUE)
  BY Zenon DEF InTurn, Try, Must, Of, Singly

-----------------------------------------------------------------------------
(* What an entity of a pushed message is looked up by                       *)
(* (messaging_logic.rs).                                                    *)
LEMMA FetchShape ==
    ASSUME NEW typ, NEW entity
    PROVE  Fetch(typ, entity) \in Seq(Files) /\ Uniq(Fetch(typ, entity))
  <1> DEFINE Plain(s) == s \in Seq(Files) /\ Uniq(s)
  <1>1. Plain(<<>>)
    BY DEF Uniq
  <1>2. ASSUME NEW x \in Files PROVE Plain(<<x>>)
    BY <1>2 DEF Uniq
  <1>3. Plain(<<"uid", "video">>)
    <2> DEFINE s == <<"uid", "video">>
    <2>1. "uid" \in Files /\ "video" \in Files
      BY DEF Files
    <2>2. s \in Seq(Files) /\ Len(s) = 2 /\ s[1] = "uid" /\ s[2] = "video"
      BY <2>1
    <2> HIDE DEF s
    <2>3. \A i \in 1 .. Len(s) : i = 1 \/ i = 2
      BY <2>2
    <2>4. Plain(s)
      BY <2>2, <2>3 DEF Uniq
    <2>5. QED
      BY <2>4 DEF s
  <1> HIDE DEF Plain
  <1>4. \A x \in {"groupImage", "c2cImage", "multi", "groupFile", "c2cFile", "groupRecord", "c2cRecord", "video"} :
           Plain(<<x>>)
    BY <1>2 DEF Files
  <1>5. Plain(FetchImage(typ)) /\ Plain(FetchRecord(typ))
    BY <1>4 DEF FetchImage, FetchRecord
  <1>6. Plain(FetchChains) /\ Plain(FetchGroupFile(typ)) /\ Plain(<<"c2cFile">>)
    BY <1>1, <1>4 DEF FetchChains, FetchGroupFile
  <1>7. Plain(FetchVideo(typ))
    BY <1>3, <1>4 DEF FetchVideo
  <1>8. Plain(Fetch(typ, entity))
    BY <1>1, <1>5, <1>6, <1>7 DEF Fetch
  <1>9. QED
    BY <1>8 DEF Plain

(* What a message looks up about its peer before anything else.             *)
LEMMA MetadataShape ==
    ASSUME NEW typ
    PROVE  /\ Metadata(typ) \in Seq(SUBSET Requested)
           /\ {} \notin Items(Metadata(typ))
           /\ Distinct(Metadata(typ))
           /\ \A r \in Steps(Metadata(typ)) : r = Of(Itself, typ, FALSE) /\ typ \in Lookups
           /\ typ = "friend" => Metadata(typ) = <<{FriendStep}>>
  <1> DEFINE s == <<{Of(Itself, typ, FALSE)}>>
  <1>1. typ \in Lookups => s \in Seq(SUBSET Requested)
    <2>1. typ \in Lookups => Of(Itself, typ, FALSE) \in Requested
      BY DEF Of, Requested, Itself, Lookups, Asks
    <2> DEFINE step == Of(Itself, typ, FALSE)
    <2>2. step \in Requested => <<{step}>> \in Seq(SUBSET Requested)
      <3> HIDE DEF step
      <3>1. QED
        OBVIOUS
    <2>3. QED
      BY <2>1, <2>2
  <1>2. Distinct(s) /\ Distinct(<<>>)
    BY DistinctShort
  <1>3. {} \notin Items(s) /\ {} \notin Items(<<>>)
    <2>1. Items(s) = {{Of(Itself, typ, FALSE)}} /\ Items(<<>>) = {}
      BY ItemsShort
    <2> HIDE DEF s
    <2>2. QED
      BY <2>1
  <1>4. Steps(s) = {Of(Itself, typ, FALSE)} /\ Steps(<<>>) = {}
    BY StepsShort
  <1>5. Metadata(typ) = IF typ = "friend" \/ (typ = "group" /\ FullMembers) THEN s ELSE <<>>
    BY DEF Metadata, Try, Of
  <1>6. <<>> \in Seq(SUBSET Requested)
    OBVIOUS
  <1>7. typ = "friend" => s = <<{FriendStep}>>
    BY DEF Of, FriendStep
  <1> HIDE DEF s
  <1>8. QED
    BY <1>1, <1>2, <1>3, <1>4, <1>5, <1>6, <1>7 DEF Lookups

(* The requests of all entities, each for its own place.                    *)
InPlace(n, asks, must) == FlattenSeq([i \in 1 .. n |-> Singly(i, asks[i], must)])

LEMMA ByPlace ==
    ASSUME NEW n \in Nat, NEW must \in BOOLEAN, NEW asks \in [1 .. n -> Seq(Asks)],
           \A i \in 1 .. n : Uniq(asks[i])
    PROVE  /\ InPlace(n, asks, must) \in Seq(SUBSET Requested)
           /\ {} \notin Items(InPlace(n, asks, must))
           /\ Distinct(InPlace(n, asks, must))
           /\ \A r : r \in Steps(InPlace(n, asks, must))
                       <=> \E i \in 1 .. n : \E j \in 1 .. Len(asks[i]) : r = Of(i, asks[i][j], must)
  <1> DEFINE seqs == [i \in 1 .. n |-> Singly(i, asks[i], must)]
  <1>1. ASSUME NEW i \in 1 .. n
        PROVE  /\ seqs[i] \in Seq(SUBSET Requested)
               /\ {} \notin Items(seqs[i])
               /\ Distinct(seqs[i])
               /\ \A r : r \in Steps(seqs[i]) <=> \E j \in 1 .. Len(asks[i]) : r = Of(i, asks[i][j], must)
    <2>1. i \in Nat \cup Names /\ asks[i] \in Seq(Asks) /\ Uniq(asks[i])
      OBVIOUS
    <2>2. seqs[i] = Singly(i, asks[i], must)
      OBVIOUS
    <2>3. QED
      BY <2>1, <2>2, OneByOne
  <1>2. seqs \in Seq(Seq(SUBSET Requested)) /\ Len(seqs) = n
    BY <1>1
  <1> HIDE DEF seqs
  <1>3. FlattenSeq(seqs) \in Seq(SUBSET Requested)
        /\ Items(FlattenSeq(seqs)) = UNION {Items(seqs[i]) : i \in 1 .. Len(seqs)}
    BY <1>2, FlattenStages
  <1>4. {} \notin Items(FlattenSeq(seqs))
    BY <1>1, <1>2, <1>3
  <1>5. Distinct(FlattenSeq(seqs))
    <2>1. ASSUME NEW i \in 1 .. n, NEW r \in Steps(seqs[i])
          PROVE  r.of = i
      <3>1. PICK j \in 1 .. Len(asks[i]) : r = Of(i, asks[i][j], must)
        BY <1>1, <2>1, Zenon
      <3>2. QED
        BY <3>1 DEF Of
    <2>2. EachForItsPlace(seqs)
      BY <1>1, <1>2, <2>1 DEF EachForItsPlace
    <2>3. QED
      BY <1>2, <2>2, FlattenDistinct
  <1>6. ASSUME NEW r
        PROVE  r \in Steps(FlattenSeq(seqs))
                 <=> \E i \in 1 .. n : \E j \in 1 .. Len(asks[i]) : r = Of(i, asks[i][j], must)
    <2>1. r \in Steps(FlattenSeq(seqs)) <=> \E i \in 1 .. n : r \in Steps(seqs[i])
      <3>1. r \in Steps(FlattenSeq(seqs)) <=> \E x \in Items(FlattenSeq(seqs)) : r \in x
        BY DEF Steps
      <3>2. \A x : x \in Items(FlattenSeq(seqs)) <=> \E i \in 1 .. n : x \in Items(seqs[i])
        BY <1>2, <1>3
      <3>3. \A i \in 1 .. n : r \in Steps(seqs[i]) <=> \E x \in Items(seqs[i]) : r \in x
        BY DEF Steps
      <3>4. QED
        BY <3>1, <3>2, <3>3, Zenon
    <2>2. QED
      BY <1>1, <2>1, Zenon
  <1>7. InPlace(n, asks, must) = FlattenSeq(seqs)
    BY DEF InPlace, seqs
  <1>8. QED
    BY <1>3, <1>4, <1>5, <1>6, <1>7

(* The program of a pushed message asks for every entity what Fetch         *)
(* says.                                                                    *)
LEMMA ChainStepsShape ==
    ASSUME NEW chain, NEW S, chain.entities \in Seq(S)
    PROVE  /\ ChainSteps(chain) \in Seq(SUBSET Requested)
           /\ {} \notin Items(ChainSteps(chain))
           /\ Distinct(ChainSteps(chain))
           /\ \A r \in Steps(ChainSteps(chain)) : ~ r.must /\ r.ask \notin {"groupVideo", "send"}
           /\ \A i \in 1 .. Len(chain.entities) :
                 \A j \in 1 .. Len(Fetch(chain.typ, chain.entities[i])) :
                    Of(i, Fetch(chain.typ, chain.entities[i])[j], FALSE) \in Steps(ChainSteps(chain))
  <1> DEFINE n    == Len(chain.entities)
             asks == [i \in 1 .. n |-> Fetch(chain.typ, chain.entities[i])]
             seqs == [i \in 1 .. n |-> InTurn(i, Fetch(chain.typ, chain.entities[i]), Try)]
             f    == FlattenSeq(seqs)
             d    == Metadata(chain.typ)
  <1>1. n \in Nat
    OBVIOUS
  <1>2. asks \in [1 .. n -> Seq(Files)] /\ \A i \in 1 .. n : Uniq(asks[i])
    BY FetchShape
  <1>3. asks \in [1 .. n -> Seq(Asks)]
    <2>1. Files \subseteq Asks
      BY DEF Asks
    <2>2. QED
      BY <1>2, <2>1, SeqMonotonic
  <1>4. seqs = [i \in 1 .. n |-> Singly(i, asks[i], FALSE)]
    <2>1. \A i \in 1 .. n : InTurn(i, Fetch(chain.typ, chain.entities[i]), Try) = Singly(i, asks[i], FALSE)
      <3>1. \A i \in 1 .. n : asks[i] = Fetch(chain.typ, chain.entities[i])
        OBVIOUS
      <3> HIDE DEF asks
      <3>2. QED
        BY <3>1, InTurnIsOneByOne
    <2> HIDE DEF asks, n
    <2>2. QED
      BY <2>1, Zenon
  <1>5. ChainSteps(chain) = f \o d
    BY DEF ChainSteps
  <1>6. \A i \in 1 .. n : asks[i] = Fetch(chain.typ, chain.entities[i])
    OBVIOUS
  <1> HIDE DEF n, asks, seqs
  <1>7. /\ f \in Seq(SUBSET Requested)
        /\ {} \notin Items(f)
        /\ Distinct(f)
        /\ \A r : r \in Steps(f) <=> \E i \in 1 .. n : \E j \in 1 .. Len(asks[i]) : r = Of(i, asks[i][j], FALSE)
    <2> DEFINE must == FALSE
    <2>1. must \in BOOLEAN
      OBVIOUS
    <2>2. f = InPlace(n, asks, must)
      BY <1>4 DEF InPlace
    <2> HIDE DEF must, f
    <2>3. \A i \in 1 .. n : Uniq(asks[i])
      BY <1>2
    <2> DEFINE g == InPlace(n, asks, must)
    <2>4. /\ g \in Seq(SUBSET Requested)
          /\ {} \notin Items(g)
          /\ Distinct(g)
          /\ \A r : r \in Steps(g) <=> \E i \in 1 .. n : \E j \in 1 .. Len(asks[i]) : r = Of(i, asks[i][j], must)
      BY <1>1, <1>3, <2>1, <2>3, ByPlace
    <2>5. QED
      BY <2>2, <2>4 DEF must
  <1>8. /\ d \in Seq(SUBSET Requested)
        /\ {} \notin Items(d)
        /\ Distinct(d)
        /\ \A r \in Steps(d) : r = Of(Itself, chain.typ, FALSE) /\ chain.typ \in Lookups
    BY MetadataShape
  <1> HIDE DEF f, d
  <1>9. ASSUME NEW r \in Steps(f) PROVE ~ r.must /\ r.ask \in Files
    <2>1. PICK i \in 1 .. n : \E j \in 1 .. Len(asks[i]) : r = Of(i, asks[i][j], FALSE)
      BY <1>7
    <2>2. PICK j \in 1 .. Len(asks[i]) : r = Of(i, asks[i][j], FALSE)
      BY <2>1
    <2>3. asks[i][j] \in Files
      BY <1>2
    <2>4. QED
      BY <2>2, <2>3 DEF Of
  <1>10. ASSUME NEW r \in Steps(d) PROVE ~ r.must /\ r.ask \in Lookups
    BY <1>8 DEF Of
  <1>11. f \o d \in Seq(SUBSET Requested) /\ Steps(f \o d) = Steps(f) \cup Steps(d)
         /\ Items(f \o d) = Items(f) \cup Items(d)
    BY <1>7, <1>8, StepsConcat, ItemsConcat
  <1>12. Distinct(f \o d)
    <2>1. \A a \in Steps(f), b \in Steps(d) : Pair(a) # Pair(b)
      BY <1>9, <1>10 DEF Pair, Files, Lookups
    <2>2. QED
      BY <1>7, <1>8, <2>1, DistinctConcat
  <1>13. \A r \in Steps(f \o d) : ~ r.must /\ r.ask \notin {"groupVideo", "send"}
    BY <1>9, <1>10, <1>11 DEF Files, Lookups
  <1>14. \A i \in 1 .. n : \A j \in 1 .. Len(asks[i]) : Of(i, asks[i][j], FALSE) \in Steps(f \o d)
    BY <1>7, <1>11
  <1>15. \A i \in 1 .. n : \A j \in 1 .. Len(Fetch(chain.typ, chain.entities[i])) :
            Of(i, Fetch(chain.typ, chain.entities[i])[j], FALSE) \in Steps(f \o d)
    BY <1>6, <1>14, Zenon
  <1>16. QED
    BY <1>5, <1>7, <1>8, <1>11, <1>12, <1>13, <1>15 DEF n

-----------------------------------------------------------------------------
(* At most one call of upload: a command of the highway, or only the seek   *)
(* to the start of the stream.                                              *)
Transfers == {"1001", "1002", "1003", "1004", "1005", "1006", "1007", "1008", "seek", "seekThumb"}
Optional == {<<>>} \cup {<<c>> : c \in Transfers}

(* The parts of an upload and the commands that transfer its files          *)
(* differ.                                                                  *)
LEMMA PartsInTurn ==
    ASSUME NEW resolved \in {ImageResolved, VideoResolved, RecordResolved}, NEW a \in Optional, NEW b \in Optional,
           Items(a) \cap Items(b) = {}
    PROVE  /\ Announced(resolved) \o a \in Seq(Parts) /\ Uniq(Announced(resolved) \o a)
           /\ Announced(resolved) \o a \o b \in Seq(Parts) /\ Uniq(Announced(resolved) \o a \o b)
           /\ Items(a) \subseteq Items(Announced(resolved) \o a)
           /\ Items(a) \cup Items(b) \subseteq Items(Announced(resolved) \o a \o b)
  <1> DEFINE Plain(s) == s \in Seq(Parts) /\ Uniq(s)
  <1>1. ASSUME NEW x \in Parts PROVE Plain(<<x>>) /\ Items(<<x>>) = {x}
    BY <1>1 DEF Uniq, Items
  <1>2. ASSUME NEW x \in Parts, NEW y \in Parts, x # y PROVE Plain(<<x, y>>) /\ Items(<<x, y>>) = {x, y}
    <2> DEFINE s == <<x, y>>
    <2>1. s \in Seq(Parts) /\ Len(s) = 2 /\ s[1] = x /\ s[2] = y
      OBVIOUS
    <2>2. Items(s) = {x, y}
      BY ItemsShort
    <2> HIDE DEF s
    <2>3. \A i \in 1 .. Len(s) : i = 1 \/ i = 2
      BY <2>1
    <2>4. Plain(s)
      BY <1>2, <2>1, <2>3 DEF Uniq
    <2>5. QED
      BY <2>2, <2>4 DEF s
  <1>3. ASSUME NEW s, NEW t, Plain(s), Plain(t), Items(s) \cap Items(t) = {}
        PROVE  Plain(s \o t) /\ Items(s \o t) = Items(s) \cup Items(t)
    BY <1>3, UniqConcat, ItemsConcat, ConcatProperties
  <1>4. /\ Plain(<<"ticket", "open">>) /\ Items(<<"ticket", "open">>) = {"ticket", "open"}
        /\ Plain(<<"announce">>) /\ Items(<<"announce">>) = {"announce"}
    BY <1>1, <1>2 DEF Parts
  <1>5. Plain(resolved) /\ Items(resolved) \subseteq {"hash", "head", "hashThumb", "encode"}
    <2>1. {"hash", "head", "hashThumb", "encode"} \subseteq Parts
      BY DEF Parts
    <2> HIDE DEF Plain
    <2>2. CASE resolved = ImageResolved
      BY <1>2, <2>1, <2>2 DEF ImageResolved
    <2>3. CASE resolved = VideoResolved
      BY <1>2, <2>1, <2>3 DEF VideoResolved
    <2>4. CASE resolved = RecordResolved
      BY <1>2, <2>1, <2>4 DEF RecordResolved
    <2>5. QED
      BY <2>2, <2>3, <2>4
  <1>6. ASSUME NEW c \in Optional
        PROVE  Plain(c) /\ Items(c) \subseteq Transfers
    <2>1. CASE c = <<>>
      BY <2>1 DEF Uniq, Items
    <2>2. CASE c # <<>>
      <3>1. PICK x \in Transfers : c = <<x>>
        BY <1>6, <2>2 DEF Optional
      <3>2. x \in Parts
        BY DEF Parts, Transfers
      <3> HIDE DEF Plain
      <3>3. QED
        BY <1>1, <3>1, <3>2
    <2>3. QED
      BY <2>1, <2>2
  <1> HIDE DEF Plain
  <1> DEFINE u == <<"ticket", "open">> \o resolved
             v == u \o <<"announce">>
  <1>7. Plain(u) /\ Items(u) \subseteq {"ticket", "open", "hash", "head", "hashThumb", "encode"}
    BY <1>3, <1>4, <1>5
  <1>8. Plain(v) /\ Items(v) \subseteq {"ticket", "open", "hash", "head", "hashThumb", "encode", "announce"}
    <2> HIDE DEF u
    <2>1. QED
      BY <1>3, <1>4, <1>7
  <1>9. Announced(resolved) = v
    BY DEF Announced
  <1> HIDE DEF u, v
  <1>10. Plain(v \o a) /\ Items(v \o a) = Items(v) \cup Items(a)
    BY <1>3, <1>6, <1>8 DEF Transfers
  <1>11. Plain(v \o a \o b) /\ Items(v \o a \o b) = Items(v) \cup Items(a) \cup Items(b)
    <2> DEFINE w == v \o a
    <2>1. Plain(w) /\ Items(w) = Items(v) \cup Items(a)
      BY <1>10
    <2> HIDE DEF w
    <2>2. Plain(w \o b) /\ Items(w \o b) = Items(w) \cup Items(b)
      BY <1>3, <1>6, <1>8, <2>1 DEF Transfers
    <2>3. QED
      BY <2>1, <2>2 DEF w
  <1>12. QED
    BY <1>9, <1>10, <1>11 DEF Plain

LEMMA NeededShape ==
    ASSUME NEW e, NEW part \in {"file", "thumb"},
           NEW c \in {"1001", "1002", "1003", "1004", "1005", "1006", "1007", "1008"}
    PROVE  /\ Needed(e, part, c) \in Optional
           /\ Items(Needed(e, part, c)) \subseteq {c, SeekOnly[part]}
           /\ part \in Owed(e) => c \in Items(Needed(e, part, c))
  <1> DEFINE k == SeekOnly[part]
  <1>1. k \in {"seek", "seekThumb"}
    BY DEF SeekOnly
  <1>2. Needed(e, part, c) \in {<<>>, <<c>>, <<k>>} /\ (part \in Owed(e) => Needed(e, part, c) = <<c>>)
    BY DEF Needed, Owed
  <1> HIDE DEF k
  <1>3. Items(<<c>>) = {c} /\ Items(<<k>>) = {k} /\ Items(<<>>) = {}
    BY ItemsShort
  <1>4. <<c>> \in Optional /\ <<k>> \in Optional /\ <<>> \in Optional
    BY <1>1 DEF Optional, Transfers
  <1>5. QED
    BY <1>2, <1>3, <1>4 DEF k

(* The upload makes each of its requests once, and transfers the file if    *)
(* the server wants it and the code has its size.                           *)
Uploaded(u, e) ==
    /\ u \in Seq(Parts) /\ Uniq(u)
    /\ "file" \in Owed(e) => \E c \in FileCommands : c \in Items(u)

(* Likewise the thumbnail.                                                  *)
ThumbUploaded(u, e) == "thumb" \in Owed(e) => \E c \in ThumbCommands : c \in Items(u)

LEMMA SingleUpload ==
    ASSUME NEW e, NEW resolved \in {ImageResolved, VideoResolved, RecordResolved},
           NEW c \in {"1003", "1004", "1007", "1008"}
    PROVE  Uploaded(Announced(resolved) \o Needed(e, "file", c), e)
  <1> DEFINE a == Needed(e, "file", c)
             b == <<>>
  <1>1. a \in Optional /\ ("file" \in Owed(e) => c \in Items(a))
    BY NeededShape
  <1>2. b \in Optional /\ Items(b) = {}
    BY ItemsShort DEF Optional
  <1>3. Items(a) \cap Items(b) = {}
    BY <1>2
  <1> HIDE DEF a, b
  <1>4. /\ Announced(resolved) \o a \in Seq(Parts) /\ Uniq(Announced(resolved) \o a)
        /\ Items(a) \subseteq Items(Announced(resolved) \o a)
    BY <1>1, <1>2, <1>3, PartsInTurn
  <1>5. "file" \in Owed(e) => c \in Items(Announced(resolved) \o a)
    BY <1>1, <1>4
  <1>6. c \in FileCommands
    BY DEF FileCommands
  <1>7. QED
    BY <1>4, <1>5, <1>6 DEF Uploaded, a

LEMMA VideoUpload ==
    ASSUME NEW e, NEW c \in {"1001", "1005"}, NEW d \in {"1002", "1006"}
    PROVE  LET u == Announced(VideoResolved) \o Needed(e, "file", c) \o Needed(e, "thumb", d)
           IN  Uploaded(u, e) /\ ThumbUploaded(u, e)
  <1> DEFINE a == Needed(e, "file", c)
             b == Needed(e, "thumb", d)
             u == Announced(VideoResolved) \o a \o b
  <1>1. a \in Optional /\ Items(a) \subseteq {c, "seek"} /\ ("file" \in Owed(e) => c \in Items(a))
    BY NeededShape DEF SeekOnly
  <1>2. b \in Optional /\ Items(b) \subseteq {d, "seekThumb"} /\ ("thumb" \in Owed(e) => d \in Items(b))
    BY NeededShape DEF SeekOnly
  <1>3. {c, "seek"} \cap {d, "seekThumb"} = {} /\ c \in FileCommands /\ d \in ThumbCommands
    BY DEF FileCommands, ThumbCommands
  <1> HIDE DEF a, b
  <1>4. Items(a) \cap Items(b) = {}
    BY <1>1, <1>2, <1>3
  <1>5. u \in Seq(Parts) /\ Uniq(u) /\ Items(a) \cup Items(b) \subseteq Items(u)
    BY <1>1, <1>2, <1>4, PartsInTurn
  <1> HIDE DEF u
  <1>6. Uploaded(u, e)
    BY <1>1, <1>3, <1>5 DEF Uploaded
  <1>7. ThumbUploaded(u, e)
    BY <1>2, <1>3, <1>5 DEF ThumbUploaded
  <1>8. QED
    BY <1>6, <1>7 DEF u, a, b

(* Every upload transfers what the server asks for of this kind of          *)
(* entity, as far as the code has its size.                                 *)
LEMMA UploadShape ==
    ASSUME NEW typ, NEW e, e.needs \subseteq PartsOf(e.kind)
    PROVE  Uploaded(UploadOf(typ, e), e) /\ ThumbUploaded(UploadOf(typ, e), e)
  <1>1. CASE e.kind = "video"
    <2>2. UploadOf(typ, e) = IF typ = "group" THEN GroupVideo(e) ELSE FriendVideo(e)
      BY <1>1 DEF UploadOf
    <2>3. Uploaded(GroupVideo(e), e) /\ ThumbUploaded(GroupVideo(e), e)
      BY VideoUpload DEF GroupVideo
    <2>4. Uploaded(FriendVideo(e), e) /\ ThumbUploaded(FriendVideo(e), e)
      BY VideoUpload DEF FriendVideo
    <2>5. QED
      BY <2>2, <2>3, <2>4
  <1>2. CASE e.kind \in {"image", "record"}
    <2>1. "thumb" \notin Owed(e)
      BY <1>2 DEF PartsOf, Owed
    <2>2. /\ Uploaded(GroupImage(e), e) /\ Uploaded(FriendImage(e), e)
          /\ Uploaded(GroupRecord(e), e) /\ Uploaded(FriendRecord(e), e)
      BY SingleUpload DEF GroupImage, FriendImage, GroupRecord, FriendRecord
    <2>3. UploadOf(typ, e) \in {GroupImage(e), FriendImage(e), GroupRecord(e), FriendRecord(e)}
      BY <1>2 DEF UploadOf
    <2>4. QED
      BY <2>1, <2>2, <2>3 DEF ThumbUploaded
  <1>3. CASE e.kind \notin {"video", "image", "record"}
    <2>1. UploadOf(typ, e) = <<>>
      BY <1>3 DEF UploadOf
    <2>2. Owed(e) = {}
      BY <1>3 DEF PartsOf, Owed
    <2>3. <<>> \in Seq(Parts) /\ Uniq(<<>>)
      BY DEF Uniq
    <2>4. QED
      BY <2>1, <2>2, <2>3 DEF Uploaded, ThumbUploaded
  <1>4. QED
    BY <1>1, <1>2, <1>3

(* The program of a message: its lookup, then the uploads of its            *)
(* entities.                                                                *)
LEMMA OutgoingShape ==
    ASSUME NEW m, NEW S, m.entities \in Seq(S),
           \A i \in 1 .. Len(m.entities) : m.entities[i].needs \subseteq PartsOf(m.entities[i].kind)
    PROVE  /\ Outgoing(m) = Metadata(m.typ) \o Uploads(m)
           /\ Uploads(m) \in Seq(SUBSET Requested)
           /\ {} \notin Items(Uploads(m))
           /\ Distinct(Uploads(m))
           /\ \A r \in Steps(Uploads(m)) : r.must /\ r.ask \in Parts
           /\ \A i \in 1 .. Len(m.entities) :
                 /\ "file" \in Owed(m.entities[i]) =>
                       \E c \in FileCommands : Of(i, c, TRUE) \in Steps(Uploads(m))
                 /\ "thumb" \in Owed(m.entities[i]) =>
                       \E c \in ThumbCommands : Of(i, c, TRUE) \in Steps(Uploads(m))
  <1> DEFINE n    == Len(m.entities)
             asks == [i \in 1 .. n |-> UploadOf(m.typ, m.entities[i])]
             must == TRUE
             g    == InPlace(n, asks, must)
  <1>1. n \in Nat /\ must \in BOOLEAN
    OBVIOUS
  <1>2. \A i \in 1 .. n : asks[i] = UploadOf(m.typ, m.entities[i])
    OBVIOUS
  <1>3. \A i \in 1 .. n : /\ Uploaded(UploadOf(m.typ, m.entities[i]), m.entities[i])
                          /\ ThumbUploaded(UploadOf(m.typ, m.entities[i]), m.entities[i])
    BY UploadShape
  <1>4. asks \in [1 .. n -> Seq(Asks)] /\ \A i \in 1 .. n : asks[i] \in Seq(Parts)
    <2>1. Parts \subseteq Asks
      BY DEF Asks
    <2>2. \A i \in 1 .. n : UploadOf(m.typ, m.entities[i]) \in Seq(Parts)
      BY <1>3 DEF Uploaded
    <2>3. QED
      BY <2>1, <2>2, SeqMonotonic
  <1>5. Uploads(m) = InPlace(n, asks, TRUE)
    <2>1. \A i \in 1 .. n : InTurn(i, UploadOf(m.typ, m.entities[i]), Must) = Singly(i, asks[i], TRUE)
      <3> HIDE DEF asks, must
      <3>1. QED
        BY <1>2, InTurnIsOneByOne
    <2>2. [i \in 1 .. n |-> InTurn(i, UploadOf(m.typ, m.entities[i]), Must)] = [i \in 1 .. n |-> Singly(i, asks[i], TRUE)]
      <3> HIDE DEF asks, n, must
      <3>1. QED
        BY <2>1, Zenon
    <2>3. QED
      BY <2>2 DEF Uploads, InPlace
  <1>6. Uploads(m) = g
    BY <1>5
  <1> HIDE DEF n, asks, must
  <1>7. \A i \in 1 .. n : Uniq(asks[i])
    BY <1>2, <1>3 DEF Uploaded
  <1>8. /\ g \in Seq(SUBSET Requested)
        /\ {} \notin Items(g)
        /\ Distinct(g)
        /\ \A r : r \in Steps(g) <=> \E i \in 1 .. n : \E j \in 1 .. Len(asks[i]) : r = Of(i, asks[i][j], must)
    BY <1>1, <1>4, <1>7, ByPlace
  <1> HIDE DEF g
  <1>9. ASSUME NEW r \in Steps(g) PROVE r.must /\ r.ask \in Parts
    <2>1. PICK i \in 1 .. n : \E j \in 1 .. Len(asks[i]) : r = Of(i, asks[i][j], must)
      BY <1>8
    <2>2. PICK j \in 1 .. Len(asks[i]) : r = Of(i, asks[i][j], must)
      BY <2>1
    <2>3. asks[i][j] \in Parts
      BY <1>4
    <2>4. QED
      BY <2>2, <2>3 DEF Of, must
  <1>10. ASSUME NEW i \in 1 .. n, NEW c, c \in Items(UploadOf(m.typ, m.entities[i]))
         PROVE  Of(i, c, must) \in Steps(g)
    <2>1. PICK j \in 1 .. Len(asks[i]) : c = asks[i][j]
      BY <1>2, <1>10 DEF Items
    <2>2. QED
      BY <1>8, <2>1
  <1>11. ASSUME NEW i \in 1 .. n
         PROVE  /\ "file" \in Owed(m.entities[i]) => \E c \in FileCommands : Of(i, c, must) \in Steps(g)
                /\ "thumb" \in Owed(m.entities[i]) => \E c \in ThumbCommands : Of(i, c, must) \in Steps(g)
    BY <1>3, <1>10 DEF Uploaded, ThumbUploaded
  <1>12. Outgoing(m) = Metadata(m.typ) \o Uploads(m)
    BY DEF Outgoing
  <1>13. QED
    BY <1>6, <1>8, <1>9, <1>11, <1>12 DEF n, must

-----------------------------------------------------------------------------
(* A table holds what its rows hold.                                        *)
LEMMA TableShape ==
    ASSUME NEW rows, NEW K, NEW T, \A r \in rows : r[1] \in K /\ r[2] \in T
    PROVE  /\ DOMAIN Table(rows) = {r[1] : r \in rows}
           /\ \A k \in DOMAIN Table(rows) : k \in K /\ Table(rows)[k] \in T
  <1>1. DOMAIN Table(rows) = {r[1] : r \in rows}
    BY DEF Table
  <1>2. ASSUME NEW k \in {r[1] : r \in rows} PROVE k \in K /\ Table(rows)[k] \in T
    <2>1. Table(rows)[k] = (CHOOSE r \in rows : r[1] = k)[2]
      BY DEF Table
    <2>2. (CHOOSE r \in rows : r[1] = k) \in rows
      BY <1>2, Zenon
    <2>3. k \in K
      BY <1>2
    <2>4. QED
      BY <2>1, <2>2, <2>3
  <1>3. QED
    BY <1>1, <1>2

RoleLists == {s \in Seq(Names) : Uniq(s)}

LEMMA RoleListsOf ==
    /\ <<>> \in RoleLists
    /\ \A a \in Names : <<a>> \in RoleLists
    /\ \A a, b \in Names : a # b => <<a, b>> \in RoleLists
  <1>1. <<>> \in RoleLists
    BY DEF RoleLists, Uniq
  <1>2. ASSUME NEW a \in Names PROVE <<a>> \in RoleLists
    BY DEF RoleLists, Uniq
  <1>3. ASSUME NEW a \in Names, NEW b \in Names, a # b PROVE <<a, b>> \in RoleLists
    <2> DEFINE s == <<a, b>>
    <2>1. s \in Seq(Names) /\ Len(s) = 2 /\ s[1] = a /\ s[2] = b
      OBVIOUS
    <2> HIDE DEF s
    <2>2. \A i \in 1 .. Len(s) : i = 1 \/ i = 2
      BY <2>1
    <2>3. Uniq(s)
      BY <1>3, <2>1, <2>2 DEF Uniq
    <2>4. QED
      BY <2>1, <2>3 DEF RoleLists, s
  <1>4. QED
    BY <1>1, <1>2, <1>3

(* The events with a handler, other than the request to join.               *)
Notified == {"invite", "admin", "groupPoke", "increase", "decrease",
             "mute", "memberMute", "name", "todo", "reaction",
             "recall", "essence", "title", "enter", "invitationRequest",
             "friendRecall", "pin", "friendPoke", "friendNew", "friendRename", "friendRequest",
             "botRename", "kick"}

LEMMA RolesShape == DOMAIN Roles = Notified /\ \A event \in Notified : Roles[event] \in RoleLists
  <1> DEFINE T == RoleLists
             rows == GroupRoles \cup SettingRoles \cup MessageRoles \cup FriendRoles \cup SystemRoles
  <1>1. /\ <<>> \in T /\ <<"member">> \in T /\ <<"invitor">> \in T /\ <<"operator">> \in T /\ <<"friend">> \in T
        /\ <<"member", "invitor">> \in T /\ <<"member", "operator">> \in T /\ <<"operator", "member">> \in T
    BY RoleListsOf DEF Names
  <1> HIDE DEF T
  <1>2. \A r \in GroupRoles : r[1] \in Notified /\ r[2] \in T
    BY <1>1 DEF GroupRoles, Notified
  <1>3. \A r \in SettingRoles : r[1] \in Notified /\ r[2] \in T
    BY <1>1 DEF SettingRoles, Notified
  <1>4. \A r \in MessageRoles : r[1] \in Notified /\ r[2] \in T
    BY <1>1 DEF MessageRoles, Notified
  <1>5. \A r \in FriendRoles : r[1] \in Notified /\ r[2] \in T
    BY <1>1 DEF FriendRoles, Notified
  <1>6. \A r \in SystemRoles : r[1] \in Notified /\ r[2] \in T
    BY <1>1 DEF SystemRoles, Notified
  <1>7. \A r \in rows : r[1] \in Notified /\ r[2] \in T
    BY <1>2, <1>3, <1>4, <1>5, <1>6
  <1>8. \A event \in Notified : \E r \in rows : r[1] = event
    BY DEF Notified, GroupRoles, SettingRoles, MessageRoles, FriendRoles, SystemRoles
  <1> HIDE DEF rows
  <1>9. /\ DOMAIN Table(rows) = {r[1] : r \in rows}
        /\ \A k \in DOMAIN Table(rows) : k \in Notified /\ Table(rows)[k] \in T
    BY <1>7, TableShape
  <1>10. {r[1] : r \in rows} = Notified
    BY <1>7, <1>8
  <1>11. QED
    BY <1>9, <1>10 DEF Roles, rows, T

LEMMA HandledIs == Handled = Notified \cup {"joinRequest"}
  BY RolesShape DEF Handled

LEMMA NoticesHandled == \A k \in DOMAIN Notices : Notices[k] \in Handled
  <1> DEFINE T == Notified \cup {"joinRequest"}
             rows == MembershipNotices \cup GroupSettings \cup GroupMessages \cup FriendChanges \cup FriendMessages
             K == {r[1] : r \in rows}
  <1>1. \A r \in MembershipNotices : r[2] \in T
    BY DEF MembershipNotices, Notified
  <1>2. \A r \in GroupSettings \cup GroupMessages : r[2] \in T
    BY DEF GroupSettings, GroupMessages, Notified
  <1>3. \A r \in FriendChanges \cup FriendMessages : r[2] \in T
    BY DEF FriendChanges, FriendMessages, Notified
  <1> HIDE DEF T
  <1>4. \A r \in rows : r[1] \in K /\ r[2] \in T
    BY <1>1, <1>2, <1>3
  <1> HIDE DEF rows, K
  <1>5. \A k \in DOMAIN Table(rows) : Table(rows)[k] \in T
    BY <1>4, TableShape
  <1>6. QED
    BY <1>5, HandledIs DEF Notices, rows, T

-----------------------------------------------------------------------------
(* A program of requests: what every task is given.                         *)
Fit(s) ==
    /\ s \in Seq(SUBSET Requested) /\ {} \notin Items(s) /\ Distinct(s)
    /\ \A r \in Steps(s) : r.ask \notin {"groupVideo", "send"}

LEMMA FitEmpty == Fit(<<>>)
  <1>1. Items(<<>>) = {} /\ Steps(<<>>) = {}
    BY ItemsShort, StepsShort
  <1>2. <<>> \in Seq(SUBSET Requested)
    OBVIOUS
  <1>3. QED
    BY <1>1, <1>2, DistinctShort DEF Fit

LEMMA FitStage ==
    ASSUME NEW x, x \subseteq Requested, x # {},
           \A a, b \in x : Pair(a) = Pair(b) => a = b,
           \A r \in x : r.ask \notin {"groupVideo", "send"}
    PROVE  Fit(<<x>>)
  <1> DEFINE s == <<x>>
  <1>1. s \in Seq(SUBSET Requested) /\ Len(s) = 1 /\ s[1] = x
    OBVIOUS
  <1>2. Items(s) = {x} /\ Steps(s) = x
    BY ItemsShort, StepsShort
  <1> HIDE DEF s
  <1>3. \A i \in 1 .. Len(s) : i = 1 /\ s[i] = x
    BY <1>1
  <1>4. Distinct(s)
    BY <1>3 DEF Distinct
  <1>5. Fit(s)
    BY <1>1, <1>2, <1>4 DEF Fit
  <1>6. QED
    BY <1>5 DEF s

(* Two programs in turn, if no request is in both.                          *)
LEMMA FitConcat ==
    ASSUME NEW s, NEW t, Fit(s), Fit(t), \A a \in Steps(s), b \in Steps(t) : Pair(a) # Pair(b)
    PROVE  Fit(s \o t) /\ Steps(s \o t) = Steps(s) \cup Steps(t)
  <1>1. s \in Seq(SUBSET Requested) /\ t \in Seq(SUBSET Requested)
    BY DEF Fit
  <1>2. /\ s \o t \in Seq(SUBSET Requested) /\ Steps(s \o t) = Steps(s) \cup Steps(t)
        /\ Items(s \o t) = Items(s) \cup Items(t)
    BY <1>1, StepsConcat, ItemsConcat
  <1>3. Distinct(s \o t)
    <2>1. Distinct(s) /\ Distinct(t)
      BY DEF Fit
    <2>2. QED
      BY <1>1, <2>1, DistinctConcat
  <1>4. QED
    BY <1>2, <1>3 DEF Fit

LEMMA TryMust ==
    ASSUME NEW of \in Names, NEW ask \in Asks \ {"groupVideo", "send"}
    PROVE  /\ Try(of, ask) = {Of(of, ask, FALSE)} /\ Must(of, ask) = {Of(of, ask, TRUE)}
           /\ Fit(<<Try(of, ask)>>) /\ Fit(<<Must(of, ask)>>)
           /\ Steps(<<Try(of, ask)>>) = Try(of, ask) /\ Steps(<<Must(of, ask)>>) = Must(of, ask)
  <1>1. Try(of, ask) = {Of(of, ask, FALSE)} /\ Must(of, ask) = {Of(of, ask, TRUE)}
    BY DEF Try, Must, Of
  <1>2. Of(of, ask, FALSE) \in Requested /\ Of(of, ask, TRUE) \in Requested
    BY DEF Of, Requested
  <1>3. Of(of, ask, FALSE).ask = ask /\ Of(of, ask, TRUE).ask = ask
    BY DEF Of
  <1>4. Fit(<<Try(of, ask)>>)
    <2> DEFINE x == Try(of, ask)
    <2>1. x \subseteq Requested /\ x # {} /\ (\A a, b \in x : a = b) /\ \A r \in x : r.ask \notin {"groupVideo", "send"}
      BY <1>1, <1>2, <1>3
    <2> HIDE DEF x
    <2>2. Fit(<<x>>)
      BY <2>1, FitStage
    <2>3. QED
      BY <2>2 DEF x
  <1>5. Fit(<<Must(of, ask)>>)
    <2> DEFINE x == Must(of, ask)
    <2>1. x \subseteq Requested /\ x # {} /\ (\A a, b \in x : a = b) /\ \A r \in x : r.ask \notin {"groupVideo", "send"}
      BY <1>1, <1>2, <1>3
    <2> HIDE DEF x
    <2>2. Fit(<<x>>)
      BY <2>1, FitStage
    <2>3. QED
      BY <2>2 DEF x
  <1>6. Steps(<<Try(of, ask)>>) = Try(of, ask) /\ Steps(<<Must(of, ask)>>) = Must(of, ask)
    BY StepsShort
  <1>7. QED
    BY <1>1, <1>4, <1>5, <1>6

LEMMA RoleSteps ==
    ASSUME NEW roles \in RoleLists
    PROVE  LET s == [i \in 1 .. Len(roles) |-> Try(roles[i], "uin")] IN
           Fit(s) /\ \A r : r \in Steps(s) <=> \E i \in 1 .. Len(roles) : r = Of(roles[i], "uin", FALSE)
  <1> DEFINE s == [i \in 1 .. Len(roles) |-> Try(roles[i], "uin")]
  <1>1. roles \in Seq(Names) /\ Len(roles) \in Nat /\ \A i \in 1 .. Len(roles) : roles[i] \in Names
    BY DEF RoleLists
  <1>2. \A i \in 1 .. Len(roles) : Try(roles[i], "uin") = {Of(roles[i], "uin", FALSE)}
    BY DEF Try, Of
  <1>3. \A i \in 1 .. Len(roles) : {Of(roles[i], "uin", FALSE)} \in SUBSET Requested
    BY <1>1 DEF Of, Requested, Asks
  <1>4. Len(s) = Len(roles) /\ s \in Seq(SUBSET Requested)
    <2>1. \A i \in 1 .. Len(roles) : Try(roles[i], "uin") \in SUBSET Requested
      BY <1>2, <1>3, Zenon
    <2>2. QED
      BY <1>1, <2>1
  <1>5. \A i \in 1 .. Len(s) : s[i] = {Of(roles[i], "uin", FALSE)}
    BY <1>2, <1>4
  <1> HIDE DEF s
  <1>6. {} \notin Items(s)
    BY <1>5, Zenon DEF Items
  <1>7. Distinct(s)
    <2>1. SUFFICES ASSUME NEW i \in 1 .. Len(s), NEW j \in 1 .. Len(s),
                          NEW a \in s[i], NEW b \in s[j], Pair(a) = Pair(b)
                   PROVE  i = j /\ a = b
      BY Zenon DEF Distinct
    <2>2. a = Of(roles[i], "uin", FALSE) /\ b = Of(roles[j], "uin", FALSE)
      BY <1>5
    <2>3. roles[i] = roles[j]
      BY <2>1, <2>2 DEF Pair, Of
    <2>4. Uniq(roles)
      BY DEF RoleLists
    <2>5. i = j
      BY <1>4, <2>3, <2>4, Zenon DEF Uniq
    <2>6. QED
      BY <2>2, <2>5
  <1>8. ASSUME NEW r PROVE r \in Steps(s) <=> \E i \in 1 .. Len(roles) : r = Of(roles[i], "uin", FALSE)
    <2>1. r \in Steps(s) <=> \E i \in 1 .. Len(s) : r \in s[i]
      BY StepAt
    <2>2. QED
      BY <1>4, <1>5, <2>1, Zenon
  <1>9. \A r \in Steps(s) : r.ask \notin {"groupVideo", "send"}
    <2>1. ASSUME NEW r \in Steps(s) PROVE r.ask = "uin"
      <3>1. PICK i \in 1 .. Len(roles) : r = Of(roles[i], "uin", FALSE)
        BY <1>8, Zenon
      <3>2. QED
        BY <3>1 DEF Of
    <2>2. QED
      BY <2>1
  <1>10. Fit(s)
    BY <1>4, <1>6, <1>7, <1>9 DEF Fit
  <1>11. QED
    BY <1>8, <1>10 DEF s

LEMMA RolesOfShape ==
    ASSUME NEW p, NEW event \in Notified
    PROVE  RolesOf(p, event) \in RoleLists
  <1>1. Roles[event] \in RoleLists
    BY RolesShape
  <1>2. <<"member">> \in RoleLists
    BY RoleListsOf DEF Names
  <1>3. QED
    BY <1>1, <1>2 DEF RolesOf

(* The lookups a request to join is known by, and the two that may fail.    *)
LEMMA JoinFits ==
    ASSUME NEW p
    PROVE  /\ Fit(JoinSteps(p))
           /\ \A r \in Steps(JoinSteps(p)) : r.must => r.of \in {"member", "join"}
  <1> DEFINE A == <<Must("join", "requests")>>
             B == <<Must("join", "filtered")>>
             x == Must("join", "target") \cup Try("invitor", "stranger") \cup Try("operator", "stranger")
             C == IF Push(p).listed THEN <<x>> ELSE <<>>
             D == <<Must("member", "stranger")>>
  <1>0. {"requests", "filtered", "target", "stranger"} \subseteq Asks \ {"groupVideo", "send"}
        /\ {"join", "member", "invitor", "operator"} \subseteq Names
    BY DEF Asks, Names
  <1>1. Fit(A) /\ Steps(A) = {Of("join", "requests", TRUE)}
    BY <1>0, TryMust
  <1>2. Fit(B) /\ Steps(B) = {Of("join", "filtered", TRUE)}
    BY <1>0, TryMust
  <1>3. Fit(D) /\ Steps(D) = {Of("member", "stranger", TRUE)}
    BY <1>0, TryMust
  <1>4. x = {Of("join", "target", TRUE), Of("invitor", "stranger", FALSE), Of("operator", "stranger", FALSE)}
    BY DEF Try, Must, Of
  <1>5. Fit(<<x>>) /\ Steps(<<x>>) = x
    <2> HIDE DEF x
    <2>1. x \subseteq Requested /\ x # {}
      <3>1. /\ Of("join", "target", TRUE) \in Requested
            /\ Of("invitor", "stranger", FALSE) \in Requested
            /\ Of("operator", "stranger", FALSE) \in Requested
        BY <1>0 DEF Of, Requested
      <3>2. QED
        BY <1>4, <3>1
    <2>2. \A a, b \in x : a.of = b.of => a = b
      <3> DEFINE j == Of("join", "target", TRUE)
                 k == Of("invitor", "stranger", FALSE)
                 l == Of("operator", "stranger", FALSE)
      <3>1. j.of = "join" /\ k.of = "invitor" /\ l.of = "operator"
        BY DEF Of
      <3>2. x = {j, k, l}
        BY <1>4
      <3> HIDE DEF j, k, l
      <3>3. QED
        BY <3>1, <3>2
    <2>3. \A a, b \in x : Pair(a) = Pair(b) => a = b
      BY <2>2 DEF Pair
    <2>5. \A r \in x : r.ask \notin {"groupVideo", "send"}
      BY <1>4 DEF Of
    <2>4. QED
      BY <2>1, <2>3, <2>5, FitStage, StepsShort
  <1>6. Fit(C) /\ Steps(C) \subseteq x
    <2> HIDE DEF x
    <2>1. QED
      BY <1>5, FitEmpty, StepsShort
  <1>7. JoinSteps(p) = D \o ((A \o B) \o C)
    <2>1. A \o B = <<Must("join", "requests"), Must("join", "filtered")>>
      <3>1. ASSUME NEW a, NEW b PROVE <<a>> \o <<b>> = <<a, b>>
        <4> DEFINE u == <<a>>
                   v == <<b>>
                   w == <<a, b>>
        <4>1. /\ u \in Seq({a, b}) /\ Len(u) = 1 /\ u[1] = a
              /\ v \in Seq({a, b}) /\ Len(v) = 1 /\ v[1] = b
              /\ w \in Seq({a, b}) /\ Len(w) = 2 /\ w[1] = a /\ w[2] = b
          OBVIOUS
        <4> HIDE DEF u, v, w
        <4>2. u \o v \in Seq({a, b}) /\ Len(u \o v) = 2 /\ (u \o v)[1] = a /\ (u \o v)[2] = b
          BY <4>1, ConcatProperties, SMTT(30)
        <4>3. \A i \in 1 .. 2 : (u \o v)[i] = w[i]
          <5>1. \A i \in 1 .. 2 : i = 1 \/ i = 2
            OBVIOUS
          <5>2. QED
            BY <4>1, <4>2, <5>1
        <4>4. u \o v = w
          BY <4>1, <4>2, <4>3, SeqEqual
        <4>5. QED
          BY <4>4 DEF u, v, w
      <3>2. QED
        BY <3>1
    <2>2. QED
      BY <2>1 DEF JoinSteps, GroupRequests
  <1> DEFINE E == A \o B
             F == E \o C
  <1> HIDE DEF A, B, C, D, x
  <1>8. Fit(E) /\ Steps(E) = Steps(A) \cup Steps(B)
    <2>1. \A a \in Steps(A), b \in Steps(B) : Pair(a) # Pair(b)
      BY <1>1, <1>2 DEF Of, Pair
    <2>2. QED
      BY <1>1, <1>2, <2>1, FitConcat
  <1> HIDE DEF E
  <1>9. Fit(F) /\ Steps(F) = Steps(E) \cup Steps(C)
    <2>1. \A a \in Steps(E), b \in Steps(C) : Pair(a) # Pair(b)
      BY <1>1, <1>2, <1>4, <1>6, <1>8 DEF Of, Pair
    <2>2. QED
      BY <1>6, <1>8, <2>1, FitConcat
  <1> HIDE DEF F
  <1>10. Fit(D \o F) /\ Steps(D \o F) = Steps(D) \cup Steps(F)
    <2>1. \A a \in Steps(D), b \in Steps(F) : Pair(a) # Pair(b)
      BY <1>1, <1>2, <1>3, <1>4, <1>6, <1>8, <1>9 DEF Of, Pair
    <2>2. QED
      BY <1>3, <1>9, <2>1, FitConcat
  <1>11. JoinSteps(p) = D \o F
    BY <1>7 DEF F, E
  <1>12. ASSUME NEW r \in Steps(D \o F) PROVE r.must => r.of \in {"member", "join"}
    <2>1. r \in Steps(D) \cup Steps(A) \cup Steps(B) \cup x
      BY <1>6, <1>8, <1>9, <1>10
    <2>2. QED
      BY <1>1, <1>2, <1>3, <1>4, <2>1 DEF Of
  <1>13. QED
    BY <1>10, <1>11, <1>12

(* The program of a notice, with the refresh of the cache in front of       *)
(* it.                                                                      *)
LEMMA NoticeFits ==
    ASSUME NEW p, NEW event \in Handled, NEW first \in Caching(event)
    PROVE  /\ Fit(first \o NoticeSteps(p, event))
           /\ \A r \in Steps(first \o NoticeSteps(p, event)) :
                 r.must => event = "joinRequest" /\ r.of \in {"member", "join"}
           /\ Steps(NoticeSteps(p, event)) \subseteq Steps(first \o NoticeSteps(p, event))
           /\ event # "joinRequest" =>
                 \A i \in 1 .. Len(RolesOf(p, event)) :
                    Of(RolesOf(p, event)[i], "uin", FALSE) \in Steps(NoticeSteps(p, event))
  <1> DEFINE s == NoticeSteps(p, event)
             refresh == <<Try("cache", "refresh")>>
  <1>1. CASE event = "joinRequest"
    <2>1. s = JoinSteps(p)
      BY <1>1 DEF NoticeSteps
    <2>2. Fit(s) /\ \A r \in Steps(s) : r.must => r.of \in {"member", "join"}
      BY <2>1, JoinFits
    <2>3. first = <<>>
      BY <1>1 DEF Caching
    <2>4. first \o s = s
      <3>1. s \in Seq(SUBSET Requested)
        BY <2>2 DEF Fit
      <3> HIDE DEF s
      <3>2. QED
        BY <2>3, <3>1
    <2>5. QED
      BY <1>1, <2>2, <2>4
  <1>2. CASE event # "joinRequest"
    <2>1. event \in Notified
      BY <1>2, HandledIs
    <2> DEFINE roles == RolesOf(p, event)
    <2>2. roles \in RoleLists
      BY <2>1, RolesOfShape
    <2>3. s = [i \in 1 .. Len(roles) |-> Try(roles[i], "uin")]
      BY <1>2 DEF NoticeSteps
    <2> HIDE DEF s, roles
    <2>4. Fit(s) /\ \A r : r \in Steps(s) <=> \E i \in 1 .. Len(roles) : r = Of(roles[i], "uin", FALSE)
      BY <2>2, <2>3, RoleSteps
    <2>5. ASSUME NEW r \in Steps(s) PROVE ~ r.must /\ r.ask = "uin"
      <3>1. PICK i \in 1 .. Len(roles) : r = Of(roles[i], "uin", FALSE)
        BY <2>4, Zenon
      <3>2. QED
        BY <3>1 DEF Of
    <2>6. Fit(refresh) /\ Steps(refresh) = {Of("cache", "refresh", FALSE)}
      BY TryMust DEF Names, Asks
    <2> HIDE DEF refresh
    <2>7. first \in {<<>>, refresh}
      BY DEF Caching, refresh
    <2>8. Fit(first) /\ \A r \in Steps(first) : r.ask = "refresh" /\ ~ r.must
      <3>1. CASE first = <<>>
        BY <3>1, FitEmpty, StepsShort
      <3>2. CASE first = refresh
        BY <3>2, <2>6 DEF Of
      <3>3. QED
        BY <2>7, <3>1, <3>2
    <2>9. \A a \in Steps(first), b \in Steps(s) : Pair(a) # Pair(b)
      BY <2>5, <2>8 DEF Pair
    <2>10. Fit(first \o s) /\ Steps(first \o s) = Steps(first) \cup Steps(s)
      BY <2>4, <2>8, <2>9, FitConcat
    <2>11. ASSUME NEW i \in 1 .. Len(roles) PROVE Of(roles[i], "uin", FALSE) \in Steps(s)
      BY <2>4, Zenon
    <2>12. QED
      BY <1>2, <2>5, <2>8, <2>10, <2>11 DEF s, roles
  <1>3. QED
    BY <1>1, <1>2

(* A message as the parser returns it.                                      *)
ParsedChain(q, r) ==
    /\ r.result = "chain" /\ r.entities \in Seq(STRING \cup {"c2cFile"})
    /\ r.typ \in {"group", "temp", "friend"} /\ (r.typ = "group" <=> q.grouped)
    /\ r.uid \in {"", "peer"}

LEMMA ChainParsed ==
    ASSUME NEW q, q.entities \in Seq(STRING \cup {"c2cFile"}), ParseChain(q) \notin {Refused, Panics}
    PROVE  ParsedChain(q, ParseChain(q))
  <1>1. q.content = "whole"
    BY DEF ParseChain
  <1> DEFINE typ == IF q.grouped THEN "group" ELSE IF q.type = 141 THEN "temp" ELSE "friend"
             u   == IF q.grouped THEN "" ELSE "peer"
  <1>2. ParseChain(q) = [result |-> "chain", entities |-> q.entities, typ |-> typ, uid |-> u]
    BY <1>1 DEF ParseChain
  <1>3. typ \in {"group", "temp", "friend"} /\ (typ = "group" <=> q.grouped) /\ u \in {"", "peer"}
    OBVIOUS
  <1> HIDE DEF typ, u
  <1> DEFINE c == ParseChain(q)
  <1>4. c.result = "chain" /\ c.entities = q.entities /\ c.typ = typ /\ c.uid = u
    BY <1>2
  <1> HIDE DEF c
  <1>5. ParsedChain(q, c)
    BY <1>3, <1>4 DEF ParsedChain
  <1>6. QED
    BY <1>5 DEF c

(* A notice as the parser returns it.                                       *)
ParsedNotice(r) == r = Notice(r.name) /\ r.name \in Handled

(* Every packet is refused, panics, makes nothing, a notice with a          *)
(* handler, or a message.                                                   *)
LEMMA ParseShape ==
    ASSUME NEW q \in Packets
    PROVE  \/ Parse(q) \in {Refused, Panics, Nothing}
           \/ ParsedNotice(Parse(q))
           \/ ParsedChain(q, Parse(q))
  <1> DEFINE S == STRING \cup {"c2cFile"}
  <1>1. q.entities \in Seq(S)
    <2>1. q.entities \in Seq(STRING)
      BY DEF Packets
    <2>2. QED
      BY <2>1, SeqMonotonic
  <1>2. ASSUME NEW event \in Handled PROVE ParsedNotice(Notice(event))
    BY <1>2 DEF ParsedNotice, Notice
  <1>3. CASE q.type = KickNT
    <2>1. "kick" \in Handled
      BY HandledIs DEF Notified
    <2>2. Parse(q) = IF q.content = "whole" THEN Notice("kick") ELSE Refused
      BY <1>3 DEF Parse
    <2>3. QED
      BY <1>2, <2>1, <2>2
  <1>4. CASE q.type # KickNT /\ q.type \in MessageTypes
    <2>1. Parse(q) = ParseChain(q)
      BY <1>4 DEF Parse
    <2>2. QED
      BY <1>1, <2>1, ChainParsed
  <1>5. CASE q.type # KickNT /\ q.type \notin MessageTypes /\ q.type = PrivateFile
    <2> DEFINE f == [q EXCEPT !.entities = Append(@, "c2cFile")]
    <2>1. Parse(q) = ParseChain(f)
      BY <1>5 DEF Parse, ParsePrivateFile
    <2>2. f.entities = Append(q.entities, "c2cFile") /\ f.grouped = q.grouped
      BY DEF Packets
    <2>3. f.entities \in Seq(S)
      BY <1>1, <2>2, AppendProperties
    <2> HIDE DEF f
    <2>4. ParseChain(f) \notin {Refused, Panics} => ParsedChain(f, ParseChain(f))
      BY <2>3, ChainParsed
    <2>5. QED
      BY <2>1, <2>2, <2>4 DEF ParsedChain
  <1>6. CASE q.type # KickNT /\ q.type \notin MessageTypes /\ q.type # PrivateFile
    <2>1. Parse(q) = ParseNotice(q)
      BY <1>6 DEF Parse
    <2>2. Key(q) \in DOMAIN Notices => Notices[Key(q)] \in Handled
      BY NoticesHandled
    <2>3. ParseNotice(q) \in {Refused, Panics, Nothing} \/ (Key(q) \in DOMAIN Notices /\ ParseNotice(q) = Notice(Notices[Key(q)]))
      BY DEF ParseNotice
    <2>4. QED
      BY <1>2, <2>1, <2>2, <2>3
  <1>7. QED
    BY <1>3, <1>4, <1>5, <1>6

(* What the results of the parser are told apart by.                        *)
LEMMA ParseKinds ==
    ASSUME NEW q \in Packets
    PROVE  LET r == Parse(q) IN
           /\ r.result \in {"refused", "panics", "nothing", "notice", "chain"}
           /\ r.result = "notice" => ParsedNotice(r)
           /\ r.result = "chain" => ParsedChain(q, r)
           /\ \A event : r = Notice(event) <=> r.result = "notice" /\ r.name = event
  <1> DEFINE r == Parse(q)
  <1>1. r \in {Refused, Panics, Nothing} \/ ParsedNotice(r) \/ ParsedChain(q, r)
    BY ParseShape
  <1> HIDE DEF r
  <1>2. CASE r \in {Refused, Panics, Nothing}
    <2>1. r.result \in {"refused", "panics", "nothing"}
      BY <1>2 DEF Refused, Panics, Nothing
    <2>2. \A event : Notice(event).result = "notice"
      BY DEF Notice
    <2>3. \A event : r # Notice(event)
      BY <2>1, <2>2
    <2>4. r.result # "notice" /\ r.result # "chain"
      BY <2>1
    <2>5. QED
      BY <2>1, <2>3, <2>4 DEF r
  <1>3. CASE ParsedNotice(r)
    <2>1. r = Notice(r.name)
      BY <1>3 DEF ParsedNotice
    <2>2. \A event : Notice(event).result = "notice" /\ Notice(event).name = event
      BY DEF Notice
    <2>3. r.result = "notice"
      BY <2>1, <2>2
    <2>4. \A event : r = Notice(event) <=> r.name = event
      BY <2>1, <2>2
    <2>5. QED
      BY <1>3, <2>3, <2>4 DEF r
  <1>4. CASE ParsedChain(q, r)
    <2>1. r.result = "chain"
      BY <1>4 DEF ParsedChain
    <2>2. \A event : Notice(event).result = "notice"
      BY DEF Notice
    <2>3. \A event : r # Notice(event)
      BY <2>1, <2>2
    <2>4. QED
      BY <1>4, <2>1, <2>3 DEF r
  <1>5. QED
    BY <1>1, <1>2, <1>3, <1>4

(* Every event has a channel it is sent to (event/mod.rs).                  *)
LEMMA ChannelKnown ==
    ASSUME NEW p, Push(p) \in Packets, Delivers(p)
    PROVE  Target(p) \in Channels
  <1>1. CASE Parse(Push(p)).result = "chain"
    <2>1. Parse(Push(p)).typ \in {"group", "temp", "friend"}
      BY <1>1, ParseKinds DEF ParsedChain
    <2>2. Target(p) = ChannelOfChain(Parse(Push(p)).typ)
      BY <1>1 DEF Target
    <2>3. QED
      BY <2>1, <2>2 DEF ChannelOfChain, Channels
  <1>2. CASE Parse(Push(p)).result # "chain"
    BY <1>2 DEF Target, ChannelOf, Channels
  <1>3. QED
    BY <1>1, <1>2

LEMMA SameGiven ==
    ASSUME given' = given
    PROVE  \A t : /\ Push(t)' = Push(t) /\ Message(t)' = Message(t)
                  /\ Program(t)' = Program(t) /\ (Delivers(t)' <=> Delivers(t)) /\ Target(t)' = Target(t)
  <1>1. ASSUME NEW t PROVE Push(t)' = Push(t) /\ Message(t)' = Message(t)
    BY DEF Push, Message
  <1>2. ASSUME NEW t PROVE Program(t)' = Program(t)
    <2>1. Outgoing(Message(t))' = Outgoing(Message(t))
      BY DEF Outgoing, Message, Uploads
    <2>2. ASSUME NEW event PROVE NoticeSteps(t, event)' = NoticeSteps(t, event)
      BY DEF NoticeSteps, JoinSteps, GroupRequests, RolesOf, Push
    <2>3. Parse(Push(t))' = Parse(Push(t)) /\ ChainSteps(Parse(Push(t)))' = ChainSteps(Parse(Push(t)))
      BY DEF Push
    <2>4. QED
      BY <2>1, <2>2, <2>3 DEF Program
  <1>3. ASSUME NEW t PROVE (Delivers(t)' <=> Delivers(t)) /\ Target(t)' = Target(t)
    BY DEF Delivers, Target, Push
  <1>4. QED
    BY <1>1, <1>2, <1>3

(* A step of another task leaves everything the task has.                   *)
Untouched(t) ==
    /\ given' = given /\ pc'[t] = pc[t] /\ todo'[t] = todo[t] /\ known'[t] = known[t]
    /\ failed'[t] = failed[t] /\ uid'[t] = uid[t]
    /\ t \in Messages => packet'[t] = packet[t] /\ peers'[t] = peers[t]

LEMMA UntouchedHolds ==
    ASSUME NEW t, TaskInv(t), Untouched(t)
    PROVE  TaskInv(t)'
  <1>1. /\ Push(t)' = Push(t) /\ Message(t)' = Message(t)
        /\ Program(t)' = Program(t) /\ (Delivers(t)' <=> Delivers(t))
    BY SameGiven DEF Untouched
  <1>2. Stage(t)'
    BY DEF TaskInv, Untouched, Stage
  <1>3. Covered(t)'
    BY <1>1 DEF TaskInv, Untouched, Covered, Running
  <1>4. Once(t)' /\ SecondTry(t)'
    BY DEF TaskInv, Untouched, Once, SecondTry, OutFor
  <1>5. t \in Pushes => PushInv(t)'
    <2>1. t \in Pushes => PushStage(t)' /\ Told(t)'
      BY <1>1 DEF TaskInv, Untouched, PushInv, PushStage, Told
    <2>2. t \in Pushes => Fallback(t)' /\ MustOnly(t)'
      BY <1>1 DEF TaskInv, Untouched, PushInv, Fallback, MustOnly, OutFor
    <2>3. QED
      BY <2>1, <2>2 DEF PushInv
  <1>6. t \in Messages => MessageInv(t)'
    <2>1. t \in Messages => MessageStage(t)'
      BY <1>1 DEF TaskInv, Untouched, MessageInv, MessageStage
    <2>2. t \in Messages => FriendFirst(t)'
      BY <1>1 DEF TaskInv, Untouched, MessageInv, FriendFirst, Unasked, Asked
    <2>3. QED
      BY <2>1, <2>2 DEF MessageInv
  <1>7. QED
    BY <1>2, <1>3, <1>4, <1>5, <1>6 DEF TaskInv

LEMMA WatchUntouched ==
    ASSUME Watched, given' = given, SentPushes' = SentPushes,
           UNCHANGED <<chan, mark, listener, sentAs, reads>>
    PROVE  Watched'
  <1>1. \A t : Target(t)' = Target(t)
    BY SameGiven
  <1>2. \A c \in Channels : MostReads(c)' = MostReads(c)
    BY DEF MostReads
  <1>3. WatchShape'
    BY DEF Watched, WatchShape
  <1>4. \A c \in Channels : Channel(c)'
    BY <1>1, <1>2 DEF Watched, Channel
  <1>5. \A p \in Pushes : Counted(p)'
    BY DEF Watched, Counted
  <1>6. QED
    BY <1>3, <1>4, <1>5 DEF Watched

(* What the assumption on the workloads says of the given one.              *)
LEMMA GivenShape ==
    ASSUME Shape
    PROVE  /\ \A p \in DOMAIN given.pushes : p \in Pushes /\ Push(p) \in Packets
           /\ \A m \in DOMAIN given.messages :
                 /\ m \in Messages /\ Message(m).entities \in Seq(Entities)
                 /\ \A i \in 1 .. Len(Message(m).entities) :
                       Message(m).entities[i].needs \subseteq PartsOf(Message(m).entities[i].kind)
  <1>1. given \in Workloads
    BY DEF Shape
  <1>2. \A p \in DOMAIN given.pushes : p \in Pushes /\ Push(p) \in Packets
    BY <1>1, WorkloadsAssumption DEF Push
  <1>3. \A m \in DOMAIN given.messages :
                 /\ m \in Messages /\ Message(m).entities \in Seq(Entities)
                 /\ \A i \in 1 .. Len(Message(m).entities) :
                       Message(m).entities[i].needs \subseteq PartsOf(Message(m).entities[i].kind)
    BY <1>1, WorkloadsAssumption DEF Message
  <1>4. QED
    BY <1>2, <1>3

(* A task that begins its program.                                          *)
LEMMA Starts ==
    ASSUME NEW t, NEW s, Fit(s), Steps(Program(t)) \subseteq Steps(s),
           TaskInv(t), pc[t] = "idle", given' = given,
           pc'[t] = "run", todo'[t] = s, known'[t] = known[t], failed'[t] = failed[t]
    PROVE  Stage(t)' /\ Covered(t)' /\ Once(t)' /\ SecondTry(t)'
  <1>1. known[t] = {} /\ failed[t] = {}
    BY DEF TaskInv, Stage
  <1>2. Stage(t)'
    BY DEF Stage, Fit
  <1>3. Covered(t)'
    <2>1. Program(t)' = Program(t)
      BY SameGiven
    <2>2. QED
      BY <2>1 DEF Covered
  <1>4. Once(t)'
    <2>1. Distinct(s) /\ \A r \in Steps(s) : r.ask # "send"
      BY DEF Fit
    <2>2. QED
      BY <1>1, <2>1 DEF Once
  <1>5. SecondTry(t)'
    <2>1. ASSUME NEW r \in Steps(s), NEW i PROVE Pair(r) # <<i, "groupVideo">>
      BY <2>1 DEF Fit, Pair
    <2>2. QED
      BY <1>1, <2>1 DEF SecondTry, OutFor
  <1>6. QED
    BY <1>2, <1>3, <1>4, <1>5

(* A step of one task keeps Inv if it keeps what holds of that task and     *)
(* of the channels.                                                         *)
LEMMA OneTask ==
    ASSUME NEW t \in Tasks, Inv, Shape', TaskInv(t)', Watched',
           \A u \in Tasks : u # t => Untouched(u)
    PROVE  Inv'
  <1>1. \A u \in Tasks : u # t => TaskInv(u)'
    BY UntouchedHolds DEF Inv
  <1>2. QED
    BY <1>1 DEF Inv

LEMMA SentSame ==
    ASSUME Shape, NEW t \in Tasks, NEW x, pc' = [pc EXCEPT ![t] = x], pc[t] # "sent", x # "sent"
    PROVE  SentPushes' = SentPushes
  <1>1. \A p \in Pushes : pc'[p] = IF p = t THEN x ELSE pc[p]
    BY DEF Shape, Tasks
  <1>2. QED
    BY <1>1 DEF SentPushes

(* A packet whose event needs a program.                                    *)
LEMMA ReceiveRuns ==
    ASSUME Inv, NEW p \in Pushes, Receive(p),
           NEW s, Fit(s), Steps(Program(p)) \subseteq Steps(s), Delivers(p),
           \A r \in Steps(s) : r.must => Parse(Push(p)) = Notice("joinRequest") /\ r.of \in {"member", "join"},
           pc' = [pc EXCEPT ![p] = "run"], todo' = [todo EXCEPT ![p] = s],
           uid' \in [Tasks -> {"", "peer"}], \A u \in Tasks : u # p => uid'[u] = uid[u]
    PROVE  Inv'
  <1>1. /\ p \in DOMAIN given.pushes /\ pc[p] = "idle" /\ p \in Tasks /\ p \notin Messages
        /\ UNCHANGED <<given, known, packet, chan, listener, mark, failed, peers, sentAs, reads>>
    BY MessagingAssumption DEF Receive, history, Tasks
  <1>2. Shape /\ TaskInv(p) /\ PushInv(p) /\ Watched
    BY <1>1 DEF Inv, TaskInv
  <1>3. pc'[p] = "run" /\ todo'[p] = s
    BY <1>1, <1>2 DEF Shape
  <1>4. Stage(p)' /\ Covered(p)' /\ Once(p)' /\ SecondTry(p)'
    BY <1>1, <1>2, <1>3, Starts
  <1>5. Push(p)' = Push(p) /\ (Delivers(p)' <=> Delivers(p))
    BY <1>1, SameGiven
  <1>6. PushStage(p)'
    BY <1>1, <1>3, <1>5 DEF PushStage
  <1>7. Fallback(p)'
    BY <1>1, <1>2 DEF Fallback, TaskInv, Stage
  <1>8. MustOnly(p)'
    BY <1>3, <1>5 DEF MustOnly
  <1>9. Told(p)'
    BY <1>3 DEF Told, Settled
  <1>10. TaskInv(p)'
    BY <1>1, <1>4, <1>6, <1>7, <1>8, <1>9 DEF TaskInv, PushInv
  <1>11. Shape'
    <2>1. s \in Seq(SUBSET Requested)
      BY DEF Fit
    <2>2. name' \in Pushes \cup {Nobody}
      BY <1>2 DEF Receive, Shape
    <2>3. QED
      BY <1>1, <1>2, <2>1, <2>2 DEF Shape
  <1>12. \A u \in Tasks : u # p => Untouched(u)
    BY <1>1, <1>2 DEF Untouched, Shape
  <1>13. Watched'
    <2>1. SentPushes' = SentPushes
      BY <1>1, <1>2, SentSame
    <2>2. QED
      BY <1>1, <1>2, <2>1, WatchUntouched
  <1>14. QED
    BY <1>1, <1>10, <1>11, <1>12, <1>13, OneTask

(* A packet that makes no event.                                            *)
LEMMA ReceiveEnds ==
    ASSUME Inv, NEW p \in Pushes, Receive(p), NEW x \in {"refused", "panicked", "dropped"},
           Parse(Push(p)).result \in {"refused", "panics", "nothing"},
           pc' = [pc EXCEPT ![p] = x], UNCHANGED <<todo, uid>>
    PROVE  Inv'
  <1>1. /\ p \in DOMAIN given.pushes /\ pc[p] = "idle" /\ p \in Tasks /\ p \notin Messages
        /\ UNCHANGED <<given, known, packet, chan, listener, mark, failed, peers, sentAs, reads>>
    BY MessagingAssumption DEF Receive, history, Tasks
  <1>2. Shape /\ TaskInv(p) /\ PushInv(p) /\ Watched
    BY <1>1 DEF Inv, TaskInv
  <1>3. pc'[p] = x
    BY <1>1, <1>2 DEF Shape
  <1>4. todo[p] = <<>> /\ known[p] = {} /\ failed[p] = {} /\ {} \notin Items(todo[p])
    BY <1>1, <1>2 DEF TaskInv, Stage
  <1>5. Push(p)' = Push(p)
    BY <1>1, SameGiven
  <1>6. Stage(p)' /\ Covered(p)'
    BY <1>1, <1>3, <1>4 DEF Stage, Covered, Running
  <1>7. Once(p)' /\ SecondTry(p)'
    BY <1>1, <1>2 DEF TaskInv, Once, SecondTry, OutFor
  <1>8. PushStage(p)' /\ Fallback(p)'
    BY <1>1, <1>3 DEF PushStage, Fallback
  <1>9. MustOnly(p)'
    BY <1>1, <1>2, <1>5 DEF PushInv, MustOnly
  <1>10. Told(p)'
    BY <1>5 DEF Told
  <1>11. TaskInv(p)'
    BY <1>1, <1>6, <1>7, <1>8, <1>9, <1>10 DEF TaskInv, PushInv
  <1>12. Shape'
    <2>1. name' \in Pushes \cup {Nobody}
      BY <1>2 DEF Receive, Shape
    <2>2. x \in {"idle", "run", "posted"} \cup Settled
      BY DEF Settled
    <2>3. QED
      BY <1>1, <1>2, <2>1, <2>2 DEF Shape
  <1>13. \A u \in Tasks : u # p => Untouched(u)
    BY <1>1, <1>2 DEF Untouched, Shape
  <1>14. Watched'
    <2>1. SentPushes' = SentPushes
      BY <1>1, <1>2, SentSame
    <2>2. QED
      BY <1>1, <1>2, <2>1, WatchUntouched
  <1>15. QED
    BY <1>1, <1>11, <1>12, <1>13, <1>14, OneTask

LEMMA ReceiveInv ==
    ASSUME Inv, NEW p \in Pushes, Receive(p)
    PROVE  Inv'
  <1> DEFINE parse == Parse(Push(p))
  <1>1. Shape /\ p \in DOMAIN given.pushes /\ p \in Tasks /\ p \notin Messages
    BY MessagingAssumption DEF Inv, Receive, Tasks
  <1>2. Push(p) \in Packets
    BY <1>1, GivenShape
  <1>3. /\ parse.result \in {"refused", "panics", "nothing", "notice", "chain"}
        /\ parse.result = "notice" => ParsedNotice(parse)
        /\ parse.result = "chain" => ParsedChain(Push(p), parse)
        /\ \A event : parse = Notice(event) <=> parse.result = "notice" /\ parse.name = event
    BY <1>2, ParseKinds
  <1>4. CASE parse.result = "chain"
    <2> DEFINE s == ChainSteps(parse)
    <2>1. /\ pc' = [pc EXCEPT ![p] = "run"] /\ todo' = [todo EXCEPT ![p] = s]
          /\ uid' = [uid EXCEPT ![p] = parse.uid]
      BY <1>4 DEF Receive
    <2>2. parse.entities \in Seq(STRING \cup {"c2cFile"}) /\ parse.uid \in {"", "peer"}
      BY <1>3, <1>4 DEF ParsedChain
    <2>3. Fit(s) /\ \A r \in Steps(s) : ~ r.must
      BY <2>2, ChainStepsShape DEF Fit
    <2>4. Program(p) = s
      BY <1>1, <1>4 DEF Program
    <2>5. Delivers(p)
      BY <1>4 DEF Delivers
    <2>6. uid' \in [Tasks -> {"", "peer"}] /\ \A u \in Tasks : u # p => uid'[u] = uid[u]
      BY <1>1, <2>1, <2>2 DEF Shape
    <2> HIDE DEF s
    <2>7. QED
      BY <2>1, <2>3, <2>4, <2>5, <2>6, ReceiveRuns
  <1>5. CASE parse.result = "notice"
    <2>1. parse.name \in Handled
      BY <1>3, <1>5 DEF ParsedNotice
    <2>2. /\ pc' = [pc EXCEPT ![p] = "run"] /\ UNCHANGED uid
          /\ \E first \in Caching(parse.name) :
                todo' = [todo EXCEPT ![p] = first \o NoticeSteps(p, parse.name)]
      BY <1>5, <2>1 DEF Receive
    <2>3. PICK first \in Caching(parse.name) : todo' = [todo EXCEPT ![p] = first \o NoticeSteps(p, parse.name)]
      BY <2>2
    <2> DEFINE s == first \o NoticeSteps(p, parse.name)
    <2>4. /\ Fit(s) /\ Steps(NoticeSteps(p, parse.name)) \subseteq Steps(s)
          /\ \A r \in Steps(s) : r.must => parse.name = "joinRequest" /\ r.of \in {"member", "join"}
      BY <2>1, NoticeFits
    <2>5. Program(p) = NoticeSteps(p, parse.name)
      BY <1>1, <1>5 DEF Program
    <2>6. Delivers(p)
      BY <1>5, <2>1 DEF Delivers
    <2>7. uid' \in [Tasks -> {"", "peer"}] /\ \A u \in Tasks : u # p => uid'[u] = uid[u]
      BY <1>1, <2>2 DEF Shape
    <2>8. todo' = [todo EXCEPT ![p] = s]
      BY <2>3
    <2> HIDE DEF s
    <2>9. \A r \in Steps(s) : r.must => Parse(Push(p)) = Notice("joinRequest") /\ r.of \in {"member", "join"}
      BY <1>3, <1>5, <2>4
    <2>10. QED
      BY <2>2, <2>4, <2>5, <2>6, <2>7, <2>8, <2>9, ReceiveRuns
  <1>6. CASE parse.result \in {"refused", "panics", "nothing"}
    <2> DEFINE x == CASE parse.result = "refused" -> "refused"
                      [] parse.result = "panics" -> "panicked"
                      [] OTHER -> "dropped"
    <2>1. pc' = [pc EXCEPT ![p] = x] /\ UNCHANGED <<todo, uid>>
      BY <1>6 DEF Receive
    <2>2. x \in {"refused", "panicked", "dropped"}
      OBVIOUS
    <2> HIDE DEF x
    <2>3. QED
      BY <1>6, <2>1, <2>2, ReceiveEnds
  <1>7. QED
    BY <1>3, <1>4, <1>5, <1>6

LEMMA OutgoingFits ==
    ASSUME NEW m, NEW S, m.entities \in Seq(S),
           \A i \in 1 .. Len(m.entities) : m.entities[i].needs \subseteq PartsOf(m.entities[i].kind)
    PROVE  /\ Fit(Outgoing(m))
           /\ m.typ = "friend" => /\ Outgoing(m) # <<>> /\ Head(Outgoing(m)) = {FriendStep}
                                  /\ \A r \in Steps(Tail(Outgoing(m))) : r.ask \notin Lookups
  <1> DEFINE d == Metadata(m.typ)
             u == Uploads(m)
  <1>1. /\ Outgoing(m) = d \o u
        /\ u \in Seq(SUBSET Requested) /\ {} \notin Items(u) /\ Distinct(u)
        /\ \A r \in Steps(u) : r.must /\ r.ask \in Parts
    BY OutgoingShape
  <1>2. /\ d \in Seq(SUBSET Requested) /\ {} \notin Items(d) /\ Distinct(d)
        /\ \A r \in Steps(d) : r = Of(Itself, m.typ, FALSE) /\ m.typ \in Lookups
        /\ m.typ = "friend" => d = <<{FriendStep}>>
    BY MetadataShape
  <1> HIDE DEF d, u
  <1>3. ASSUME NEW r \in Steps(u) PROVE r.ask \notin {"groupVideo", "send"} /\ r.ask \notin Lookups
    BY <1>1 DEF Parts, Lookups
  <1>4. ASSUME NEW r \in Steps(d) PROVE r.ask \notin {"groupVideo", "send"} /\ r.ask \in Lookups
    BY <1>2 DEF Lookups, Of
  <1>5. Fit(u) /\ Fit(d)
    BY <1>1, <1>2, <1>3, <1>4 DEF Fit
  <1>6. \A a \in Steps(d), b \in Steps(u) : Pair(a) # Pair(b)
    BY <1>3, <1>4 DEF Pair
  <1>7. Fit(d \o u)
    BY <1>5, <1>6, FitConcat
  <1>8. ASSUME m.typ = "friend"
        PROVE  d \o u # <<>> /\ Head(d \o u) = {FriendStep} /\ Tail(d \o u) = u
    <2> DEFINE x == {FriendStep}
    <2>1. d = <<x>>
      BY <1>2, <1>8
    <2>2. x \in SUBSET Requested
      <3>1. \A y \in Seq(SUBSET Requested) : Len(y) = 1 => y[1] \in SUBSET Requested
        BY SMTT(30)
      <3> HIDE DEF x
      <3>2. Len(d) = 1 /\ d[1] = x
        BY <2>1
      <3>3. QED
        BY <1>2, <3>1, <3>2
    <2> HIDE DEF x
    <2>3. <<x>> \o u # <<>> /\ Head(<<x>> \o u) = x /\ Tail(<<x>> \o u) = u
      BY <1>1, <2>2
    <2>4. QED
      BY <2>1, <2>3 DEF x
  <1>9. QED
    BY <1>1, <1>3, <1>7, <1>8

LEMMA ComposeInv ==
    ASSUME Inv, NEW m \in Messages, Compose(m)
    PROVE  Inv'
  <1>1. /\ m \in DOMAIN given.messages /\ pc[m] = "idle" /\ m \in Tasks /\ m \notin Pushes
        /\ UNCHANGED <<given, known, uid, packet, name, chan, listener, mark, failed, peers, sentAs, reads>>
    BY MessagingAssumption DEF Compose, history, Tasks
  <1>2. Shape /\ TaskInv(m) /\ MessageInv(m) /\ Watched
    BY <1>1 DEF Inv, TaskInv
  <1> DEFINE s == Outgoing(Message(m))
  <1>3. /\ Fit(s)
        /\ Message(m).typ = "friend" => /\ s # <<>> /\ Head(s) = {FriendStep}
                                        /\ \A r \in Steps(Tail(s)) : r.ask \notin Lookups
    <2>1. /\ Message(m).entities \in Seq(Entities)
          /\ \A i \in 1 .. Len(Message(m).entities) :
                Message(m).entities[i].needs \subseteq PartsOf(Message(m).entities[i].kind)
      BY <1>1, <1>2, GivenShape
    <2>2. QED
      BY <2>1, OutgoingFits
  <1>4. pc' = [pc EXCEPT ![m] = "run"] /\ todo' = [todo EXCEPT ![m] = s]
    BY DEF Compose
  <1>5. Program(m) = s
    BY DEF Program
  <1> HIDE DEF s
  <1>6. pc'[m] = "run" /\ todo'[m] = s
    BY <1>1, <1>2, <1>4 DEF Shape
  <1>7. Stage(m)' /\ Covered(m)' /\ Once(m)' /\ SecondTry(m)'
    BY <1>1, <1>2, <1>3, <1>5, <1>6, Starts
  <1>8. MessageStage(m)'
    BY <1>1, <1>2, <1>6 DEF MessageInv, MessageStage
  <1>9. FriendFirst(m)'
    <2>1. Message(m)' = Message(m)
      BY <1>1, SameGiven
    <2>2. packet[m] = NotPosted /\ peers[m] = {} /\ uid[m] = "" /\ known[m] = {}
      BY <1>1, <1>2 DEF MessageInv, MessageStage, TaskInv, Stage
    <2>3. Message(m).typ = "friend" => Unasked(m)'
      BY <1>1, <1>3, <1>6, <2>2 DEF Unasked
    <2>4. QED
      BY <1>1, <2>1, <2>2, <2>3 DEF FriendFirst
  <1>10. TaskInv(m)'
    BY <1>1, <1>7, <1>8, <1>9 DEF TaskInv, MessageInv
  <1>11. Shape'
    <2>1. s \in Seq(SUBSET Requested)
      BY <1>3 DEF Fit
    <2>2. QED
      BY <1>1, <1>2, <1>4, <2>1 DEF Shape
  <1>12. \A u \in Tasks : u # m => Untouched(u)
    BY <1>1, <1>2, <1>4 DEF Untouched, Shape
  <1>13. Watched'
    <2>1. SentPushes' = SentPushes
      BY <1>1, <1>2, <1>4, SentSame
    <2>2. QED
      BY <1>1, <1>2, <2>1, WatchUntouched
  <1>14. QED
    BY <1>1, <1>10, <1>11, <1>12, <1>13, OneTask

-----------------------------------------------------------------------------
(* A request that is out.                                                   *)
LEMMA OutShape ==
    ASSUME Inv, NEW t \in Tasks, NEW step \in Out(t)
    PROVE  /\ pc[t] = "run" /\ todo[t] \in Seq(SUBSET Requested) /\ todo[t] # <<>> /\ step \in Head(todo[t])
           /\ step \in Steps(todo[t]) /\ step \in Requested
           /\ Without(t, step) = Rest(todo[t], step)
           /\ Pair(step) = <<step.of, step.ask>> /\ Pair(step) \in Pairs
           /\ Pair(step) \notin known[t] \cup failed[t] /\ step.ask # "send"
  <1>1. pc[t] = "run" /\ todo[t] # <<>> /\ step \in Head(todo[t])
    BY DEF Out
  <1>2. todo[t] \in Seq(SUBSET Requested)
    BY DEF Inv, Shape
  <1>3. Steps(todo[t]) = Head(todo[t]) \cup Steps(Tail(todo[t]))
    BY <1>1, <1>2, RestShape
  <1>4. Head(todo[t]) \in SUBSET Requested
    BY <1>1, <1>2, HeadTailProperties
  <1>5. step \in Steps(todo[t]) /\ step \in Requested
    BY <1>1, <1>3, <1>4
  <1>6. Without(t, step) = Rest(todo[t], step)
    BY DEF Without, Rest
  <1>7. Pair(step) = <<step.of, step.ask>> /\ Pair(step) \in Pairs
    BY <1>5 DEF Pair, Pairs, Requested
  <1>8. Pair(step) \notin known[t] \cup failed[t] /\ step.ask # "send"
    BY <1>5 DEF Inv, TaskInv, Once
  <1>9. QED
    BY <1>1, <1>2, <1>5, <1>6, <1>7, <1>8

(* What is left of a program: its stages, none of them for the request      *)
(* that has ended.                                                          *)
Goes(t, step, s) ==
    /\ s \in Seq(SUBSET Requested) /\ {} \notin Items(s) /\ Distinct(s)
    /\ Steps(todo[t]) \subseteq Steps(s) \cup {step}
    /\ \A r \in Steps(s) : Pair(r) # Pair(step)

LEMMA GoesOn ==
    ASSUME Inv, NEW t \in Tasks, NEW step \in Out(t)
    PROVE  /\ Goes(t, step, Rest(todo[t], step))
           /\ Steps(Rest(todo[t], step)) \subseteq Steps(todo[t])
           /\ Head(todo[t]) = {step} => Rest(todo[t], step) = Tail(todo[t])
  <1> DEFINE s == todo[t]
  <1>1. s \in Seq(SUBSET Requested) /\ s # <<>> /\ step \in Head(s)
    BY OutShape
  <1>2. {} \notin Items(s) /\ Distinct(s)
    BY DEF Inv, TaskInv, Stage, Once
  <1> HIDE DEF s
  <1>3. /\ Rest(s, step) \in Seq(SUBSET Requested)
        /\ Steps(Rest(s, step)) = (Head(s) \ {step}) \cup Steps(Tail(s))
        /\ Steps(s) = Head(s) \cup Steps(Tail(s))
        /\ {} \notin Items(Rest(s, step)) /\ Distinct(Rest(s, step))
    BY <1>1, <1>2, RestShape
  <1>4. \A r \in Steps(Rest(s, step)) : Pair(r) # Pair(step)
    BY <1>1, <1>2, RestLeaves
  <1>5. Head(s) = {step} => Rest(s, step) = Tail(s)
    BY DEF Rest
  <1>6. QED
    BY <1>3, <1>4, <1>5 DEF Goes, s

(* The second request for a video of a group.                               *)
Again(step) == Of(step.of, "groupVideo", FALSE)
Retried(t, step) == step.ask = "video" /\ t \in Pushes /\ Push(t).grouped

(* What is left when a request has failed that may fail.                    *)
LEMMA GoesAgain ==
    ASSUME Inv, NEW t \in Tasks, NEW step \in Out(t)
    PROVE  LET s == Instead(t, step) \o Without(t, step) IN
           /\ Goes(t, step, s)
           /\ ~ Retried(t, step) => s = Rest(todo[t], step)
           /\ Retried(t, step) => Steps(s) = {Again(step)} \cup Steps(Rest(todo[t], step))
  <1> DEFINE w == Rest(todo[t], step)
             x == Try(step.of, "groupVideo")
  <1>1. /\ Goes(t, step, w) /\ Steps(w) \subseteq Steps(todo[t]) /\ Without(t, step) = w
        /\ w \in Seq(SUBSET Requested)
    BY GoesOn, OutShape DEF Goes
  <1>2. step \in Requested /\ step \in Steps(todo[t]) /\ Pair(step) = <<step.of, step.ask>>
        /\ Pair(step) \notin known[t] \cup failed[t]
    BY OutShape
  <1>3. x = {Again(step)} /\ Again(step) \in Requested
    BY <1>2 DEF Try, Again, Of, Requested, Asks
  <1>4. Instead(t, step) = IF Retried(t, step) THEN <<x>> ELSE <<>>
    BY DEF Instead, Retried
  <1> HIDE DEF w, x
  <1>5. CASE ~ Retried(t, step)
    <2>1. Instead(t, step) \o Without(t, step) = w
      BY <1>1, <1>4, <1>5
    <2>2. QED
      BY <1>1, <1>5, <2>1 DEF w
  <1>6. CASE Retried(t, step)
    <2> DEFINE d == <<x>>
    <2>1. d \in Seq(SUBSET Requested) /\ Items(d) = {x} /\ Steps(d) = x /\ Distinct(d)
      <3>1. d \in Seq(SUBSET Requested)
        BY <1>3
      <3>2. Items(d) = {x} /\ Steps(d) = x
        BY ItemsShort, StepsShort
      <3>3. Distinct(d)
        BY <1>3, DistinctShort
      <3>4. QED
        BY <3>1, <3>2, <3>3
    <2> HIDE DEF d
    <2>2. /\ d \o w \in Seq(SUBSET Requested) /\ Steps(d \o w) = Steps(d) \cup Steps(w)
          /\ Items(d \o w) = Items(d) \cup Items(w)
      BY <1>1, <2>1, StepsConcat, ItemsConcat
    <2>3. step.ask = "video"
      BY <1>6 DEF Retried
    <2>4. Pair(Again(step)) = <<step.of, "groupVideo">> /\ Pair(Again(step)) # Pair(step)
      BY <1>2, <2>3 DEF Again, Pair, Of
    <2>5. \A r \in Steps(todo[t]) : Pair(r) # Pair(Again(step))
      <3>1. SUFFICES ASSUME NEW r \in Steps(todo[t]), Pair(r) = <<step.of, "groupVideo">> PROVE FALSE
        BY <2>4
      <3>2. step.of \in Nat \cup Names
        BY <1>2 DEF Requested
      <3>3. OutFor(t, step.of, "groupVideo")
        BY <3>1 DEF OutFor
      <3>4. <<step.of, "video">> \in failed[t]
        BY <3>2, <3>3 DEF Inv, TaskInv, SecondTry
      <3>5. QED
        BY <1>2, <2>3, <3>4
    <2>6. Distinct(d \o w)
      <3>1. \A a \in Steps(d), b \in Steps(w) : Pair(a) # Pair(b)
        BY <1>1, <1>3, <2>1, <2>5
      <3>2. Distinct(w)
        BY <1>1 DEF Goes
      <3>3. QED
        BY <1>1, <2>1, <3>1, <3>2, DistinctConcat
    <2>7. Goes(t, step, d \o w)
      BY <1>1, <1>3, <2>1, <2>2, <2>4, <2>6 DEF Goes
    <2>8. Instead(t, step) \o Without(t, step) = d \o w
      BY <1>1, <1>4, <1>6 DEF d
    <2>9. Steps(d \o w) = {Again(step)} \cup Steps(Rest(todo[t], step))
      BY <1>3, <2>1, <2>2 DEF w
    <2>10. QED
      BY <1>6, <2>7, <2>8, <2>9
  <1>7. QED
    BY <1>5, <1>6

(* An announcement adds the uid at hand to those announced under.           *)
LEMMA AnnounceShape ==
    ASSUME Inv, NEW t \in Tasks, NEW step, Announce(t, step)
    PROVE  /\ peers' \in [Messages -> SUBSET {"", "peer"}]
           /\ \A m \in Messages : /\ m # t => peers'[m] = peers[m]
                                  /\ peers'[m] \subseteq peers[m] \cup {uid[m]}
           /\ step.ask # "announce" => peers' = peers
  <1>1. peers \in [Messages -> SUBSET {"", "peer"}] /\ uid[t] \in {"", "peer"}
    BY DEF Inv, Shape
  <1>2. QED
    BY <1>1 DEF Announce

LEMMA AnsweredTask ==
    ASSUME Inv, NEW t \in Tasks, NEW step \in Out(t), Answered(t, step)
    PROVE  /\ todo'[t] = Rest(todo[t], step) /\ pc'[t] = "run" /\ pc[t] = "run"
           /\ known'[t] = known[t] \cup {Pair(step)} /\ failed'[t] = failed[t]
           /\ uid'[t] = (IF step.ask \in Lookups THEN "peer" ELSE uid[t])
           /\ given' = given /\ packet' = packet
           /\ \A u \in Tasks : u # t => Untouched(u)
           /\ Shape'
  <1>1. /\ pc[t] = "run" /\ Without(t, step) = Rest(todo[t], step)
        /\ Pair(step) = <<step.of, step.ask>> /\ Pair(step) \in Pairs
    BY OutShape
  <1>2. Rest(todo[t], step) \in Seq(SUBSET Requested)
    BY GoesOn DEF Goes
  <1>3. Shape
    BY DEF Inv
  <1>4. /\ UNCHANGED <<given, pc, packet, name, failed>>
        /\ todo' = [todo EXCEPT ![t] = Rest(todo[t], step)]
        /\ known' = [known EXCEPT ![t] = @ \cup {Pair(step)}]
        /\ uid' = IF step.ask \in Lookups THEN [uid EXCEPT ![t] = "peer"] ELSE uid
    BY <1>1 DEF Answered, Lookups
  <1>5. /\ peers' \in [Messages -> SUBSET {"", "peer"}]
        /\ \A m \in Messages : m # t => peers'[m] = peers[m]
    BY AnnounceShape DEF Answered
  <1>6. Shape'
    BY <1>1, <1>2, <1>3, <1>4, <1>5 DEF Shape
  <1>7. \A u \in Tasks : u # t => Untouched(u)
    BY <1>3, <1>4, <1>5 DEF Untouched, Shape
  <1>8. QED
    BY <1>1, <1>3, <1>4, <1>6, <1>7 DEF Shape

LEMMA AnsweredInv ==
    ASSUME Inv, NEW t \in Tasks, NEW step \in Out(t), Answered(t, step)
    PROVE  Inv'
  <1> DEFINE s == Rest(todo[t], step)
  <1>1. /\ todo'[t] = s /\ pc'[t] = "run" /\ pc[t] = "run"
        /\ known'[t] = known[t] \cup {Pair(step)} /\ failed'[t] = failed[t]
        /\ uid'[t] = (IF step.ask \in Lookups THEN "peer" ELSE uid[t])
        /\ given' = given /\ packet' = packet
    BY AnsweredTask
  <1>2. /\ s \in Seq(SUBSET Requested) /\ {} \notin Items(s) /\ Distinct(s)
        /\ Steps(todo[t]) \subseteq Steps(s) \cup {step} /\ Steps(s) \subseteq Steps(todo[t])
        /\ \A r \in Steps(s) : Pair(r) # Pair(step)
        /\ Head(todo[t]) = {step} => s = Tail(todo[t])
    BY GoesOn DEF Goes
  <1>3. /\ step \in Steps(todo[t]) /\ Pair(step) = <<step.of, step.ask>>
        /\ Pair(step) \notin known[t] \cup failed[t] /\ step.ask # "send"
    BY OutShape
  <1>4. TaskInv(t)
    BY DEF Inv
  <1>5. Program(t)' = Program(t) /\ Push(t)' = Push(t) /\ Message(t)' = Message(t) /\ (Delivers(t)' <=> Delivers(t))
    BY <1>1, SameGiven
  <1> HIDE DEF s
  <1>6. Stage(t)'
    BY <1>1, <1>2 DEF Stage
  <1>7. Covered(t)'
    <2>1. Running(t)' => Running(t)
      BY <1>1 DEF Running
    <2>2. QED
      BY <1>1, <1>2, <1>4, <1>5, <2>1 DEF TaskInv, Covered
  <1>8. Once(t)'
    <2>1. Once(t)
      BY <1>4 DEF TaskInv
    <2>2. <<Itself, "send">> # Pair(step)
      BY <1>3
    <2>3. QED
      BY <1>1, <1>2, <1>3, <2>1, <2>2 DEF Once
  <1>9. SecondTry(t)'
    <2>1. \A i \in Nat \cup Names : OutFor(t, i, "groupVideo")' \/ <<i, "groupVideo">> = Pair(step)
             => OutFor(t, i, "groupVideo")
      BY <1>1, <1>2, <1>3 DEF OutFor
    <2>2. QED
      BY <1>1, <1>4, <2>1 DEF TaskInv, SecondTry
  <1>10. ASSUME t \in Pushes PROVE PushInv(t)'
    <2>1. PushInv(t)
      BY <1>4, <1>10 DEF TaskInv
    <2>2. PushStage(t)'
      BY <1>1, <1>5, <2>1 DEF PushInv, PushStage
    <2>3. Fallback(t)'
      <3>1. \A i \in Nat : OutFor(t, i, "groupVideo") => OutFor(t, i, "groupVideo")' \/ <<i, "groupVideo">> \in known'[t]
        BY <1>1, <1>2 DEF OutFor
      <3>2. QED
        BY <1>1, <1>5, <2>1, <3>1 DEF PushInv, Fallback
    <2>4. MustOnly(t)'
      BY <1>1, <1>2, <1>5, <2>1 DEF PushInv, MustOnly
    <2>5. Told(t)'
      BY <1>1 DEF Told, Settled
    <2>6. QED
      BY <2>2, <2>3, <2>4, <2>5 DEF PushInv
  <1>11. ASSUME t \in Messages PROVE MessageInv(t)'
    <2>1. MessageInv(t)
      BY <1>4, <1>11 DEF TaskInv
    <2>2. MessageStage(t)'
      BY <1>1, <2>1 DEF MessageInv, MessageStage
    <2>3. peers'[t] \subseteq peers[t] \cup {uid[t]} /\ (step.ask # "announce" => peers' = peers)
      BY <1>11, AnnounceShape DEF Answered
    <2>4. ASSUME Unasked(t) PROVE Asked(t)'
      <3>1. Head(todo[t]) = {FriendStep} /\ step = FriendStep
        BY <2>4 DEF Unasked, Out
      <3>2. s = Tail(todo[t]) /\ step.ask = "friend"
        BY <1>2, <3>1 DEF FriendStep
      <3>3. uid'[t] = "peer" /\ Pair(FriendStep) \in known'[t] /\ peers'[t] = {}
        BY <1>1, <2>3, <2>4, <3>1, <3>2 DEF Lookups, Unasked
      <3>4. QED
        BY <1>1, <2>4, <3>2, <3>3 DEF Unasked, Asked
    <2>5. ASSUME Asked(t) PROVE Asked(t)'
      <3>1. step.ask \notin Lookups
        BY <1>3, <2>5 DEF Asked
      <3>2. uid'[t] = uid[t] /\ Pair(step) # Pair(FriendStep)
        BY <1>1, <3>1 DEF Pair, FriendStep, Lookups
      <3>3. peers'[t] \subseteq {uid[t]}
        BY <2>3, <2>5 DEF Asked
      <3>4. QED
        BY <1>1, <1>2, <2>5, <3>2, <3>3 DEF Asked
    <2>6. packet[t] = NotPosted
      BY <1>1, <2>1 DEF MessageInv, MessageStage
    <2>7. FriendFirst(t)'
      BY <1>1, <1>5, <2>1, <2>4, <2>5, <2>6 DEF MessageInv, FriendFirst
    <2>8. QED
      BY <2>2, <2>7 DEF MessageInv
  <1>12. TaskInv(t)'
    BY <1>6, <1>7, <1>8, <1>9, <1>10, <1>11 DEF TaskInv
  <1>13. Shape' /\ \A u \in Tasks : u # t => Untouched(u)
    BY AnsweredTask
  <1>14. Watched'
    <2>1. SentPushes' = SentPushes
      BY DEF Answered, SentPushes
    <2>2. QED
      BY <1>1, <2>1, WatchUntouched DEF Answered, Inv
  <1>15. QED
    BY <1>12, <1>13, <1>14, OneTask

LEMMA FailedTask ==
    ASSUME Inv, NEW t \in Tasks, NEW step \in Out(t), Failed(t, step)
    PROVE  /\ step.must => /\ todo'[t] = <<>>
                           /\ pc'[t] = IF t \in Pushes THEN "dropped" ELSE "err"
           /\ ~ step.must => /\ todo'[t] = Instead(t, step) \o Without(t, step)
                             /\ pc'[t] = "run"
           /\ pc[t] = "run" /\ known'[t] = known[t] /\ failed'[t] = failed[t] \cup {Pair(step)}
           /\ uid'[t] = uid[t] /\ given' = given /\ packet' = packet
           /\ \A u \in Tasks : u # t => Untouched(u)
           /\ Shape' /\ SentPushes' = SentPushes
  <1>1. /\ pc[t] = "run" /\ Pair(step) = <<step.of, step.ask>> /\ Pair(step) \in Pairs
    BY OutShape
  <1>2. Shape
    BY DEF Inv
  <1> DEFINE x == IF step.must THEN IF t \in Pushes THEN "dropped" ELSE "err" ELSE "run"
             s == IF step.must THEN <<>> ELSE Instead(t, step) \o Without(t, step)
  <1>3. s \in Seq(SUBSET Requested)
    BY GoesAgain DEF Goes
  <1>4. x \in {"idle", "run", "posted"} \cup Settled /\ x # "sent"
    BY DEF Settled
  <1>5. pc' = [pc EXCEPT ![t] = x]
    <2>1. CASE step.must
      BY <2>1 DEF Failed
    <2>2. CASE ~ step.must
      <3>1. pc' = pc
        BY <2>2 DEF Failed
      <3>2. QED
        BY <1>1, <1>2, <2>2, <3>1 DEF Shape
    <2>3. QED
      BY <2>1, <2>2
  <1>6. todo' = [todo EXCEPT ![t] = s]
    BY DEF Failed
  <1>7. /\ UNCHANGED <<given, known, uid, packet, name>>
        /\ failed' = [failed EXCEPT ![t] = @ \cup {Pair(step)}]
    BY <1>1 DEF Failed
  <1>8. /\ peers' \in [Messages -> SUBSET {"", "peer"}]
        /\ \A m \in Messages : m # t => peers'[m] = peers[m]
    BY AnnounceShape DEF Failed
  <1> HIDE DEF x, s
  <1>9. Shape'
    BY <1>1, <1>2, <1>3, <1>4, <1>5, <1>6, <1>7, <1>8 DEF Shape
  <1>10. \A u \in Tasks : u # t => Untouched(u)
    BY <1>2, <1>5, <1>6, <1>7, <1>8 DEF Untouched, Shape
  <1>11. SentPushes' = SentPushes
    BY <1>1, <1>2, <1>4, <1>5, SentSame
  <1>12. todo'[t] = s /\ pc'[t] = x /\ known'[t] = known[t] /\ failed'[t] = failed[t] \cup {Pair(step)} /\ uid'[t] = uid[t]
    BY <1>2, <1>5, <1>6, <1>7 DEF Shape
  <1>13. QED
    BY <1>1, <1>7, <1>9, <1>10, <1>11, <1>12 DEF x, s

(* A failure behind `?` ends the task.                                      *)
LEMMA FailedMust ==
    ASSUME Inv, NEW t \in Tasks, NEW step \in Out(t), Failed(t, step), step.must
    PROVE  TaskInv(t)'
  <1>1. /\ todo'[t] = <<>> /\ pc'[t] = IF t \in Pushes THEN "dropped" ELSE "err"
        /\ pc[t] = "run" /\ known'[t] = known[t] /\ failed'[t] = failed[t] \cup {Pair(step)}
        /\ uid'[t] = uid[t] /\ given' = given /\ packet' = packet
    BY FailedTask
  <1>2. /\ step \in Steps(todo[t]) /\ Pair(step) = <<step.of, step.ask>>
        /\ Pair(step) \notin known[t] \cup failed[t] /\ step.ask # "send"
    BY OutShape
  <1>3. TaskInv(t)
    BY DEF Inv
  <1>4. Push(t)' = Push(t) /\ Message(t)' = Message(t) /\ (Delivers(t)' <=> Delivers(t))
    BY <1>1, SameGiven
  <1>5. Steps(<<>>) = {} /\ Items(<<>>) = {} /\ Distinct(<<>>)
    BY StepsShort, ItemsShort, DistinctShort
  <1>6. Stage(t)'
    BY <1>1, <1>5 DEF Stage
  <1>7. t \in Messages => packet[t] = NotPosted /\ t \notin Pushes
    BY <1>1, <1>3, MessagingAssumption DEF TaskInv, MessageInv, MessageStage
  <1>8. Covered(t)'
    BY <1>1, <1>7 DEF Covered, Running
  <1>9. Once(t)'
    BY <1>1, <1>2, <1>3, <1>5 DEF TaskInv, Once
  <1>10. SecondTry(t)'
    <2>1. \A i \in Nat \cup Names : <<i, "groupVideo">> = Pair(step) => OutFor(t, i, "groupVideo")
      BY <1>2 DEF OutFor
    <2>2. \A i : ~ OutFor(t, i, "groupVideo")'
      BY <1>1, <1>5 DEF OutFor
    <2>3. QED
      BY <1>1, <1>3, <2>1, <2>2 DEF TaskInv, SecondTry
  <1>11. ASSUME t \in Pushes PROVE PushInv(t)'
    <2>1. PushInv(t) /\ pc'[t] = "dropped"
      BY <1>1, <1>3, <1>11 DEF TaskInv
    <2>2. PushStage(t)'
      BY <1>1, <1>4, <2>1 DEF PushInv, PushStage
    <2>3. Fallback(t)' /\ MustOnly(t)'
      BY <1>1, <1>5, <2>1 DEF Fallback, MustOnly
    <2>4. Told(t)'
      <3>1. Parse(Push(t)) = Notice("joinRequest") /\ step.of \in {"member", "join"}
        BY <1>2, <2>1 DEF PushInv, MustOnly
      <3>2. Pair(step)[1] \in {"member", "join"} /\ Pair(step) \in failed'[t]
        BY <1>1, <1>2, <3>1
      <3>3. QED
        BY <1>4, <3>1, <3>2 DEF Told
    <2>5. QED
      BY <2>2, <2>3, <2>4 DEF PushInv
  <1>12. ASSUME t \in Messages PROVE MessageInv(t)'
    <2>1. MessageInv(t) /\ pc'[t] = "err"
      BY <1>1, <1>3, <1>7, <1>12 DEF TaskInv
    <2>2. MessageStage(t)'
      BY <1>1, <1>7, <1>12, <2>1 DEF MessageInv, MessageStage
    <2>3. peers'[t] \subseteq peers[t] \cup {uid[t]}
      BY <1>12, AnnounceShape DEF Failed
    <2>4. ~ Unasked(t)
      <3>1. SUFFICES ASSUME Unasked(t) PROVE FALSE
        OBVIOUS
      <3>2. step = FriendStep
        BY <3>1 DEF Unasked, Out
      <3>3. QED
        BY <3>2 DEF FriendStep
    <2>5. Asked(t) => Asked(t)'
      BY <1>1, <1>2, <1>5, <2>3 DEF Asked, Pair, FriendStep
    <2>6. FriendFirst(t)'
      BY <1>1, <1>4, <1>7, <1>12, <2>1, <2>4, <2>5 DEF MessageInv, FriendFirst
    <2>7. QED
      BY <2>2, <2>6 DEF MessageInv
  <1>13. QED
    BY <1>6, <1>8, <1>9, <1>10, <1>11, <1>12 DEF TaskInv

(* Any other failure lets it go on.                                         *)
LEMMA FailedTry ==
    ASSUME Inv, NEW t \in Tasks, NEW step \in Out(t), Failed(t, step), ~ step.must
    PROVE  TaskInv(t)'
  <1> DEFINE s == Instead(t, step) \o Without(t, step)
             w == Rest(todo[t], step)
  <1>1. /\ todo'[t] = s /\ pc'[t] = "run"
        /\ pc[t] = "run" /\ known'[t] = known[t] /\ failed'[t] = failed[t] \cup {Pair(step)}
        /\ uid'[t] = uid[t] /\ given' = given /\ packet' = packet
    BY FailedTask
  <1>2. /\ step \in Steps(todo[t]) /\ Pair(step) = <<step.of, step.ask>>
        /\ Pair(step) \notin known[t] \cup failed[t] /\ step.ask # "send" /\ step \in Requested
    BY OutShape
  <1>3. TaskInv(t)
    BY DEF Inv
  <1>4. Push(t)' = Push(t) /\ Message(t)' = Message(t) /\ (Delivers(t)' <=> Delivers(t)) /\ Program(t)' = Program(t)
    BY <1>1, SameGiven
  <1>5. /\ s \in Seq(SUBSET Requested) /\ {} \notin Items(s) /\ Distinct(s)
        /\ Steps(todo[t]) \subseteq Steps(s) \cup {step}
        /\ \A r \in Steps(s) : Pair(r) # Pair(step)
        /\ ~ Retried(t, step) => s = w
        /\ Retried(t, step) => Steps(s) = {Again(step)} \cup Steps(w)
    BY GoesAgain DEF Goes
  <1>6. Steps(w) \subseteq Steps(todo[t]) /\ (Head(todo[t]) = {step} => w = Tail(todo[t]))
    BY GoesOn
  <1> HIDE DEF s, w
  <1>7. Pair(Again(step)) = <<step.of, "groupVideo">> /\ ~ Again(step).must /\ Again(step).ask = "groupVideo"
    BY DEF Again, Of, Pair
  <1>8. Retried(t, step) => Pair(step) = <<step.of, "video">> /\ t \in Pushes
    BY <1>2 DEF Retried
  <1>9. Stage(t)'
    BY <1>1, <1>5 DEF Stage
  <1>10. Covered(t)'
    <2>1. Running(t)
      BY <1>1 DEF Running
    <2>2. ASSUME NEW r \in Steps(Program(t))
          PROVE  r \in Steps(s) \/ Pair(r) \in known[t] \/ (~ r.must /\ Pair(r) \in failed'[t])
      <3>1. r \in Steps(todo[t]) \/ Pair(r) \in known[t] \/ (~ r.must /\ Pair(r) \in failed[t])
        BY <1>3, <2>1 DEF TaskInv, Covered
      <3>2. QED
        BY <1>1, <1>5, <3>1
    <2>3. QED
      BY <1>1, <1>4, <2>2 DEF Covered
  <1>11. Once(t)'
    <2>1. Once(t) /\ SecondTry(t)
      BY <1>3 DEF TaskInv
    <2>2. ASSUME NEW r \in Steps(s) PROVE Pair(r) \notin known[t] \cup failed[t] /\ r.ask # "send"
      <3>1. CASE r \in Steps(w)
        BY <1>6, <2>1, <3>1 DEF Once
      <3>2. CASE r \notin Steps(w)
        <4>1. Retried(t, step) /\ r = Again(step)
          BY <1>5, <2>2, <3>2
        <4>2. step.of \in Nat \cup Names
          BY <1>2 DEF Requested
        <4>3. <<step.of, "video">> \notin failed[t]
          BY <1>2, <1>8, <4>1
        <4>4. <<step.of, "groupVideo">> \notin known[t] \cup failed[t]
          BY <2>1, <4>2, <4>3 DEF SecondTry
        <4>5. QED
          BY <1>7, <4>1, <4>4
      <3>3. QED
        BY <3>1, <3>2
    <2>3. QED
      BY <1>1, <1>2, <1>5, <2>1, <2>2 DEF Once
  <1>12. SecondTry(t)'
    <2>1. ASSUME NEW i \in Nat \cup Names, OutFor(t, i, "groupVideo")'
          PROVE  OutFor(t, i, "groupVideo") \/ <<i, "video">> = Pair(step)
      <3>1. PICK r \in Steps(s) : Pair(r) = <<i, "groupVideo">>
        BY <1>1, <2>1 DEF OutFor
      <3>2. CASE r \in Steps(w)
        BY <1>6, <3>1, <3>2 DEF OutFor
      <3>3. CASE r \notin Steps(w)
        <4>1. Retried(t, step) /\ r = Again(step)
          BY <1>5, <3>3
        <4>2. i = step.of
          BY <1>7, <3>1, <4>1
        <4>3. QED
          BY <1>8, <4>1, <4>2
      <3>4. QED
        BY <3>2, <3>3
    <2>2. \A i \in Nat \cup Names : <<i, "groupVideo">> = Pair(step) => OutFor(t, i, "groupVideo")
      BY <1>2 DEF OutFor
    <2>3. QED
      BY <1>1, <1>3, <2>1, <2>2 DEF TaskInv, SecondTry
  <1>13. ASSUME t \in Pushes PROVE PushInv(t)'
    <2>1. PushInv(t)
      BY <1>3, <1>13 DEF TaskInv
    <2>2. PushStage(t)'
      BY <1>1, <1>4, <2>1 DEF PushInv, PushStage
    <2>3. Fallback(t)'
      <3>1. SUFFICES ASSUME Push(t).grouped, NEW i \in Nat, <<i, "video">> \in failed'[t]
                     PROVE  OutFor(t, i, "groupVideo")' \/ <<i, "groupVideo">> \in known'[t] \cup failed'[t]
        BY <1>4 DEF Fallback
      <3>2. CASE <<i, "video">> \in failed[t]
        <4>1. OutFor(t, i, "groupVideo") \/ <<i, "groupVideo">> \in known[t] \cup failed[t]
          BY <1>1, <2>1, <3>1, <3>2 DEF PushInv, Fallback
        <4>2. OutFor(t, i, "groupVideo") => OutFor(t, i, "groupVideo")' \/ <<i, "groupVideo">> = Pair(step)
          BY <1>1, <1>5 DEF OutFor
        <4>3. QED
          BY <1>1, <4>1, <4>2
      <3>3. CASE <<i, "video">> = Pair(step)
        <4>1. step.of = i /\ step.ask = "video"
          BY <1>2, <3>3
        <4>2. Retried(t, step)
          BY <1>13, <3>1, <4>1 DEF Retried
        <4>3. Again(step) \in Steps(s) /\ Pair(Again(step)) = <<i, "groupVideo">>
          BY <1>5, <1>7, <4>1, <4>2
        <4>4. QED
          BY <1>1, <4>3 DEF OutFor
      <3>4. QED
        BY <1>1, <3>1, <3>2, <3>3
    <2>4. MustOnly(t)'
      <3>1. \A r \in Steps(s) : r.must => r \in Steps(todo[t])
        BY <1>5, <1>6, <1>7
      <3>2. QED
        BY <1>1, <1>4, <2>1, <3>1 DEF PushInv, MustOnly
    <2>5. Told(t)'
      BY <1>1 DEF Told, Settled
    <2>6. QED
      BY <2>2, <2>3, <2>4, <2>5 DEF PushInv
  <1>14. ASSUME t \in Messages PROVE MessageInv(t)'
    <2>1. MessageInv(t) /\ t \notin Pushes
      BY <1>3, <1>14, MessagingAssumption DEF TaskInv
    <2>2. MessageStage(t)'
      BY <1>1, <2>1 DEF MessageInv, MessageStage
    <2>3. peers'[t] \subseteq peers[t] \cup {uid[t]} /\ (step.ask # "announce" => peers' = peers)
      BY <1>14, AnnounceShape DEF Failed
    <2>4. s = w
      BY <1>5, <1>8, <2>1
    <2>5. ASSUME Unasked(t) PROVE Asked(t)'
      <3>1. Head(todo[t]) = {FriendStep} /\ step = FriendStep
        BY <2>5 DEF Unasked, Out
      <3>2. s = Tail(todo[t]) /\ step.ask = "friend"
        BY <1>6, <2>4, <3>1 DEF FriendStep
      <3>3. uid'[t] = "" /\ Pair(FriendStep) \notin known'[t] /\ peers'[t] = {}
        BY <1>1, <2>3, <2>5, <3>1, <3>2 DEF Unasked
      <3>4. QED
        BY <1>1, <2>5, <3>2, <3>3 DEF Unasked, Asked
    <2>6. ASSUME Asked(t) PROVE Asked(t)'
      <3>1. peers'[t] \subseteq {uid[t]}
        BY <2>3, <2>6 DEF Asked
      <3>2. QED
        BY <1>1, <1>6, <2>4, <2>6, <3>1 DEF Asked
    <2>7. packet[t] = NotPosted
      BY <1>1, <2>1 DEF MessageInv, MessageStage
    <2>8. FriendFirst(t)'
      BY <1>1, <1>4, <2>1, <2>5, <2>6, <2>7 DEF MessageInv, FriendFirst
    <2>9. QED
      BY <2>2, <2>8 DEF MessageInv
  <1>15. QED
    BY <1>9, <1>10, <1>11, <1>12, <1>13, <1>14 DEF TaskInv

LEMMA FailedInv ==
    ASSUME Inv, NEW t \in Tasks, NEW step \in Out(t), Failed(t, step)
    PROVE  Inv'
  <1>1. TaskInv(t)'
    BY FailedMust, FailedTry
  <1>2. Shape' /\ SentPushes' = SentPushes /\ given' = given /\ \A u \in Tasks : u # t => Untouched(u)
    BY FailedTask
  <1>3. Watched'
    BY <1>2, WatchUntouched DEF Failed, Inv
  <1>4. QED
    BY <1>1, <1>2, <1>3, OneTask

LEMMA SendTask ==
    ASSUME Inv, NEW p \in Pushes, Send(p)
    PROVE  /\ TaskInv(p)' /\ Shape' /\ \A u \in Tasks : u # p => Untouched(u)
           /\ pc[p] = "run" /\ p \in DOMAIN given.pushes /\ Delivers(p) /\ given' = given
           /\ pc' = [pc EXCEPT ![p] = IF Lists(p) THEN "sent" ELSE "dropped"]
  <1> DEFINE x == IF Lists(p) THEN "sent" ELSE "dropped"
  <1>1. /\ pc[p] = "run" /\ todo[p] = <<>> /\ p \in Tasks /\ p \notin Messages
        /\ UNCHANGED <<given, todo, known, uid, packet, name, failed, peers>>
        /\ pc' = [pc EXCEPT ![p] = x]
    BY MessagingAssumption DEF Send, Tasks
  <1>2. Shape /\ TaskInv(p) /\ PushInv(p)
    BY <1>1 DEF Inv, TaskInv
  <1>3. pc'[p] = x /\ x \in {"sent", "dropped"}
    BY <1>1, <1>2 DEF Shape
  <1>4. x = "dropped" => Parse(Push(p)) = Notice("joinRequest") /\ ~ Push(p).listed
    BY DEF Lists
  <1> HIDE DEF x
  <1>5. Program(p)' = Program(p) /\ Push(p)' = Push(p) /\ (Delivers(p)' <=> Delivers(p))
    BY <1>1, SameGiven
  <1>6. Stage(p)'
    BY <1>1, <1>2, <1>3 DEF TaskInv, Stage
  <1>7. Covered(p)'
    BY <1>1, <1>2, <1>3, <1>5 DEF TaskInv, Covered, Running
  <1>8. Once(p)' /\ SecondTry(p)'
    BY <1>1, <1>2 DEF TaskInv, Once, SecondTry, OutFor
  <1>9. PushStage(p)'
    BY <1>1, <1>2, <1>3, <1>5 DEF PushInv, PushStage
  <1>10. Fallback(p)' /\ MustOnly(p)'
    BY <1>1, <1>2, <1>3, <1>5 DEF PushInv, Fallback, MustOnly, OutFor
  <1>11. Told(p)'
    BY <1>1, <1>3, <1>4, <1>5 DEF Told
  <1>12. TaskInv(p)'
    BY <1>1, <1>6, <1>7, <1>8, <1>9, <1>10, <1>11 DEF TaskInv, PushInv
  <1>13. Shape'
    <2>1. x \in {"idle", "run", "posted"} \cup Settled
      BY <1>3 DEF Settled
    <2>2. QED
      BY <1>1, <1>2, <2>1 DEF Shape
  <1>14. \A u \in Tasks : u # p => Untouched(u)
    BY <1>1, <1>2 DEF Untouched, Shape
  <1>15. QED
    BY <1>1, <1>2, <1>12, <1>13, <1>14 DEF PushInv, PushStage, x

(* The channels after an event has been sent.                               *)
LEMMA SendWatched ==
    ASSUME Inv, NEW p \in Pushes, Send(p)
    PROVE  Watched'
  <1>1. /\ pc[p] = "run" /\ p \in DOMAIN given.pushes /\ Delivers(p) /\ given' = given /\ p \in Tasks
        /\ pc' = [pc EXCEPT ![p] = IF Lists(p) THEN "sent" ELSE "dropped"]
    BY SendTask DEF Tasks
  <1>2. Shape /\ Watched
    BY DEF Inv
  <1>3. UNCHANGED <<mark, listener, reads>>
    BY DEF Send
  <1>4. CASE ~ Lists(p)
    <2>1. pc' = [pc EXCEPT ![p] = "dropped"] /\ UNCHANGED <<chan, sentAs>>
      BY <1>4 DEF Send
    <2>2. SentPushes' = SentPushes
      BY <1>1, <1>2, <2>1, SentSame
    <2>3. QED
      BY <1>1, <1>2, <1>3, <2>1, <2>2, WatchUntouched
  <1>5. CASE Lists(p)
    <2> DEFINE c == Target(p)
               v == chan[c].version + 1
               n == Cardinality(SentPushes)
    <2>1. /\ pc' = [pc EXCEPT ![p] = "sent"]
          /\ chan' = [chan EXCEPT ![c] = [by |-> p, version |-> v]]
          /\ sentAs' = [sentAs EXCEPT ![p] = v]
      BY <1>5 DEF Send, Replace
    <2>2. c \in Channels
      <3>1. Push(p) \in Packets
        BY <1>1, <1>2, GivenShape
      <3>2. QED
        BY <1>1, <3>1, ChannelKnown
    <2>3. SentPushes' = SentPushes \cup {p} /\ p \notin SentPushes
      <3>1. \A u \in Pushes : pc'[u] = IF u = p THEN "sent" ELSE pc[u]
        BY <1>2, <2>1 DEF Shape, Tasks
      <3>2. QED
        BY <1>1, <3>1 DEF SentPushes
    <2>4. n \in Nat /\ Cardinality(SentPushes') = n + 1
      <3>1. IsFiniteSet(SentPushes)
        BY MessagingAssumption, FS_Subset DEF SentPushes
      <3>2. QED
        BY <2>3, <3>1, FS_AddElement, FS_CardinalityType
    <2>5. WatchShape /\ (\A d \in Channels : Channel(d)) /\ \A u \in Pushes : Counted(u)
      BY <1>2 DEF Watched
    <2>6. chan[c].version \in Nat /\ v \in Nat /\ v <= n + 1 /\ mark[c] \in Nat /\ mark[c] < v
      BY <2>2, <2>4, <2>5 DEF WatchShape, Channel
    <2>7. \A u : Target(u)' = Target(u)
      BY <1>1, SameGiven
    <2>8. Target(p) = c
      OBVIOUS
    <2>9. reads[p] = 0
      BY <2>3, <2>5 DEF Counted
    <2> HIDE DEF c, v, n
    <2>10. WatchShape'
      BY <1>3, <2>1, <2>5, <2>6 DEF WatchShape
    <2>11. ASSUME NEW d \in Channels PROVE Channel(d)'
      <3>1. Channel(d) /\ Cardinality(SentPushes') = n + 1 /\ Cardinality(SentPushes) = n
        BY <2>4, <2>5 DEF n
      <3>2. CASE d = c
        <4>1. chan'[d] = [by |-> p, version |-> v]
          BY <2>1, <2>5, <3>2 DEF WatchShape
        <4>2. chan'[d].by = p /\ chan'[d].version = v
          BY <4>1
        <4>3. MostReads(d)' \in {0, 1}
          BY <1>3, <2>6, <3>2, <4>2 DEF MostReads
        <4>4. p \in SentPushes' /\ Target(p)' = d /\ reads'[p] = 0
          BY <1>3, <2>3, <2>7, <2>8, <2>9, <3>2
        <4>5. mark'[d] <= v /\ (listener' = d => mark'[d] > 0)
          BY <1>3, <2>6, <3>1, <3>2 DEF Channel
        <4>6. reads'[chan'[d].by] <= MostReads(d)' /\ Target(chan[d].by)' = d
          <5>1. reads'[chan'[d].by] = 0
            BY <4>2, <4>4
          <5>2. Target(chan[d].by)' = d
            BY <4>2, <4>4 DEF Target, Push
          <5>3. QED
            BY <4>3, <5>1, <5>2
        <4>7. QED
          BY <2>6, <3>1, <4>2, <4>4, <4>5, <4>6 DEF Channel
      <3>3. CASE d # c
        <4>1. chan'[d] = chan[d]
          BY <2>1, <2>5, <3>3 DEF WatchShape
        <4>2. MostReads(d)' = MostReads(d)
          BY <1>3, <4>1 DEF MostReads
        <4>3. chan[d].version \in Nat
          BY <2>5 DEF WatchShape
        <4>4. Target(chan[d].by)' = Target(chan[d].by)
          BY <2>7, <4>1
        <4>5. QED
          BY <1>3, <2>3, <2>4, <3>1, <4>1, <4>2, <4>3, <4>4 DEF Channel
      <3>4. QED
        BY <3>2, <3>3
    <2>12. ASSUME NEW u \in Pushes PROVE Counted(u)'
      <3>1. Cardinality(SentPushes') = n + 1 /\ Cardinality(SentPushes) = n /\ n \in Nat
        BY <2>4 DEF n
      <3>2. Counted(u) /\ sentAs[u] \in Nat
        BY <2>5 DEF WatchShape
      <3>3. sentAs'[u] = IF u = p THEN v ELSE sentAs[u]
        BY <2>1, <2>5 DEF WatchShape
      <3>4. QED
        BY <1>3, <2>3, <2>6, <3>1, <3>2, <3>3 DEF Counted
    <2>13. QED
      BY <2>10, <2>11, <2>12 DEF Watched
  <1>6. QED
    BY <1>4, <1>5

LEMMA SendInv ==
    ASSUME Inv, NEW p \in Pushes, Send(p)
    PROVE  Inv'
  <1>1. p \in Tasks /\ TaskInv(p)' /\ Shape' /\ \A u \in Tasks : u # p => Untouched(u)
    BY SendTask DEF Tasks
  <1>2. QED
    BY <1>1, SendWatched, OneTask

LEMMA PostInv ==
    ASSUME Inv, NEW m \in Messages, Post(m)
    PROVE  Inv'
  <1>1. /\ pc[m] = "run" /\ todo[m] = <<>> /\ m \in Tasks /\ m \notin Pushes
        /\ pc' = [pc EXCEPT ![m] = "posted"] /\ packet' = [packet EXCEPT ![m] = PacketPeer(m)]
        /\ UNCHANGED <<given, todo, known, uid, name, chan, listener, mark, failed, peers, sentAs, reads>>
    BY MessagingAssumption DEF Post, Tasks, history
  <1>2. Shape /\ TaskInv(m) /\ MessageInv(m) /\ Watched
    BY <1>1 DEF Inv, TaskInv
  <1>3. PacketPeer(m) = IF Pair(FriendStep) \in known[m] THEN "peer" ELSE ""
    BY DEF PacketPeer, Pair, FriendStep
  <1>4. pc'[m] = "posted" /\ packet'[m] = PacketPeer(m)
    BY <1>1, <1>2 DEF Shape
  <1>5. Program(m)' = Program(m) /\ Message(m)' = Message(m)
    BY <1>1, SameGiven
  <1>6. Stage(m)'
    BY <1>1, <1>2, <1>4 DEF TaskInv, Stage
  <1>7. Covered(m)'
    BY <1>1, <1>2, <1>5 DEF TaskInv, Covered, Running
  <1>8. Once(m)' /\ SecondTry(m)'
    BY <1>1, <1>2 DEF TaskInv, Once, SecondTry, OutFor
  <1>9. MessageStage(m)'
    BY <1>1, <1>2, <1>4 DEF MessageInv, MessageStage
  <1>10. FriendFirst(m)'
    <2>1. ~ Unasked(m)
      BY <1>1 DEF Unasked
    <2>2. Asked(m) => Asked(m)' /\ packet'[m] = uid'[m]
      BY <1>1, <1>3, <1>4 DEF Asked
    <2>3. QED
      BY <1>1, <1>2, <1>5, <2>1, <2>2 DEF MessageInv, FriendFirst
  <1>11. TaskInv(m)'
    BY <1>1, <1>6, <1>7, <1>8, <1>9, <1>10 DEF TaskInv, MessageInv
  <1>12. Shape'
    <2>1. PacketPeer(m) \in {NotPosted, "", "peer"}
      BY <1>3
    <2>2. QED
      BY <1>1, <1>2, <2>1 DEF Shape
  <1>13. \A u \in Tasks : u # m => Untouched(u)
    BY <1>1, <1>2 DEF Untouched, Shape
  <1>14. Watched'
    <2>1. SentPushes' = SentPushes
      BY <1>1, <1>2, SentSame
    <2>2. QED
      BY <1>1, <1>2, <2>1, WatchUntouched
  <1>15. QED
    BY <1>1, <1>11, <1>12, <1>13, <1>14, OneTask

LEMMA ReplyInv ==
    ASSUME Inv, NEW m \in Messages, Reply(m)
    PROVE  Inv'
  <1>1. PICK x \in {"ok", "err"} :
           /\ pc' = [pc EXCEPT ![m] = x]
           /\ failed' = IF x = "ok" THEN failed ELSE [failed EXCEPT ![m] = @ \cup {<<Itself, "send">>}]
    BY DEF Reply
  <1>2. /\ pc[m] = "posted" /\ m \in Tasks /\ m \notin Pushes
        /\ UNCHANGED <<given, todo, known, uid, packet, name, chan, listener, mark, peers, sentAs, reads>>
    BY MessagingAssumption DEF Reply, Tasks
  <1>3. Shape /\ TaskInv(m) /\ MessageInv(m) /\ Watched
    BY <1>2 DEF Inv, TaskInv
  <1>4. pc'[m] = x /\ failed'[m] = failed[m] \cup (IF x = "ok" THEN {} ELSE {<<Itself, "send">>})
    BY <1>1, <1>2, <1>3 DEF Shape
  <1>5. Program(m)' = Program(m) /\ Message(m)' = Message(m)
    BY <1>2, SameGiven
  <1>6. Stage(m)'
    BY <1>2, <1>3, <1>4 DEF TaskInv, Stage
  <1>7. Covered(m)'
    BY <1>2, <1>3, <1>4, <1>5 DEF TaskInv, Covered, Running
  <1>8. todo[m] = <<>> /\ Steps(<<>>) = {}
    BY <1>2, <1>3, StepsShort DEF TaskInv, Stage
  <1>9. Once(m)'
    BY <1>2, <1>3, <1>4, <1>8 DEF TaskInv, Once
  <1>10. SecondTry(m)'
    BY <1>2, <1>3, <1>4 DEF TaskInv, SecondTry, OutFor
  <1>11. MessageStage(m)'
    BY <1>2, <1>3, <1>4 DEF MessageInv, MessageStage
  <1>12. FriendFirst(m)'
    BY <1>2, <1>3, <1>5 DEF MessageInv, FriendFirst, Unasked, Asked
  <1>13. TaskInv(m)'
    BY <1>2, <1>6, <1>7, <1>9, <1>10, <1>11, <1>12 DEF TaskInv, MessageInv
  <1>14. Shape'
    <2>1. x \in {"idle", "run", "posted"} \cup Settled /\ <<Itself, "send">> \in Pairs
      BY DEF Settled, Pairs, Itself
    <2>2. QED
      BY <1>1, <1>2, <1>3, <2>1 DEF Shape
  <1>15. \A u \in Tasks : u # m => Untouched(u)
    BY <1>1, <1>2, <1>3 DEF Untouched, Shape
  <1>16. Watched'
    <2>1. SentPushes' = SentPushes
      BY <1>1, <1>2, <1>3, SentSame
    <2>2. QED
      BY <1>2, <1>3, <2>1, WatchUntouched
  <1>17. QED
    BY <1>2, <1>13, <1>14, <1>15, <1>16, OneTask

LEMMA WakeInv ==
    ASSUME Inv, NEW c \in Channels, Wake(c)
    PROVE  Inv'
  <1>1. /\ listener = Nobody /\ mark[c] # chan[c].version
        /\ listener' = c /\ mark' = [mark EXCEPT ![c] = chan[c].version]
        /\ UNCHANGED <<given, pc, todo, known, uid, packet, name, chan, failed, peers, sentAs, reads>>
    BY DEF Wake, Marked, tasks, history
  <1>2. Shape /\ WatchShape /\ (\A d \in Channels : Channel(d)) /\ (\A u \in Pushes : Counted(u))
    BY DEF Inv, Watched
  <1>3. Shape'
    BY <1>1, <1>2 DEF Shape
  <1>4. \A u \in Tasks : TaskInv(u)'
    BY <1>1, UntouchedHolds DEF Inv, Untouched
  <1>5. SentPushes' = SentPushes /\ \A u : Target(u)' = Target(u)
    BY <1>1, SameGiven DEF SentPushes
  <1>6. WatchShape'
    BY <1>1, <1>2 DEF WatchShape
  <1>7. \A u \in Pushes : Counted(u)'
    BY <1>1, <1>2, <1>5 DEF Counted
  <1>8. ASSUME NEW d \in Channels PROVE Channel(d)'
    <2>1. d # Nobody /\ chan[d].version \in Nat /\ mark[d] \in Nat
      BY <1>2 DEF Channels, Nobody, WatchShape
    <2>2. Channel(d)
      BY <1>2
    <2>3. mark'[d] = IF d = c THEN chan[d].version ELSE mark[d]
      BY <1>1, <1>2 DEF WatchShape
    <2>4. Target(chan[d].by)' = Target(chan[d].by)
      BY <1>1, <1>5
    <2>5. MostReads(d)' = MostReads(d)
      BY <1>1, <2>1, <2>2, <2>3 DEF MostReads, Channel
    <2>6. mark'[d] <= chan[d].version /\ (listener' = d => mark'[d] > 0)
      BY <1>1, <2>1, <2>2, <2>3 DEF Channel
    <2>7. QED
      BY <1>1, <1>5, <2>2, <2>4, <2>5, <2>6 DEF Channel
  <1>9. QED
    BY <1>3, <1>4, <1>6, <1>7, <1>8 DEF Inv, Watched

LEMMA LookInv ==
    ASSUME Inv, Look
    PROVE  Inv'
  <1>a. PICK c \in Channels : c = listener
    BY DEF Look
  <1>b. PICK p : p = chan[c].by
    OBVIOUS
  <1>1. /\ listener' \in {Nobody, Answering}
        /\ reads' = [reads EXCEPT ![p] = @ + 1]
        /\ UNCHANGED <<given, pc, todo, known, uid, packet, name, chan, mark, failed, peers, sentAs>>
    BY <1>a, <1>b DEF Look, tasks
  <1>2. Shape /\ WatchShape /\ (\A d \in Channels : Channel(d)) /\ (\A u \in Pushes : Counted(u))
    BY DEF Inv, Watched
  <1>3. Shape'
    BY <1>1, <1>2 DEF Shape
  <1>4. \A u \in Tasks : TaskInv(u)'
    BY <1>1, UntouchedHolds DEF Inv, Untouched
  <1>5. SentPushes' = SentPushes /\ \A u : Target(u)' = Target(u)
    BY <1>1, SameGiven DEF SentPushes
  <1>6. c \in Channels /\ listener = c /\ listener' \notin Channels
    BY <1>a, <1>1 DEF Channels, Nobody, Answering
  <1>7. p \in SentPushes /\ Target(p) = c /\ reads[p] <= MostReads(c) /\ p \in Pushes
    <2>1. Channel(c) /\ chan[c].version \in Nat /\ mark[c] \in Nat
      BY <1>2, <1>6 DEF WatchShape
    <2>2. chan[c].version > 0
      BY <1>6, <2>1 DEF Channel
    <2>3. QED
      BY <1>b, <2>1, <2>2 DEF Channel, SentPushes
  <1>8. chan[c].by = p
    BY <1>b
  <1>9. \A u \in Pushes : reads[u] \in Nat /\ reads'[u] = IF u = p THEN reads[u] + 1 ELSE reads[u]
    BY <1>1, <1>2 DEF WatchShape
  <1>10. WatchShape'
    BY <1>1, <1>2, <1>7 DEF WatchShape
  <1>11. MostReads(c) \in {0, 1} /\ MostReads(c)' = MostReads(c) + 1
    BY <1>1, <1>6 DEF MostReads
  <1>12. ASSUME NEW u \in Pushes PROVE Counted(u)'
    BY <1>1, <1>2, <1>5, <1>7, <1>9, <1>11 DEF Counted
  <1>13. ASSUME NEW d \in Channels PROVE Channel(d)'
    <2>1. listener' # d /\ Channel(d)
      BY <1>2, <1>6
    <2>2. Target(chan[d].by)' = Target(chan[d].by)
      BY <1>1, <1>5
    <2>3. mark'[d] <= chan'[d].version /\ chan'[d].version <= Cardinality(SentPushes') /\ listener' # d
      BY <1>1, <1>5, <2>1 DEF Channel
    <2>4. ASSUME chan[d].version > 0 PROVE reads'[chan[d].by] <= MostReads(d)'
      <3>1. chan[d].by \in SentPushes /\ Target(chan[d].by) = d /\ reads[chan[d].by] <= MostReads(d)
        BY <2>1, <2>4 DEF Channel
      <3>2. chan[d].by \in Pushes
        BY <3>1 DEF SentPushes
      <3>3. CASE d = c
        BY <1>7, <1>8, <1>9, <1>11, <3>3
      <3>4. CASE d # c
        <4>1. chan[d].by # p
          BY <1>7, <3>1, <3>4
        <4>2. MostReads(d)' = MostReads(d)
          BY <1>1, <1>6, <2>1, <3>4 DEF MostReads
        <4>3. QED
          BY <1>9, <3>1, <3>2, <4>1, <4>2
      <3>5. QED
        BY <3>3, <3>4
    <2>5. QED
      BY <1>1, <1>5, <2>1, <2>2, <2>3, <2>4 DEF Channel
  <1>14. QED
    BY <1>3, <1>4, <1>10, <1>12, <1>13 DEF Inv, Watched

(* The listener's own answer touches no channel.                            *)
LEMMA PongInv ==
    ASSUME Inv, Pong
    PROVE  Inv'
  <1>1. /\ listener \notin Channels /\ listener' \in {Nobody, Dead} /\ listener' \notin Channels
        /\ UNCHANGED <<given, pc, todo, known, uid, packet, name, chan, mark, failed, peers, sentAs, reads>>
    BY DEF Pong, tasks, history, Channels, Nobody, Answering, Dead
  <1>2. Shape /\ WatchShape /\ (\A d \in Channels : Channel(d)) /\ (\A u \in Pushes : Counted(u))
    BY DEF Inv, Watched
  <1>3. Shape'
    BY <1>1, <1>2 DEF Shape
  <1>4. \A u \in Tasks : TaskInv(u)'
    BY <1>1, UntouchedHolds DEF Inv, Untouched
  <1>5. SentPushes' = SentPushes /\ \A u : Target(u)' = Target(u)
    BY <1>1, SameGiven DEF SentPushes
  <1>6. WatchShape' /\ \A u \in Pushes : Counted(u)'
    BY <1>1, <1>2, <1>5 DEF WatchShape, Counted
  <1>7. ASSUME NEW d \in Channels PROVE Channel(d)'
    <2>1. listener # d /\ listener' # d /\ Channel(d)
      BY <1>1, <1>2
    <2>2. MostReads(d)' = MostReads(d)
      BY <1>1, <2>1 DEF MostReads
    <2>3. Target(chan[d].by)' = Target(chan[d].by)
      BY <1>1, <1>5
    <2>4. QED
      BY <1>1, <1>5, <2>1, <2>2, <2>3 DEF Channel
  <1>8. QED
    BY <1>3, <1>4, <1>6, <1>7 DEF Inv, Watched

LEMMA InitInv == Init => Inv
  <1> SUFFICES ASSUME Init PROVE Inv
    OBVIOUS
  <1>0. Items(<<>>) = {} /\ Steps(<<>>) = {} /\ Distinct(<<>>)
    BY ItemsShort, StepsShort, DistinctShort
  <1>1. Shape
    <2>1. <<>> \in Seq(SUBSET Requested)
      OBVIOUS
    <2>2. todo \in [Tasks -> Seq(SUBSET Requested)]
      BY <2>1 DEF Init
    <2>3. /\ pc \in [Tasks -> {"idle", "run", "posted"} \cup Settled]
          /\ known \in [Tasks -> SUBSET Pairs] /\ failed \in [Tasks -> SUBSET Pairs]
          /\ uid \in [Tasks -> {"", "peer"}]
      BY DEF Init
    <2>4. /\ packet \in [Messages -> {NotPosted, "", "peer"}]
          /\ peers \in [Messages -> SUBSET {"", "peer"}]
          /\ name \in Pushes \cup {Nobody} /\ given \in Workloads
      BY DEF Init
    <2>5. QED
      BY <2>2, <2>3, <2>4 DEF Shape
  <1>2. ASSUME NEW t \in Tasks PROVE TaskInv(t)
    <2>1. pc[t] = "idle" /\ todo[t] = <<>> /\ known[t] = {} /\ failed[t] = {} /\ uid[t] = ""
          /\ (t \in Messages => packet[t] = NotPosted /\ peers[t] = {})
      BY DEF Init
    <2>2. Stage(t) /\ Covered(t)
      BY <1>0, <2>1 DEF Stage, Covered, Running
    <2>3. Once(t) /\ SecondTry(t)
      BY <1>0, <2>1 DEF Once, SecondTry, OutFor
    <2>4. t \in Pushes => PushInv(t)
      BY <1>0, <2>1 DEF PushInv, PushStage, Fallback, MustOnly, Told, Settled
    <2>5. t \in Messages => MessageInv(t)
      BY <2>1 DEF MessageInv, MessageStage, FriendFirst
    <2>6. QED
      BY <2>2, <2>3, <2>4, <2>5 DEF TaskInv
  <1>3. Watched
    <2>1. WatchShape
      BY DEF Init, WatchShape, NoEvent
    <2>2. Cardinality(SentPushes) \in Nat
      BY MessagingAssumption, FS_Subset, FS_CardinalityType DEF SentPushes
    <2>3. ASSUME NEW c \in Channels PROVE Channel(c)
      <3>1. mark[c] = 0 /\ chan[c].version = 0 /\ listener = Nobody /\ c # Nobody
        BY DEF Init, NoEvent, Channels, Nobody
      <3>2. QED
        BY <2>2, <3>1 DEF Channel
    <2>4. ASSUME NEW p \in Pushes PROVE Counted(p)
      <3>1. sentAs[p] = 0 /\ reads[p] = 0
        BY DEF Init
      <3>2. QED
        BY <2>2, <3>1 DEF Counted
    <2>5. QED
      BY <2>1, <2>3, <2>4 DEF Watched
  <1>4. QED
    BY <1>1, <1>2, <1>3 DEF Inv

LEMMA NextInv == Inv /\ [Next]_vars => Inv'
  <1> SUFFICES ASSUME Inv, [Next]_vars PROVE Inv'
    OBVIOUS
  <1>1. ASSUME NEW p \in Pushes, Receive(p) \/ Send(p) PROVE Inv'
    BY <1>1, ReceiveInv, SendInv
  <1>2. ASSUME NEW m \in Messages, Compose(m) \/ Post(m) \/ Reply(m) PROVE Inv'
    BY <1>2, ComposeInv, PostInv, ReplyInv
  <1>3. ASSUME NEW t \in Tasks, Requests(t) PROVE Inv'
    <2>1. PICK step \in Out(t) : Answered(t, step) \/ Failed(t, step)
      BY <1>3, Zenon DEF Requests
    <2>2. QED
      BY <2>1, AnsweredInv, FailedInv
  <1>4. ASSUME NEW c \in Channels, Wake(c) PROVE Inv'
    BY <1>4, WakeInv
  <1>5. ASSUME Look PROVE Inv'
    BY <1>5, LookInv
  <1>6. ASSUME Pong PROVE Inv'
    BY <1>6, PongInv
  <1>7. CASE UNCHANGED vars
    <2>1. UNCHANGED <<given, pc, todo, known, uid, packet, name, chan, listener, mark, failed, peers, sentAs, reads>>
      BY <1>7 DEF vars, tasks, history
    <2>2. Shape'
      BY <2>1 DEF Inv, Shape
    <2>3. \A t \in Tasks : TaskInv(t)'
      BY <2>1, UntouchedHolds DEF Inv, Untouched
    <2>4. SentPushes' = SentPushes
      BY <2>1 DEF SentPushes
    <2>5. Watched'
      BY <2>1, <2>4, WatchUntouched DEF Inv
    <2>6. QED
      BY <2>2, <2>3, <2>5 DEF Inv
  <1>8. QED
    BY <1>1, <1>2, <1>3, <1>4, <1>5, <1>6, <1>7 DEF Next

(* In every behaviour, whatever is answered, fails, or is read in           *)
(* whatever order: what a task has asked, lost and still to ask make up     *)
(* its program, no request is made twice, and the channels keep their       *)
(* counts. The strengthening from which the theorems below follow.          *)
THEOREM Invariant == Spec => []Inv
  BY InitInv, NextInv, PTL DEF Spec

LEMMA TypeFollows == Inv => TypeOK
  <1> SUFFICES ASSUME Inv PROVE TypeOK
    OBVIOUS
  <1>1. Shape /\ WatchShape /\ (\A c \in Channels : Channel(c)) /\ \A p \in Pushes : Counted(p)
    BY DEF Inv, Watched
  <1>2. \A t \in Tasks : \A i \in 1 .. Len(todo[t]) : todo[t][i] # {}
    BY DEF Inv, TaskInv, Stage, Items
  <1>3. \A t \in Tasks : known[t] \cap failed[t] = {}
    BY DEF Inv, TaskInv, Once
  <1>4. Cardinality(SentPushes) <= Cardinality(Pushes) /\ Cardinality(SentPushes) \in Nat /\ Cardinality(Pushes) \in Nat
    <2>1. IsFiniteSet(SentPushes) /\ Cardinality(SentPushes) <= Cardinality(Pushes) /\ IsFiniteSet(Pushes)
      BY MessagingAssumption, FS_Subset DEF SentPushes
    <2>2. QED
      BY <2>1, FS_CardinalityType
  <1>5. sentAs \in [Pushes -> 0 .. Cardinality(Pushes)]
    BY <1>1, <1>4 DEF WatchShape, Counted
  <1>6. reads \in [Pushes -> 0 .. 2]
    <2>1. reads \in [Pushes -> Nat] /\ \A p \in Pushes : reads[p] <= 2
      BY <1>1 DEF WatchShape, Counted
    <2>2. QED
      BY <2>1
  <1>7. \A c \in Channels : chan[c].by \in Pushes \cup {Nobody} /\ mark[c] <= chan[c].version
    BY <1>1 DEF WatchShape, Channel
  <1>8. listener \in Channels \cup {Nobody, Answering, Dead}
    BY <1>1 DEF WatchShape
  <1>9. QED
    BY <1>1, <1>2, <1>3, <1>5, <1>6, <1>7, <1>8 DEF TypeOK, Shape

(* Every reachable state of Messaging is well typed: among others, a        *)
(* request never both succeeds and fails, no stage of a program is          *)
(* empty, and the listener of the example handles an event twice at         *)
(* most.                                                                    *)
THEOREM TypeCorrect == Spec => []TypeOK
  BY Invariant, TypeFollows, PTL

LEMMA ToldFollows == Inv => NoticeNotLost
  BY DEF Inv, TaskInv, PushInv, Told, NoticeNotLost, Tasks

(* A packet that messaging_logic can parse ends with its event sent,        *)
(* whatever lookups failed; only a request to join is dropped, and only     *)
(* for one of its own two reasons.                                          *)
THEOREM NoticeNotLostAlways == Spec => []NoticeNotLost
  BY Invariant, ToldFollows, PTL

(* Once its task has ended, no request of a program is still out.           *)
LEMMA AllAsked ==
    ASSUME Inv, NEW t \in Tasks, pc[t] = "sent" \/ (t \in Messages /\ packet[t] # NotPosted)
    PROVE  /\ \A r \in Steps(Program(t)) : Pair(r) \in known[t] \/ (~ r.must /\ Pair(r) \in failed[t])
           /\ \A i, ask : ~ OutFor(t, i, ask)
  <1>1. TaskInv(t)
    BY DEF Inv
  <1>2. t \in Messages /\ packet[t] # NotPosted => pc[t] \in {"posted", "ok", "err"}
    BY <1>1 DEF TaskInv, MessageInv, MessageStage
  <1>3. todo[t] = <<>>
    BY <1>1, <1>2 DEF TaskInv, Stage
  <1>4. Steps(todo[t]) = {}
    BY <1>3, StepsShort
  <1>5. QED
    BY <1>1, <1>4 DEF TaskInv, Covered, Running, OutFor

LEMMA IsolationFollows == Inv => FailureIsolated
  <1> SUFFICES ASSUME Inv, NEW p \in Pushes, pc[p] = "sent"
               PROVE  LET parse == Parse(Push(p)) IN
                      IF parse.result = "chain"
                      THEN \A i \in 1 .. Len(parse.entities) :
                              LET asks == Fetch(parse.typ, parse.entities[i])
                                  url  == asks[Len(asks)] IN
                              asks # <<>> /\ <<i, url>> \notin known[p]
                                  => /\ <<i, url>> \in failed[p]
                                     /\ parse.typ = "group" /\ url = "video"
                                           => <<i, "groupVideo">> \in known[p] \cup failed[p]
                      ELSE parse.name # "joinRequest" =>
                              \A i \in 1 .. Len(RolesOf(p, parse.name)) :
                                  <<RolesOf(p, parse.name)[i], "uin">> \in known[p] \cup failed[p]
    BY DEF FailureIsolated
  <1> DEFINE parse == Parse(Push(p))
  <1>1. p \in Tasks /\ p \notin Messages /\ TaskInv(p) /\ PushInv(p)
    BY MessagingAssumption DEF Tasks, Inv, TaskInv
  <1>2. p \in DOMAIN given.pushes /\ Delivers(p)
    BY <1>1 DEF PushInv, PushStage
  <1>3. Push(p) \in Packets
    BY <1>2, GivenShape DEF Inv
  <1>4. parse.result = "chain" => ParsedChain(Push(p), parse)
    BY <1>3, ParseKinds
  <1>5. /\ \A r \in Steps(Program(p)) : Pair(r) \in known[p] \cup failed[p]
        /\ \A i, ask : ~ OutFor(p, i, ask)
    BY <1>1, AllAsked
  <1>6. ASSUME NEW i, NEW ask, Of(i, ask, FALSE) \in Steps(Program(p))
        PROVE  <<i, ask>> \in known[p] \cup failed[p]
    <2>1. Pair(Of(i, ask, FALSE)) = <<i, ask>>
      BY DEF Pair, Of
    <2>2. QED
      BY <1>5, <1>6, <2>1
  <1>7. ASSUME parse.result = "chain", NEW i \in 1 .. Len(parse.entities),
               NEW asks, asks = Fetch(parse.typ, parse.entities[i]), asks # <<>>,
               <<i, asks[Len(asks)]>> \notin known[p]
        PROVE  /\ <<i, asks[Len(asks)]>> \in failed[p]
               /\ parse.typ = "group" /\ asks[Len(asks)] = "video"
                     => <<i, "groupVideo">> \in known[p] \cup failed[p]
    <2>1. /\ parse.entities \in Seq(STRING \cup {"c2cFile"})
          /\ parse.typ = "group" => Push(p).grouped
      BY <1>4, <1>7 DEF ParsedChain
    <2>2. Program(p) = ChainSteps(parse)
      BY <1>1, <1>7 DEF Program
    <2>3. asks \in Seq(Files)
      BY <1>7, FetchShape
    <2>4. Len(asks) \in 1 .. Len(asks)
      BY <1>7, <2>3
    <2>5. Of(i, asks[Len(asks)], FALSE) \in Steps(Program(p))
      BY <1>7, <2>1, <2>2, <2>4, ChainStepsShape
    <2>6. <<i, asks[Len(asks)]>> \in known[p] \cup failed[p]
      BY <1>6, <2>5
    <2>7. i \in Nat
      BY <1>7, <2>1
    <2>8. QED
      BY <1>1, <1>5, <1>7, <2>1, <2>6, <2>7 DEF PushInv, Fallback
  <1>8. ASSUME parse.result # "chain", parse.name # "joinRequest", NEW i \in 1 .. Len(RolesOf(p, parse.name))
        PROVE  <<RolesOf(p, parse.name)[i], "uin">> \in known[p] \cup failed[p]
    <2>1. parse.name \in Handled
      BY <1>2, <1>8 DEF Delivers
    <2>2. Program(p) = NoticeSteps(p, parse.name)
      BY <1>1, <1>8 DEF Program
    <2>3. <<>> \in Caching(parse.name)
      BY DEF Caching
    <2>4. Of(RolesOf(p, parse.name)[i], "uin", FALSE) \in Steps(Program(p))
      BY <1>8, <2>1, <2>2, <2>3, NoticeFits
    <2>5. QED
      BY <1>6, <2>4
  <1>9. QED
    BY <1>7, <1>8

(* A url or a role that an event lacks is one whose own request failed,     *)
(* for a video of a group also its second one: a failure in                 *)
(* messaging_logic does not spread to other entities or roles.              *)
THEOREM FailureIsolatedAlways == Spec => []FailureIsolated
  BY Invariant, IsolationFollows, PTL

LEMMA WholeFollows == Inv => SentWhole
  <1> SUFFICES ASSUME Inv, NEW m \in Messages
               PROVE  /\ packet[m] # NotPosted =>
                           \A i \in 1 .. Len(Message(m).entities) :
                              /\ "file" \in Owed(Message(m).entities[i]) => Transferred(m, i, FileCommands)
                              /\ "thumb" \in Owed(Message(m).entities[i]) => Transferred(m, i, ThumbCommands)
                      /\ pc[m] = "err" => failed[m] # {}
    BY DEF SentWhole
  <1>1. m \in Tasks /\ TaskInv(m) /\ MessageInv(m)
    BY DEF Tasks, Inv, TaskInv
  <1>2. pc[m] = "err" => failed[m] # {}
    BY <1>1 DEF MessageInv, MessageStage
  <1>3. ASSUME packet[m] # NotPosted, NEW i \in 1 .. Len(Message(m).entities)
        PROVE  /\ "file" \in Owed(Message(m).entities[i]) => Transferred(m, i, FileCommands)
               /\ "thumb" \in Owed(Message(m).entities[i]) => Transferred(m, i, ThumbCommands)
    <2>1. m \in DOMAIN given.messages
      BY <1>1, <1>3 DEF MessageInv, MessageStage
    <2>2. /\ Message(m).entities \in Seq(Entities)
          /\ \A j \in 1 .. Len(Message(m).entities) :
                Message(m).entities[j].needs \subseteq PartsOf(Message(m).entities[j].kind)
      BY <2>1, GivenShape DEF Inv
    <2> DEFINE u == Uploads(Message(m))
               d == Metadata(Message(m).typ)
    <2>3. /\ Outgoing(Message(m)) = d \o u /\ u \in Seq(SUBSET Requested)
          /\ \A j \in 1 .. Len(Message(m).entities) :
                /\ "file" \in Owed(Message(m).entities[j]) =>
                      \E c \in FileCommands : Of(j, c, TRUE) \in Steps(u)
                /\ "thumb" \in Owed(Message(m).entities[j]) =>
                      \E c \in ThumbCommands : Of(j, c, TRUE) \in Steps(u)
      BY <2>2, OutgoingShape
    <2>4. Program(m) = Outgoing(Message(m))
      BY DEF Program
    <2>5. d \in Seq(SUBSET Requested)
      BY MetadataShape
    <2> HIDE DEF u, d
    <2>6. Steps(u) \subseteq Steps(Program(m))
      BY <2>3, <2>4, <2>5, StepsConcat
    <2>7. ASSUME NEW c, Of(i, c, TRUE) \in Steps(u) PROVE <<i, c>> \in known[m]
      <3>1. Pair(Of(i, c, TRUE)) = <<i, c>> /\ Of(i, c, TRUE).must
        BY DEF Pair, Of
      <3>2. \A r \in Steps(Program(m)) : r.must => Pair(r) \in known[m]
        BY <1>1, <1>3, AllAsked
      <3>3. QED
        BY <2>6, <2>7, <3>1, <3>2
    <2>8. QED
      BY <2>3, <2>7 DEF Transferred
  <1>4. QED
    BY <1>2, <1>3

(* A message is posted only after every file and thumbnail the server       *)
(* asked for has been transferred, except those parts of a video whose size *)
(* the code does not have as they were given as a stream; and a message     *)
(* that fails has had a request fail (common_op.rs, highway_op.rs).         *)
THEOREM SentWholeAlways == Spec => []SentWhole
  BY Invariant, WholeFollows, PTL

LEMMA PeerFollows == Inv => OnePeer
  <1> SUFFICES ASSUME Inv, NEW m \in Messages, packet[m] # NotPosted, Message(m).typ = "friend"
               PROVE  peers[m] \subseteq {packet[m]} /\ (packet[m] = "" => <<Itself, "friend">> \in failed[m])
    BY DEF OnePeer
  <1>1. m \in Tasks /\ TaskInv(m) /\ MessageInv(m)
    BY DEF Tasks, Inv, TaskInv
  <1>2. pc[m] # "idle" /\ m \in DOMAIN given.messages /\ todo[m] = <<>>
    BY <1>1 DEF MessageInv, MessageStage, TaskInv, Stage
  <1>3. Asked(m) /\ packet[m] = uid[m]
    BY <1>1, <1>2 DEF MessageInv, FriendFirst, Unasked
  <1>4. peers[m] \subseteq {packet[m]} /\ (packet[m] = "" => Pair(FriendStep) \notin known[m])
    BY <1>3 DEF Asked
  <1>5. FriendStep \in Steps(Program(m))
    <2> DEFINE d == Metadata(Message(m).typ)
               u == Uploads(Message(m))
    <2>1. /\ Message(m).entities \in Seq(Entities)
          /\ \A j \in 1 .. Len(Message(m).entities) :
                Message(m).entities[j].needs \subseteq PartsOf(Message(m).entities[j].kind)
      BY <1>2, GivenShape DEF Inv
    <2>2. Outgoing(Message(m)) = d \o u /\ u \in Seq(SUBSET Requested)
      BY <2>1, OutgoingShape
    <2>3. d \in Seq(SUBSET Requested)
      BY MetadataShape
    <2>4. Program(m) = Outgoing(Message(m))
      BY DEF Program
    <2>5. Steps(d) = {FriendStep}
      <3>1. d = <<{FriendStep}>>
        BY MetadataShape
      <3> HIDE DEF d
      <3>2. QED
        BY <3>1, StepsShort
    <2> HIDE DEF u, d
    <2>6. Steps(d \o u) = Steps(d) \cup Steps(u)
      BY <2>2, <2>3, StepsConcat
    <2>7. QED
      BY <2>2, <2>4, <2>5, <2>6
  <1>6. Pair(FriendStep) \in known[m] \/ Pair(FriendStep) \in failed[m]
    BY <1>1, <1>5, AllAsked
  <1>7. Pair(FriendStep) = <<Itself, "friend">>
    BY DEF Pair, FriendStep
  <1>8. QED
    BY <1>4, <1>6, <1>7

(* The files of a message to a friend are announced under the uid its       *)
(* packet is addressed to, and that uid is missing only if the lookup of    *)
(* the friend failed.                                                       *)
THEOREM OnePeerAlways == Spec => []OnePeer
  BY Invariant, PeerFollows, PTL

=============================================================================
