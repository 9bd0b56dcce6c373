---------------------------- MODULE LoginProofs ----------------------------
(***************************************************************************)
(* Proofs about Login: the stored credentials are those of one login, the  *)
(* outcome reported to the caller is that of the answer, a login knows its *)
(* account, and the packets built after it carry its d2 under its key.     *)
(***************************************************************************)
EXTENDS Login, TLAPS

AllFields == Fields \cup {"uin"}
Uins == [by : Attempts \cup {NoAttempt}, account : Accounts \cup {NoAccount}]
Stores == [AllFields -> Values \cup Uins]
IsStore(s) ==
    /\ s \in Stores
    /\ s["uin"] \in Uins
    /\ \A f \in Fields : s[f] \in Values
Stages == {"none", "sent", "checked", "storing", "stored", "refused", "kept", "lost"}
Begin == {"idle", "poll", "query", "key", "temp", "send"}

(* The types that TypeOK leaves open, and how far an answer can have come  *)
(* when its request has not been sent, or its fields are being stored.     *)
Types ==
    /\ IsStore(store)
    /\ file = Unreadable \/ IsStore(file)
    /\ saver \in [at : 0 .. 3, fields : Stores] /\ IsStore(saver.fields)
    /\ stage \in [Attempts -> Stages] /\ stored \in [Attempts -> 0 .. 4]
    /\ held \in [Heartbeats -> BOOLEAN] /\ quick \in [Attempts -> BOOLEAN]
    /\ mixed \in BOOLEAN /\ torn \in BOOLEAN
    /\ confirmed \subseteq Attempts
    /\ pkt \in [by : Heartbeats \cup {NoAttempt}, since : Attempts \cup {NoAttempt},
                flag : 0 .. 2, d2 : Values, during : SUBSET Attempts]
    /\ pkt.by = NoAttempt => pkt = NoPacket

Progress ==
    \A a \in Attempts :
        /\ pc[a] \in Begin => stage[a] = "none"
        /\ stage[a] \in {"none", "sent", "checked"} => stored[a] = 0
        /\ Storing(a) => stored[a] < 4

TypeInv == TypeOK /\ Types /\ Progress

(* What the parser stores are fields of the key store, never the uin,      *)
(* which is saved like the others.                                         *)
LEMMA StoredFields ==
    /\ Len(StoreOrder) = 4 /\ Len(SaveOrder) = 2
    /\ \A i \in 1 .. 4 : StoreOrder[i] \subseteq Fields
    /\ \A i \in 1 .. 2 : SaveOrder[i] \subseteq AllFields
BY DEF AllFields, Fields, Credentials, StoreOrder, SaveOrder

LEMMA StoredWhere ==
    /\ StoreOrder[1] = {"tgtgtKey"} /\ StoreOrder[2] = {"tgt", "d2"}
    /\ StoreOrder[3] = {"d2Key"} /\ StoreOrder[4] = {"uid", "tempPassword", "date"}
    /\ SaveOrder[1] = {"uin", "uid", "d2Key"} /\ SaveOrder[2] = {"d2", "tgt", "date", "tempPassword"}
BY DEF StoreOrder, SaveOrder

LEMMA FieldNames ==
    /\ Fields = {"tgt", "d2", "d2Key", "uid", "date", "tgtgtKey", "tempPassword"}
    /\ "uin" \notin Fields /\ AllFields = Fields \cup {"uin"} /\ Credentials \subseteq Fields
BY DEF Fields, Credentials, AllFields

LEMMA ValueNames ==
    /\ NoValue \in Values
    /\ \A a \in Attempts : Confirmation(a) \in Values /\ Login(a) \in Values
BY DEF Values

LEMMA DefaultStore ==
    IsStore(Default) /\ Default["uin"].by = NoAttempt /\ \A f \in Fields : Default[f] = NoValue
BY FieldNames, ValueNames DEF IsStore, Stores, Uins, Uin, Default

(* Writing a value into a field, or somebody's uin, keeps a store one.     *)
LEMMA FieldWritten ==
    ASSUME NEW s, IsStore(s), NEW f \in Fields, NEW v \in Values
    PROVE  /\ IsStore([s EXCEPT ![f] = v])
           /\ [s EXCEPT ![f] = v]["uin"] = s["uin"]
           /\ \A g \in Fields : [s EXCEPT ![f] = v][g] = IF g = f THEN v ELSE s[g]
BY FieldNames DEF IsStore, Stores

LEMMA UinWritten ==
    ASSUME NEW s, IsStore(s), NEW u \in Uins
    PROVE  /\ IsStore([s EXCEPT !["uin"] = u])
           /\ [s EXCEPT !["uin"] = u]["uin"] = u
           /\ \A g \in Fields : [s EXCEPT !["uin"] = u][g] = s[g]
BY FieldNames DEF IsStore, Stores

LEMMA GroupWritten ==
    ASSUME NEW s, IsStore(s), NEW F \in SUBSET Fields, NEW v \in Values
    PROVE  LET r == [f \in DOMAIN s |-> IF f \in F THEN v ELSE s[f]]
           IN  /\ IsStore(r) /\ r["uin"] = s["uin"]
               /\ \A g \in Fields : r[g] = IF g \in F THEN v ELSE s[g]
BY FieldNames DEF IsStore, Stores

LEMMA GroupSaved ==
    ASSUME NEW s, IsStore(s), NEW t, IsStore(t), NEW F \in SUBSET AllFields
    PROVE  LET r == [f \in DOMAIN Default |-> IF f \in F THEN s[f] ELSE t[f]]
           IN  /\ IsStore(r)
               /\ \A g \in AllFields : r[g] = IF g \in F THEN s[g] ELSE t[g]
BY FieldNames DEF IsStore, Stores, Default, AllFields

-----------------------------------------------------------------------------
(* The step of the parser that stores the next group of fields.            *)
LEMMA NextGroup ==
    ASSUME TypeInv, NEW a \in Attempts, StoreField(a)
    PROVE  /\ stage[a] = "storing" /\ stored[a] \in 0 .. 3
           /\ stored' = [stored EXCEPT ![a] = stored[a] + 1]
           /\ stage' = [stage EXCEPT ![a] = IF stored[a] = 3 THEN "stored" ELSE "storing"]
           /\ IsStore(store') /\ store'["uin"] = store["uin"]
           /\ \A f \in Fields :
                 store'[f] = IF f \in StoreOrder[stored[a] + 1] THEN Login(a) ELSE store[f]
<1>1. stage[a] = "storing" /\ stored[a] \in 0 .. 3 /\ IsStore(store)
  BY DEF StoreField, Storing, TypeInv, Types, Progress
<1>2. /\ stored' = [stored EXCEPT ![a] = stored[a] + 1]
      /\ stored'[a] = stored[a] + 1
  BY DEF StoreField, TypeInv, Types
<1>3. stage' = [stage EXCEPT ![a] = IF stored[a] = 3 THEN "stored" ELSE "storing"]
  <2>1. stage' = [stage EXCEPT ![a] = IF stored'[a] = Len(StoreOrder) THEN "stored" ELSE stage[a]]
    BY DEF StoreField
  <2>2. stored'[a] = Len(StoreOrder) <=> stored[a] = 3
    BY <1>1, <1>2, StoredFields
  <2> QED BY <1>1, <2>1, <2>2
<1> DEFINE F == StoreOrder[stored[a] + 1]
<1>4. F \in SUBSET Fields
  BY <1>1, StoredFields
<1>5. store' = [f \in DOMAIN store |-> IF f \in F THEN Login(a) ELSE store[f]]
  BY <1>2 DEF StoreField
<1> HIDE DEF F
<1>6. /\ IsStore(store') /\ store'["uin"] = store["uin"]
      /\ \A f \in Fields : store'[f] = IF f \in F THEN Login(a) ELSE store[f]
  BY <1>1, <1>4, <1>5, ValueNames, GroupWritten
<1> QED BY <1>1, <1>2, <1>3, <1>6 DEF F

(* The step of the save that serializes the next group.                    *)
LEMMA NextSaved ==
    ASSUME TypeInv, SaveField
    PROVE  /\ saver.at \in {1, 2} /\ saver' = [at |-> saver.at + 1, fields |-> saver'.fields]
           /\ IsStore(saver'.fields)
           /\ \A f \in AllFields :
                 saver'.fields[f] = IF f \in SaveOrder[saver.at] THEN store[f] ELSE saver.fields[f]
<1> DEFINE F == SaveOrder[saver.at]
<1> DEFINE s == saver.fields
<1> DEFINE r == [f \in DOMAIN Default |-> IF f \in F THEN store[f] ELSE s[f]]
<1>1. saver.at \in {1, 2} /\ F \in SUBSET AllFields
  BY StoredFields DEF SaveField
<1>2. IsStore(store) /\ IsStore(s)
  BY DEF TypeInv, Types
<1>3. saver' = [at |-> saver.at + 1, fields |-> r]
  BY DEF SaveField
<1> HIDE DEF F, s
<1>4. IsStore(r) /\ \A f \in AllFields : r[f] = IF f \in F THEN store[f] ELSE s[f]
  BY <1>1, <1>2, GroupSaved
<1> HIDE DEF r
<1> QED BY <1>1, <1>3, <1>4 DEF F, s

-----------------------------------------------------------------------------
(* Type correctness.                                                       *)
LEMMA TypeInit == Init => TypeInv
<1> SUFFICES ASSUME Init PROVE TypeInv
  OBVIOUS
<1> USE DEF Init
<1>1. TypeOK
  <2>1. store["uin"] \in Uins /\ \A f \in Fields : store[f] \in Values
    BY DefaultStore DEF IsStore
  <2>2. \A h \in Heartbeats : pkt.by = h <=> hb[h] = "push"
    BY LoginAssumption DEF NoPacket
  <2>3. \A a \in Attempts : stored[a] \in 0 .. Len(StoreOrder)
    <3>1. \A a \in Attempts : stored[a] = 0
      OBVIOUS
    <3>2. 0 \in 0 .. Len(StoreOrder)
      BY StoredFields
    <3> QED BY <3>1, <3>2
  <2>4. saves \in 0 .. MaxSaves /\ crashes \in 0 .. MaxCrashes
    BY LoginAssumption
  <2> QED BY <2>1, <2>2, <2>3, <2>4 DEF TypeOK, Uins
<1>2. IsStore(store) /\ IsStore(file) /\ saver \in [at : 0 .. 3, fields : Stores] /\ IsStore(saver.fields)
  BY DefaultStore DEF NoSave, IsStore
<1>3. pkt \in [by : Heartbeats \cup {NoAttempt}, since : Attempts \cup {NoAttempt},
              flag : 0 .. 2, d2 : Values, during : SUBSET Attempts]
  BY ValueNames DEF NoPacket
<1>4. stage \in [Attempts -> Stages] /\ stored \in [Attempts -> 0 .. 4]
  BY DEF Stages
<1>5. Types
  BY <1>2, <1>3, <1>4 DEF Types
<1>6. Progress
  BY DEF Progress, Storing
<1> QED BY <1>1, <1>5, <1>6 DEF TypeInv

(* A step by which an attempt moves on without anything being stored.      *)
LEMMA AttemptMoves ==
    ASSUME TypeInv, NEW a \in Attempts,
           Scan(a) \/ Confirm(a) \/ FetchQrcode(a) \/ QueryAnswered(a)
               \/ SendLogin(a) \/ Timeout(a) \/ CheckUin(a)
    PROVE  TypeInv'
<1> USE DEF TypeInv, Types, Progress, TypeOK, Storing, Running, Over, Stages, Begin, user, disk, history
<1>1. CASE Scan(a)
  BY <1>1, LoginAssumption DEF Scan
<1>2. CASE Confirm(a)
  BY <1>2 DEF Confirm
<1>3. CASE FetchQrcode(a)
  BY <1>3 DEF FetchQrcode
<1>4. CASE QueryAnswered(a)
  BY <1>4 DEF QueryAnswered
<1>5. CASE SendLogin(a)
  <2>1. stage[a] = "none" /\ stored[a] = 0
    BY <1>5 DEF SendLogin
  <2>2. /\ pc' = [pc EXCEPT ![a] = pc'[a]] /\ stage' = [stage EXCEPT ![a] = stage'[a]]
        /\ \/ pc'[a] = "login" /\ stage'[a] = "sent"
           \/ pc'[a] = "err" /\ stage'[a] = "none"
    BY <1>5, <2>1 DEF SendLogin
  <2>3. UNCHANGED <<user, store, stored, pkt, hb, held, disk, history>>
    BY <1>5 DEF SendLogin
  <2>4. TypeOK'
    <3>1. pc' \in [Attempts -> {"idle"} \cup Running \cup Over]
      BY <2>2
    <3>2. \A b \in Attempts : /\ stage'[b] \in {"none", "sent", "checked", "storing", "stored", "refused",
                                              "kept", "lost"}
                             /\ stored'[b] \in 0 .. Len(StoreOrder)
      BY <2>2, <2>3
    <3>3. \A h \in Heartbeats : pkt'.by = h <=> hb'[h] = "push"
      BY <2>3
    <3> QED BY <2>3, <3>1, <3>2, <3>3
  <2>5. Types'
    BY <2>1, <2>2, <2>3
  <2>6. Progress'
    BY <2>1, <2>2, <2>3
  <2> QED BY <2>4, <2>5, <2>6
<1>6. CASE Timeout(a)
  BY <1>6 DEF Timeout, TimeoutAt
<1>7. CASE CheckUin(a)
  BY <1>7 DEF CheckUin
<1> QED BY <1>1, <1>2, <1>3, <1>4, <1>5, <1>6, <1>7

(* The steps that write into the store.                                    *)
LEMMA StoreWritten ==
    ASSUME TypeInv, NEW a \in Attempts,
           Poll(a) \/ StoreKey(a) \/ StoreTemp(a) \/ StoreField(a)
    PROVE  TypeInv'
<1>1. CASE Poll(a)
  <2>1. IsStore(store) /\ PolledUin(a) \in Uins
    BY DEF TypeInv, Types, TypeOK, PolledUin, Uin, Uins
  <2>2. store' = [store EXCEPT !["uin"] = PolledUin(a)] \/ store' = store
    BY <1>1 DEF Poll
  <2>3. IsStore(store')
    BY <2>1, <2>2, UinWritten
  <2> QED BY <1>1, <2>3, ZenonT(30)
        DEF Poll, TypeInv, Types, Progress, TypeOK, IsStore, Uins, Storing, Running, Over, Begin, user, disk
<1>2. CASE StoreKey(a)
  <2>1. IsStore(store') /\ mixed' \in BOOLEAN
    BY <1>2, FieldWritten, FieldNames, ValueNames DEF StoreKey, TypeInv, Types
  <2> QED BY <1>2, <2>1, ZenonT(30)
        DEF StoreKey, TypeInv, Types, Progress, TypeOK, IsStore, Uins, Storing, Running, Over, Begin, user, disk
<1>3. CASE StoreTemp(a)
  <2>1. IsStore(store')
    BY <1>3, FieldWritten, FieldNames, ValueNames DEF StoreTemp, TypeInv, Types
  <2> QED BY <1>3, <2>1, ZenonT(30)
        DEF StoreTemp, TypeInv, Types, Progress, TypeOK, IsStore, Uins, Storing, Running, Over, Begin,
            user, disk, history
<1>4. CASE StoreField(a)
  <2>1. /\ stage[a] = "storing" /\ stored[a] \in 0 .. 3 /\ IsStore(store')
        /\ stored' = [stored EXCEPT ![a] = stored[a] + 1]
        /\ stage' = [stage EXCEPT ![a] = IF stored[a] = 3 THEN "stored" ELSE "storing"]
    BY <1>4, NextGroup
  <2>2. pkt' = IF pkt = NoPacket THEN pkt ELSE [pkt EXCEPT !.during = @ \cup {a}]
    BY <1>4 DEF StoreField
  <2>3. pkt'.by = pkt.by /\ (pkt'.by = NoAttempt => pkt' = NoPacket)
        /\ pkt' \in [by : Heartbeats \cup {NoAttempt}, since : Attempts \cup {NoAttempt},
                     flag : 0 .. 2, d2 : Values, during : SUBSET Attempts]
    BY <2>2 DEF TypeInv, Types
  <2>4. torn' \in BOOLEAN
    BY <1>4 DEF StoreField
  <2>5. /\ \A b \in Attempts \ {a} : stage'[b] = stage[b] /\ stored'[b] = stored[b]
        /\ stored'[a] \in 1 .. 4 /\ stage'[a] \in {"storing", "stored"}
        /\ stage'[a] = "storing" => stored'[a] < 4
        /\ stage' \in [Attempts -> Stages] /\ stored' \in [Attempts -> 0 .. 4]
    BY <2>1 DEF TypeInv, Types, Stages
  <2>6. UNCHANGED <<who, confirmed, pc, hb, held, file, saver, saves, crashes, quick, mixed, last>>
    BY <1>4 DEF StoreField, user, disk
  <2>7. TypeOK'
    BY <2>1, <2>3, <2>5, <2>6, StoredFields DEF TypeInv, TypeOK, IsStore, Uins, Running, Over
  <2>8. Types'
    BY <2>1, <2>3, <2>4, <2>5, <2>6 DEF TypeInv, Types
  <2>9. Progress'
    BY <2>1, <2>5, <2>6 DEF TypeInv, Progress, Storing
  <2> QED BY <2>7, <2>8, <2>9 DEF TypeInv
<1> QED BY <1>1, <1>2, <1>3, <1>4

(* The rest of what happens to an answer.                                  *)
LEMMA AnswerMoves ==
    ASSUME TypeInv, NEW a \in Attempts, Parse(a) \/ Deliver(a)
    PROVE  TypeInv'
<1>1. CASE Parse(a)
  <2>1. mixed' \in BOOLEAN
    BY <1>1 DEF Parse, TypeInv, Types
  <2>2. /\ stage' \in [Attempts -> Stages] /\ stage[a] = "checked"
        /\ stage'[a] \in {"refused", "lost", "storing"}
        /\ \A b \in Attempts \ {a} : stage'[b] = stage[b]
    BY <1>1 DEF Parse, TypeInv, Types, Stages
  <2>3. UNCHANGED <<user, store, pc, req, stored, pkt, hb, held, disk, quick, torn, last>>
    BY <1>1 DEF Parse
  <2>4. Progress'
    BY <2>2, <2>3 DEF TypeInv, Progress, Storing, Stages, Begin
  <2> QED BY <2>1, <2>2, <2>3, <2>4 DEF TypeInv, Types, TypeOK, IsStore, Stages, user, disk
<1>2. CASE Deliver(a)
  <2>1. /\ stage' \in [Attempts -> Stages] /\ stage[a] \in {"stored", "refused"}
        /\ stage'[a] \in {"kept", "lost"}
        /\ \A b \in Attempts \ {a} : stage'[b] = stage[b]
    BY <1>2 DEF Deliver, TypeInv, Types, Stages
  <2>2. /\ pc' \in [Attempts -> {"idle"} \cup Running \cup Over]
        /\ \A b \in Attempts : pc'[b] \in Begin => pc[b] \in Begin
        /\ last' \in Attempts \cup {NoAttempt}
    BY <1>2 DEF Deliver, Outcome, TypeInv, TypeOK, Over, Begin
  <2>3. UNCHANGED <<user, store, req, stored, pkt, hb, held, disk, quick, mixed, torn>>
    BY <1>2 DEF Deliver
  <2>4. Progress'
    BY <2>1, <2>2, <2>3 DEF TypeInv, Progress, Storing, Stages, Begin
  <2> QED BY <2>1, <2>2, <2>3, <2>4 DEF TypeInv, Types, TypeOK, IsStore, Stages, user, disk
<1> QED BY <1>1, <1>2

(* The heartbeats and their packets.                                       *)
LEMMA HeartbeatMoves ==
    ASSUME TypeInv,
           PacketKey \/ \E h \in Heartbeats : Online(h) \/ Tick(h) \/ DropSender(h) \/ HeartbeatEnds(h)
    PROVE  TypeInv'
<1>0. NoAttempt \notin Heartbeats
  BY LoginAssumption
<1> USE DEF TypeInv, Types, Progress, TypeOK, IsStore, Storing, user, disk, history
<1>1. CASE PacketKey
  <2>1. pkt.by \in Heartbeats /\ hb[pkt.by] = "push"
    BY <1>1 DEF PacketKey
  <2>2. pkt'.by = NoAttempt
    BY <1>1 DEF PacketKey, NoPacket
  <2>3. pkt' \in [by : Heartbeats \cup {NoAttempt}, since : Attempts \cup {NoAttempt},
                  flag : 0 .. 2, d2 : Values, during : SUBSET Attempts]
    BY <1>1, ValueNames DEF PacketKey, NoPacket
  <2>4. /\ hb' \in [Heartbeats -> {"off", "wait", "push", "ended"}]
        /\ \A h \in Heartbeats : pkt'.by = h <=> hb'[h] = "push"
    BY <1>0, <1>1, <2>1, <2>2 DEF PacketKey
  <2> QED BY <1>1, <2>3, <2>4 DEF PacketKey
<1>2. ASSUME NEW h \in Heartbeats, Online(h) PROVE TypeInv'
  BY <1>2 DEF Online
<1>3. ASSUME NEW h \in Heartbeats, Tick(h) PROVE TypeInv'
  <2>1. pkt.by = NoAttempt
    BY <1>3 DEF Tick, NoPacket
  <2>2. pkt'.by = h
    BY <1>3 DEF Tick, Begun
  <2>3. pkt' \in [by : Heartbeats \cup {NoAttempt}, since : Attempts \cup {NoAttempt},
                  flag : 0 .. 2, d2 : Values, during : SUBSET Attempts]
    BY <1>3, FieldNames DEF Tick, Begun
  <2>4. /\ hb' \in [Heartbeats -> {"off", "wait", "push", "ended"}]
        /\ \A g \in Heartbeats : pkt'.by = g <=> hb'[g] = "push"
    BY <1>0, <1>3, <2>1, <2>2 DEF Tick
  <2> QED BY <1>0, <1>3, <2>2, <2>3, <2>4 DEF Tick
<1>4. ASSUME NEW h \in Heartbeats, DropSender(h) PROVE TypeInv'
  BY <1>4 DEF DropSender
<1>5. ASSUME NEW h \in Heartbeats, HeartbeatEnds(h) PROVE TypeInv'
  BY <1>5 DEF HeartbeatEnds
<1> QED BY <1>1, <1>2, <1>3, <1>4, <1>5

(* Saving, and starting again.                                             *)
LEMMA DiskMoves ==
    ASSUME TypeInv, BeginSave \/ SaveField \/ EndSave \/ Restart
    PROVE  TypeInv'
<1> USE DEF TypeInv, Types, Progress, TypeOK, Storing, user, disk, history
<1>1. CASE BeginSave
  <2>1. torn' \in BOOLEAN
    BY <1>1 DEF BeginSave
  <2>2. file' = Unreadable /\ saver' \in [at : 0 .. 3, fields : Stores] /\ IsStore(saver'.fields)
    BY <1>1, DefaultStore DEF BeginSave, Unfinished, IsStore
  <2>3. saves' \in 0 .. MaxSaves
    BY <1>1, LoginAssumption DEF BeginSave
  <2> QED BY <1>1, <2>1, <2>2, <2>3 DEF BeginSave
<1>2. CASE SaveField
  <2>1. saver.at \in 1 .. 2 /\ SaveOrder[saver.at] \in SUBSET AllFields
    BY <1>2, StoredFields DEF SaveField
  <2>2. saver'.at = saver.at + 1 /\ IsStore(saver'.fields)
    BY <1>2, NextSaved
  <2>3. saver' \in [at : 0 .. 3, fields : Stores]
    BY <1>2, <2>1, <2>2, NextSaved DEF IsStore
  <2>4. file' = Unreadable
    BY <1>2 DEF SaveField, Unfinished
  <2> QED BY <1>2, <2>2, <2>3, <2>4 DEF SaveField
<1>3. CASE EndSave
  <2>1. saver' \in [at : 0 .. 3, fields : Stores] /\ IsStore(saver'.fields)
    BY <1>3, DefaultStore DEF EndSave, NoSave, IsStore
  <2>2. file' = Unreadable \/ IsStore(file')
    BY <1>3 DEF EndSave
  <2> QED BY <1>3, <2>1, <2>2 DEF EndSave
<1>4. CASE Restart
  <2>1. IsStore(store') /\ file' = store'
    BY <1>4, DefaultStore DEF Restart
  <2>2. saver' \in [at : 0 .. 3, fields : Stores] /\ IsStore(saver'.fields)
    BY <1>4, DefaultStore DEF Restart, NoSave, IsStore
  <2>3. pkt' = NoPacket /\ pkt'.by = NoAttempt
        /\ pkt' \in [by : Heartbeats \cup {NoAttempt}, since : Attempts \cup {NoAttempt},
                     flag : 0 .. 2, d2 : Values, during : SUBSET Attempts]
    BY <1>4, ValueNames DEF Restart, NoPacket
  <2>4. /\ hb' \in [Heartbeats -> {"off", "wait", "push", "ended"}]
        /\ held' \in [Heartbeats -> BOOLEAN]
        /\ \A h \in Heartbeats : pkt'.by = h <=> hb'[h] = "push"
    BY <1>4, <2>3, LoginAssumption DEF Restart
  <2>5. /\ pc' \in [Attempts -> {"idle"} \cup Running \cup Over]
        /\ stage' \in [Attempts -> Stages]
        /\ \A a \in Attempts :
              /\ pc'[a] = IF pc[a] \in Running THEN "gone" ELSE pc[a]
              /\ stage'[a] = "lost" \/ (stage'[a] = stage[a] /\ stage[a] \in {"none", "kept", "lost"})
    BY <1>4 DEF Restart, Parsing, Stages, Over
  <2>6. Progress'
    <3>1. stored' = stored
      BY <1>4 DEF Restart
    <3>2. ASSUME NEW a \in Attempts
          PROVE  /\ pc'[a] \in Begin => stage'[a] = "none"
                 /\ stage'[a] \in {"none", "sent", "checked"} => stored'[a] = 0
                 /\ Storing(a)' => stored'[a] < 4
      <4>1. pc'[a] \in Begin => pc[a] = "idle"
        BY <2>5 DEF Begin, Running
      <4>2. pc[a] = "idle" => stage[a] = "none"
        BY DEF Begin
      <4>3. stage'[a] # "storing"
        BY <2>5
      <4>4. pc[a] = "idle" => stage'[a] = "none"
        BY <1>4, <4>2 DEF Restart, Parsing
      <4> QED BY <2>5, <3>1, <4>1, <4>3, <4>4
    <3> QED BY <3>2
  <2>7. crashes' \in 0 .. MaxCrashes /\ last' \in Attempts \cup {NoAttempt}
    BY <1>4, LoginAssumption DEF Restart
  <2>8. UNCHANGED <<who, confirmed, stored, saves, quick, mixed, torn>>
    BY <1>4 DEF Restart
  <2>9. TypeOK'
    BY <2>1, <2>3, <2>4, <2>5, <2>7, <2>8, StoredFields DEF IsStore, Uins, Stages
  <2>10. Types'
    BY <2>1, <2>2, <2>3, <2>4, <2>5, <2>8
  <2> QED BY <2>6, <2>9, <2>10
<1> QED BY <1>1, <1>2, <1>3, <1>4

LEMMA TypeStep == TypeInv /\ [Next]_vars => TypeInv'
<1> SUFFICES ASSUME TypeInv, [Next]_vars PROVE TypeInv'
  OBVIOUS
<1>1. ASSUME NEW a \in Attempts,
             \/ Scan(a) \/ Confirm(a)
             \/ FetchQrcode(a) \/ Poll(a) \/ QueryAnswered(a)
             \/ StoreKey(a) \/ StoreTemp(a) \/ SendLogin(a) \/ Timeout(a)
             \/ CheckUin(a) \/ Parse(a) \/ StoreField(a) \/ Deliver(a)
      PROVE  TypeInv'
  BY <1>1, AttemptMoves, StoreWritten, AnswerMoves
<1>2. CASE PacketKey \/ \E h \in Heartbeats : Online(h) \/ Tick(h) \/ DropSender(h) \/ HeartbeatEnds(h)
  BY <1>2, HeartbeatMoves
<1>3. CASE BeginSave \/ SaveField \/ EndSave \/ Restart
  BY <1>3, DiskMoves
<1>4. CASE UNCHANGED vars
  BY <1>4 DEF vars, user, disk, history, TypeInv, TypeOK, Types, Progress, Storing, IsStore
<1> QED BY <1>1, <1>2, <1>3, <1>4 DEF Next

LEMMA TypeAlways == Spec => []TypeInv
BY TypeInit, TypeStep, PTL DEF Spec

(* Every reachable state is well typed, for any number of attempts,        *)
(* accounts, heartbeats, saves and crashes.                                *)
THEOREM TypeCorrect == Spec => []TypeOK
<1>1. TypeInv => TypeOK
  BY DEF TypeInv
<1> QED BY <1>1, TypeAlways, PTL

-----------------------------------------------------------------------------
(* The outcome that is reported.  A request is sent once, so that an       *)
(* attempt which fails before it has no answer, and one that fails by its  *)
(* answer has none any more.                                               *)
OutcomeInv ==
    \A a \in Attempts :
        /\ pc[a] = "ok" => stage[a] = "kept"
        /\ pc[a] = "err" => stage[a] \in {"none", "lost"}

LEMMA OutcomeStep == TypeInv /\ OutcomeInv /\ [Next]_vars => OutcomeInv'
<1> SUFFICES ASSUME TypeInv, OutcomeInv, [Next]_vars,
                    NEW b \in Attempts
             PROVE  /\ pc'[b] = "ok" => stage'[b] = "kept"
                    /\ pc'[b] = "err" => stage'[b] \in {"none", "lost"}
  BY DEF OutcomeInv
<1>0. /\ pc[b] = "ok" => stage[b] = "kept"
      /\ pc[b] = "err" => stage[b] \in {"none", "lost"}
      /\ pc[b] \in Begin => stage[b] = "none"
      /\ stage \in [Attempts -> Stages] /\ pc \in [Attempts -> {"idle"} \cup Running \cup Over]
  BY DEF OutcomeInv, TypeInv, Progress, Types, TypeOK
<1>1. ASSUME NEW a \in Attempts,
             FetchQrcode(a) \/ Poll(a) \/ QueryAnswered(a) \/ StoreKey(a) \/ StoreTemp(a) \/ Timeout(a)
      PROVE  /\ UNCHANGED stage
             /\ pc[a] \in Begin \cup {"login"}
             /\ pc' = [pc EXCEPT ![a] = pc'[a]] /\ pc'[a] # "ok" /\ (pc'[a] = "err" => pc[a] \in Begin)
  BY <1>0, <1>1 DEF FetchQrcode, Poll, QueryAnswered, StoreKey, StoreTemp, Timeout, TimeoutAt, Begin
<1>2. ASSUME NEW a \in Attempts, SendLogin(a)
      PROVE  /\ pc[a] \in Begin
             /\ \/ pc' = [pc EXCEPT ![a] = "login"] /\ stage' = [stage EXCEPT ![a] = "sent"]
                \/ pc' = [pc EXCEPT ![a] = "err"] /\ stage' = stage
  BY <1>2 DEF SendLogin, Begin
<1>3. ASSUME NEW a \in Attempts, CheckUin(a) \/ Parse(a) \/ StoreField(a)
      PROVE  /\ UNCHANGED pc /\ stage' = [stage EXCEPT ![a] = stage'[a]]
             /\ stage[a] \in {"sent", "checked", "storing"}
  <2>1. CASE CheckUin(a)
    BY <1>0, <2>1 DEF CheckUin
  <2>2. CASE Parse(a)
    BY <1>0, <2>2 DEF Parse
  <2>3. CASE StoreField(a)
    BY <1>0, <2>3, NextGroup DEF StoreField
  <2> QED BY <1>3, <2>1, <2>2, <2>3
<1>4. ASSUME NEW a \in Attempts, Deliver(a)
      PROVE  /\ stage[a] \in {"stored", "refused"}
             /\ stage' = [stage EXCEPT ![a] = IF stage[a] = "stored" THEN "kept" ELSE "lost"]
             /\ \/ pc' = [pc EXCEPT ![a] = IF stage[a] = "stored" THEN "ok" ELSE "err"]
                \/ pc' = pc
  BY <1>4 DEF Deliver, Outcome
<1>5. ASSUME UNCHANGED vars \/ PacketKey \/ BeginSave \/ SaveField \/ EndSave
             \/ (\E h \in Heartbeats : Online(h) \/ Tick(h) \/ DropSender(h) \/ HeartbeatEnds(h))
             \/ (\E a \in Attempts : Scan(a) \/ Confirm(a))
      PROVE  UNCHANGED <<pc, stage>>
  BY <1>5 DEF vars, PacketKey, BeginSave, SaveField, EndSave, Online, Tick, DropSender, HeartbeatEnds,
              Scan, Confirm
<1>6. CASE Restart
  <2>1. pc'[b] = (IF pc[b] \in Running THEN "gone" ELSE pc[b])
        /\ (stage'[b] = "lost" \/ stage'[b] = stage[b])
        /\ (stage[b] \in {"none", "kept", "lost"} => stage'[b] = stage[b])
    BY <1>6 DEF Restart, Parsing, Storing
  <2> QED BY <1>0, <2>1
<1>7. ASSUME NEW a \in Attempts,
             FetchQrcode(a) \/ Poll(a) \/ QueryAnswered(a) \/ StoreKey(a) \/ StoreTemp(a) \/ Timeout(a)
      PROVE  /\ pc'[b] = "ok" => stage'[b] = "kept"
             /\ pc'[b] = "err" => stage'[b] \in {"none", "lost"}
  BY <1>0, <1>1, <1>7
<1>8. ASSUME NEW a \in Attempts, SendLogin(a)
      PROVE  /\ pc'[b] = "ok" => stage'[b] = "kept"
             /\ pc'[b] = "err" => stage'[b] \in {"none", "lost"}
  BY <1>0, <1>2, <1>8
<1>9. ASSUME NEW a \in Attempts, CheckUin(a) \/ Parse(a) \/ StoreField(a)
      PROVE  /\ pc'[b] = "ok" => stage'[b] = "kept"
             /\ pc'[b] = "err" => stage'[b] \in {"none", "lost"}
  BY <1>0, <1>3, <1>9
<1>10. ASSUME NEW a \in Attempts, Deliver(a)
       PROVE  /\ pc'[b] = "ok" => stage'[b] = "kept"
              /\ pc'[b] = "err" => stage'[b] \in {"none", "lost"}
  BY <1>0, <1>4, <1>10
<1> QED BY <1>0, <1>5, <1>6, <1>7, <1>8, <1>9, <1>10 DEF Next

LEMMA OutcomeAlways == Spec => []OutcomeInv
<1>1. Init => OutcomeInv
  BY DEF Init, OutcomeInv
<1> QED BY <1>1, OutcomeStep, TypeAlways, PTL DEF Spec

(* login_by_qrcode reports success only after its answer has been stored,  *)
(* and a failure other than the timeout only if it has not and will not.   *)
THEOREM OutcomeTold == Spec => []OutcomeMatchesAnswer
<1>1. OutcomeInv => OutcomeMatchesAnswer
  BY DEF OutcomeInv, OutcomeMatchesAnswer, Storing
<1> QED BY <1>1, OutcomeAlways, PTL

-----------------------------------------------------------------------------
(* The account of a login.  Attempts follow each other, and nothing but    *)
(* the polling of the one that runs touches the uin.                       *)
InTurn ==
    /\ \A a, b \in Attempts : pc[a] \in Running /\ pc[b] \in Running => a = b
    /\ \A a \in Attempts : last = a => pc[a] = "ok" /\ \A b \in Attempts : pc[b] \notin Running

Polled(a) == pc[a] \in Running \ {"poll"} \/ last = a

Known(s, a) == s["uin"].by = a /\ (~quick[a] => s["uin"].account = who[a])
AccountInv == \A a \in Attempts : Polled(a) => Known(store, a)

LEMMA InTurnStep == TypeInv /\ InTurn /\ [Next]_vars => InTurn'
<1> SUFFICES ASSUME TypeInv, InTurn, [Next]_vars PROVE InTurn'
  OBVIOUS
<1>0. pc \in [Attempts -> {"idle"} \cup Running \cup Over] /\ NoAttempt \notin Attempts
  BY LoginAssumption DEF TypeInv, TypeOK
<1>1. ASSUME NEW a \in Attempts, FetchQrcode(a) PROVE InTurn'
  BY <1>0, <1>1 DEF FetchQrcode, InTurn, Running
<1>2. ASSUME NEW a \in Attempts,
             Poll(a) \/ QueryAnswered(a) \/ StoreKey(a) \/ StoreTemp(a) \/ SendLogin(a) \/ Timeout(a)
      PROVE  InTurn'
  <2>1. pc[a] \in Running /\ pc' = [pc EXCEPT ![a] = pc'[a]] /\ last' = last
    BY <1>0, <1>2 DEF Poll, QueryAnswered, StoreKey, StoreTemp, SendLogin, Timeout, TimeoutAt,
                      Running, history
  <2> QED BY <1>0, <2>1 DEF InTurn
<1>3. ASSUME NEW a \in Attempts, Deliver(a) PROVE InTurn'
  <2>1. \/ pc' = pc /\ last' = last
        \/ /\ pc[a] = "login"
           /\ \/ pc' = [pc EXCEPT ![a] = "ok"] /\ last' = a
              \/ pc' = [pc EXCEPT ![a] = "err"] /\ last' = last
    BY <1>3 DEF Deliver, Outcome
  <2> QED BY <1>0, <2>1 DEF InTurn, Running
<1>4. CASE Restart
  <2>1. last' = NoAttempt /\ \A a \in Attempts : pc'[a] \notin Running
    BY <1>0, <1>4 DEF Restart, Running, Over
  <2> QED BY <1>0, <2>1 DEF InTurn
<1>5. ASSUME UNCHANGED vars \/ PacketKey \/ BeginSave \/ SaveField \/ EndSave
             \/ (\E h \in Heartbeats : Online(h) \/ Tick(h) \/ DropSender(h) \/ HeartbeatEnds(h))
             \/ (\E a \in Attempts : Scan(a) \/ Confirm(a) \/ CheckUin(a) \/ Parse(a) \/ StoreField(a))
      PROVE  InTurn'
  <2>1. UNCHANGED <<pc, last>>
    BY <1>5 DEF vars, history, PacketKey, BeginSave, SaveField, EndSave, Online, Tick, DropSender,
                HeartbeatEnds, Scan, Confirm, CheckUin, Parse, StoreField
  <2> QED BY <2>1 DEF InTurn
<1> QED BY <1>1, <1>2, <1>3, <1>4, <1>5 DEF Next

LEMMA AccountStep == TypeInv /\ InTurn /\ InTurn' /\ AccountInv /\ [Next]_vars => AccountInv'
<1> SUFFICES ASSUME TypeInv, InTurn, InTurn', AccountInv, [Next]_vars, NEW b \in Attempts,
                    Polled(b)'
             PROVE  Known(store, b)'
  BY DEF AccountInv
<1>0. /\ pc \in [Attempts -> {"idle"} \cup Running \cup Over] /\ NoAttempt \notin Attempts
      /\ quick \in [Attempts -> BOOLEAN] /\ who \in [Attempts -> Accounts \cup {NoAccount}]
      /\ IsStore(store)
  BY LoginAssumption DEF TypeInv, TypeOK, Types
<1>1. ASSUME NEW a \in Attempts, Scan(a) PROVE Known(store, b)'
  <2>1. quick'[b] \/ (who'[b] = who[b] /\ quick'[b] = quick[b])
    BY <1>0, <1>1 DEF Scan
  <2>2. Polled(b) /\ store' = store
    BY <1>1 DEF Scan, Polled
  <2> QED BY <2>1, <2>2 DEF AccountInv, Known
<1>2. ASSUME NEW a \in Attempts, Poll(a) PROVE Known(store, b)'
  <2>1. who' = who /\ last' = last
    BY <1>2 DEF Poll, user
  <2>2. last # b
    BY <1>2 DEF Poll, InTurn, Running
  <2>3. b = a
    BY <1>0, <1>2, <2>1, <2>2 DEF Poll, Polled, InTurn, Running
  <2>4. pc'[a] # "err"
    BY <2>1, <2>2, <2>3 DEF Polled, Running
  <2>5. store' = [store EXCEPT !.uin = PolledUin(a)]
    BY <1>0, <1>2, <2>4 DEF Poll
  <2>6. store'["uin"].account = who[a] /\ store'["uin"].by = a
    BY <1>0, <2>5, UinWritten DEF IsStore, Stores, AllFields, PolledUin, Uin
  <2> QED BY <2>1, <2>3, <2>6 DEF Known
<1>3. ASSUME NEW a \in Attempts, FetchQrcode(a) PROVE Known(store, b)'
  <2>1. Polled(b)
    BY <1>0, <1>3 DEF FetchQrcode, Polled, Running
  <2>2. UNCHANGED <<who, quick, store>>
    BY <1>3 DEF FetchQrcode, user
  <2> QED BY <2>1, <2>2 DEF AccountInv, Known
<1>4. ASSUME NEW a \in Attempts,
             QueryAnswered(a) \/ StoreKey(a) \/ StoreTemp(a) \/ SendLogin(a) \/ Timeout(a)
      PROVE  Known(store, b)'
  <2>1. Polled(b)
    BY <1>0, <1>4 DEF QueryAnswered, StoreKey, StoreTemp, SendLogin, Timeout, TimeoutAt, Polled,
                      Running, history
  <2>2. UNCHANGED <<who, quick>> /\ store'.uin = store.uin
    <3>1. UNCHANGED <<who, quick>>
      BY <1>4 DEF QueryAnswered, StoreKey, StoreTemp, SendLogin, Timeout, user, history
    <3>2. \/ store' = store
          \/ store' = [store EXCEPT !["tgtgtKey"] = Confirmation(a)]
          \/ store' = [store EXCEPT !["tempPassword"] = Confirmation(a)]
      BY <1>4 DEF QueryAnswered, StoreKey, StoreTemp, SendLogin, Timeout
    <3>3. store'["uin"] = store["uin"]
      <4>1. CASE store' = store
        BY <4>1
      <4>2. CASE store' = [store EXCEPT !["tgtgtKey"] = Confirmation(a)]
        BY <1>0, <4>2, FieldWritten, FieldNames, ValueNames
      <4>3. CASE store' = [store EXCEPT !["tempPassword"] = Confirmation(a)]
        BY <1>0, <4>3, FieldWritten, FieldNames, ValueNames
      <4> QED BY <3>2, <4>1, <4>2, <4>3
    <3> QED BY <3>1, <3>3
  <2> QED BY <2>1, <2>2 DEF AccountInv, Known
<1>5. ASSUME NEW a \in Attempts, StoreField(a) PROVE Known(store, b)'
  <2>1. store'["uin"] = store["uin"] /\ Polled(b) /\ UNCHANGED <<who, quick>>
    BY <1>5, NextGroup DEF StoreField, Polled, user
  <2> QED BY <2>1 DEF AccountInv, Known
<1>6. ASSUME NEW a \in Attempts, Deliver(a) PROVE Known(store, b)'
  <2>1. Polled(b)
    BY <1>0, <1>6 DEF Deliver, Outcome, Polled, Running
  <2>2. UNCHANGED <<who, quick, store>>
    BY <1>6 DEF Deliver, user
  <2> QED BY <2>1, <2>2 DEF AccountInv, Known
<1>7. CASE Restart
  <2>1. last' = NoAttempt /\ pc'[b] \notin Running
    BY <1>0, <1>7 DEF Restart, Running, Over
  <2> QED BY <1>0, <2>1 DEF Polled
<1>8. ASSUME UNCHANGED vars \/ PacketKey \/ BeginSave \/ SaveField \/ EndSave
             \/ (\E h \in Heartbeats : Online(h) \/ Tick(h) \/ DropSender(h) \/ HeartbeatEnds(h))
             \/ (\E a \in Attempts : Confirm(a) \/ CheckUin(a) \/ Parse(a))
      PROVE  Known(store, b)'
  <2>1. UNCHANGED <<pc, last, who, quick, store>>
    BY <1>8 DEF vars, user, history, PacketKey, BeginSave, SaveField, EndSave, Online, Tick, DropSender,
                HeartbeatEnds, Confirm, CheckUin, Parse
  <2> QED BY <2>1 DEF AccountInv, Known, Polled
<1> QED BY <1>1, <1>2, <1>3, <1>4, <1>5, <1>6, <1>7, <1>8 DEF Next

LEMMA InTurnInit == Init => InTurn /\ AccountInv
BY LoginAssumption DEF Init, InTurn, AccountInv, Polled, Running

LEMMA InTurnAlways == Spec => []InTurn
BY InTurnInit, InTurnStep, TypeAlways, PTL DEF Spec

LEMMA AccountAlways == Spec => []AccountInv
BY InTurnInit, AccountStep, InTurnAlways, TypeAlways, PTL DEF Spec

(* After a login the uin is the one its own polling asked for last, that   *)
(* of the account that confirmed it, unless scan and confirmation fell     *)
(* into one round of the polling.                                          *)
THEOREM AccountKnown == Spec => []LoginKnowsAccount
<1>1. AccountInv => LoginKnowsAccount
  BY DEF AccountInv, Known, LoginKnowsAccount, Polled
<1> QED BY <1>1, AccountAlways, PTL

-----------------------------------------------------------------------------
(* The credentials.  While one answer is being stored, those it has        *)
(* reached are its own; a save that nothing is stored across reads what is *)
(* in the store; and what lies in the file is whole or unreadable.         *)
Whole(s) == \E v \in Values : \A f \in Credentials : s[f] = v

Untouched == \A a \in Attempts : Storing(a) => stored[a] \in {0, 1}

Reached(a) ==
    /\ stored[a] \in {2, 3} => store["tgt"] = Login(a) /\ store["d2"] = Login(a)
    /\ stored[a] = 3 => store["d2Key"] = Login(a)

OneStored ==
    ~mixed =>
        /\ \A a, b \in Attempts : Storing(a) /\ Storing(b) => a = b
        /\ \A a \in Attempts : Storing(a) => Reached(a)

SaverReads ==
    saver.at # 0 =>
        /\ Untouched
        /\ saver.at \in {2, 3} => \A f \in {"uid", "d2Key"} : saver.fields[f] = store[f]
        /\ saver.at = 3 => \A f \in {"d2", "tgt", "date"} : saver.fields[f] = store[f]

WholeInv ==
    /\ OneStored
    /\ ~mixed /\ ~torn =>
        /\ Untouched => Whole(store)
        /\ file = Unreadable \/ Whole(file)
        /\ SaverReads

LEMMA CredentialNames == Credentials = {"tgt", "d2", "d2Key", "uid", "date"}
BY DEF Credentials

LEMMA DefaultWhole == Whole(Default)
BY DefaultStore, FieldNames, ValueNames DEF Whole

LEMMA WholeInit == Init => WholeInv
BY DefaultWhole DEF Init, WholeInv, OneStored, SaverReads, Storing, NoSave

(* What changes nothing but fields that are no credentials.                *)
LEMMA SameCredentials ==
    ASSUME WholeInv, UNCHANGED <<stage, stored, file, saver, torn>>, mixed => mixed',
           mixed \in BOOLEAN, mixed' \in BOOLEAN, torn \in BOOLEAN,
           \A f \in Credentials : store'[f] = store[f]
    PROVE  WholeInv'
<1>1. Whole(store) => Whole(store')
  BY DEF Whole
<1>2. OneStored'
  BY CredentialNames DEF WholeInv, OneStored, Reached, Storing
<1>3. SaverReads => SaverReads'
  BY CredentialNames DEF SaverReads, Untouched, Storing
<1> QED BY <1>1, <1>2, <1>3 DEF WholeInv, Untouched, Storing, Whole

LEMMA WholeStep == TypeInv /\ WholeInv /\ [Next]_vars => WholeInv'
<1> SUFFICES ASSUME TypeInv, WholeInv, [Next]_vars PROVE WholeInv'
  OBVIOUS
<1>0. /\ IsStore(store) /\ stage \in [Attempts -> Stages] /\ stored \in [Attempts -> 0 .. 4]
      /\ mixed \in BOOLEAN /\ torn \in BOOLEAN /\ saver \in [at : 0 .. 3, fields : Stores]
  BY DEF TypeInv, Types
<1>1. ASSUME NEW a \in Attempts, Poll(a) \/ StoreKey(a) \/ StoreTemp(a) PROVE WholeInv'
  <2>1. \/ store' = store
        \/ store' = [store EXCEPT !["uin"] = PolledUin(a)]
        \/ store' = [store EXCEPT !["tgtgtKey"] = Confirmation(a)]
        \/ store' = [store EXCEPT !["tempPassword"] = Confirmation(a)]
    BY <1>1 DEF Poll, StoreKey, StoreTemp
  <2>2. PolledUin(a) \in Uins
    BY DEF TypeInv, TypeOK, PolledUin, Uin, Uins
  <2>3. \A f \in Credentials : f \in Fields /\ f # "tgtgtKey" /\ f # "tempPassword"
    BY CredentialNames, FieldNames
  <2>4. ASSUME NEW f \in Credentials PROVE store'[f] = store[f]
    <3>1. CASE store' = store
      BY <3>1
    <3>2. CASE store' = [store EXCEPT !["uin"] = PolledUin(a)]
      BY <1>0, <2>2, <2>3, <3>2, UinWritten
    <3>3. CASE store' = [store EXCEPT !["tgtgtKey"] = Confirmation(a)]
      BY <1>0, <2>3, <3>3, FieldWritten, FieldNames, ValueNames
    <3>4. CASE store' = [store EXCEPT !["tempPassword"] = Confirmation(a)]
      BY <1>0, <2>3, <3>4, FieldWritten, FieldNames, ValueNames
    <3> QED BY <2>1, <3>1, <3>2, <3>3, <3>4
  <2>5. UNCHANGED <<stage, stored, file, saver, torn>> /\ (mixed => mixed') /\ mixed' \in BOOLEAN
    BY <1>0, <1>1 DEF Poll, StoreKey, StoreTemp, disk, history
  <2> QED BY <1>0, <2>4, <2>5, SameCredentials
<1>2. ASSUME NEW a \in Attempts, SendLogin(a) \/ CheckUin(a) \/ Deliver(a) \/ Parse(a)
      PROVE  WholeInv'
  <2>1. /\ UNCHANGED <<store, stored, file, saver, torn>>
        /\ mixed' \in BOOLEAN /\ (mixed => mixed')
        /\ stage' = [stage EXCEPT ![a] = stage'[a]] /\ stage[a] # "storing"
    <3>1. CASE SendLogin(a)
      <4>1. stage[a] = "none"
        BY <3>1 DEF SendLogin, TypeInv, Progress, Begin
      <4> QED BY <1>0, <3>1, <4>1 DEF SendLogin, disk, history
    <3>2. CASE CheckUin(a)
      BY <1>0, <3>2 DEF CheckUin, disk, history
    <3>3. CASE Deliver(a)
      BY <1>0, <3>3 DEF Deliver, disk
    <3>4. CASE Parse(a)
      BY <1>0, <3>4 DEF Parse, disk
    <3> QED BY <1>2, <3>1, <3>2, <3>3, <3>4
  <2>2. CASE stage'[a] = "storing"
    <3>1. stage[a] = "checked" /\ stored[a] = 0
          /\ ((\E b \in Attempts \ {a} : Storing(b)) => mixed')
      <4>1. Parse(a)
        BY <1>0, <1>2, <2>1, <2>2 DEF SendLogin, CheckUin, Deliver
      <4> QED BY <1>0, <2>2, <4>1 DEF Parse, TypeInv, Progress
    <3>2. /\ \A b \in Attempts \ {a} : stage'[b] = stage[b]
          /\ stored' = stored /\ store' = store
      BY <1>0, <2>1
    <3>3. OneStored'
      <4>1. mixed' \/ \A b \in Attempts : Storing(b)' => b = a
        BY <3>1, <3>2 DEF Storing
      <4>2. Reached(a)'
        BY <3>1, <3>2 DEF Reached
      <4> QED BY <4>1, <4>2 DEF OneStored
    <3>4. Untouched' <=> Untouched
      <4>1. \A b \in Attempts \ {a} : Storing(b)' <=> Storing(b)
        BY <3>2 DEF Storing
      <4>2. ~Storing(a) /\ stored'[a] \in {0, 1}
        BY <3>1, <3>2 DEF Storing
      <4> QED BY <3>2, <4>1, <4>2 DEF Untouched
    <3> QED BY <1>0, <2>1, <3>3, <3>4 DEF WholeInv, Whole, SaverReads
  <2>3. CASE stage'[a] # "storing"
    <3>1. \A b \in Attempts : Storing(b)' <=> Storing(b)
      BY <1>0, <2>1, <2>3 DEF Storing
    <3>2. OneStored'
      BY <1>0, <2>1, <3>1 DEF WholeInv, OneStored, Reached
    <3>3. Untouched' <=> Untouched
      BY <2>1, <3>1 DEF Untouched
    <3> QED BY <1>0, <2>1, <3>2, <3>3 DEF WholeInv, Whole, SaverReads
  <2> QED BY <2>2, <2>3
<1>3. ASSUME NEW a \in Attempts, StoreField(a) PROVE WholeInv'
  <2>1. /\ stage[a] = "storing" /\ stored[a] \in {0, 1, 2, 3}
        /\ stored' = [stored EXCEPT ![a] = stored[a] + 1]
        /\ stage' = [stage EXCEPT ![a] = IF stored[a] = 3 THEN "stored" ELSE "storing"]
        /\ \A f \in Fields :
              store'[f] = IF f \in StoreOrder[stored[a] + 1] THEN Login(a) ELSE store[f]
    BY <1>3, NextGroup
  <2>2. /\ UNCHANGED <<file, saver, mixed>> /\ (torn => torn') /\ torn' \in BOOLEAN
        /\ saver.at # 0 => torn'
    BY <1>0, <1>3 DEF StoreField, disk
  <2>3. \A b \in Attempts \ {a} : (Storing(b)' <=> Storing(b)) /\ stored'[b] = stored[b]
    BY <1>0, <2>1 DEF Storing
  <2>4. ~mixed => \A b \in Attempts \ {a} : ~Storing(b)'
    BY <2>1, <2>3 DEF WholeInv, OneStored, Storing
  <2>5. CASE stored[a] = 0
    <3>1. \A f \in Credentials : store'[f] = store[f]
      BY <2>1, <2>5, StoredWhere, CredentialNames, FieldNames
    <3>2. stored'[a] = 1 /\ stage'[a] = "storing"
      BY <1>0, <2>1, <2>5
    <3>3. ~mixed => Untouched
      BY <1>0, <2>1, <2>3, <2>4, <2>5 DEF Untouched, Storing
    <3>4. Whole(store) => Whole(store')
      BY <3>1 DEF Whole
    <3>5. OneStored'
      BY <2>1, <2>2, <2>4, <3>2 DEF OneStored, Reached, Storing
    <3> QED BY <1>0, <2>2, <3>3, <3>4, <3>5 DEF WholeInv, Whole, SaverReads
  <2>6. CASE stored[a] \in {1, 2}
    <3>1. stored'[a] = stored[a] + 1 /\ stage'[a] = "storing"
      BY <1>0, <2>1, <2>6
    <3>2. ~mixed => Reached(a)'
      <4>1. CASE stored[a] = 1
        BY <2>1, <3>1, <4>1, StoredWhere, FieldNames DEF Reached
      <4>2. CASE stored[a] = 2
        BY <2>1, <3>1, <4>2, StoredWhere, FieldNames DEF Reached, WholeInv, OneStored, Storing
      <4> QED BY <2>6, <4>1, <4>2
    <3>3. OneStored'
      BY <2>1, <2>2, <2>4, <3>2 DEF OneStored, Storing
    <3>4. ~Untouched'
      BY <2>6, <3>1 DEF Untouched, Storing
    <3> QED BY <1>0, <2>2, <3>3, <3>4 DEF WholeInv, Whole, SaverReads
  <2>7. CASE stored[a] = 3
    <3>1. stage'[a] = "stored"
      BY <1>0, <2>1, <2>7
    <3>2. ~mixed => Whole(store')
      <4>1. StoreOrder[stored[a] + 1] = {"uid", "tempPassword", "date"}
        BY <2>7, StoredWhere
      <4>2. ~mixed => store["tgt"] = Login(a) /\ store["d2"] = Login(a) /\ store["d2Key"] = Login(a)
        BY <2>1, <2>7 DEF WholeInv, OneStored, Reached, Storing
      <4>3. ~mixed => \A f \in Credentials : store'[f] = Login(a)
        BY <2>1, <4>1, <4>2, CredentialNames, FieldNames
      <4> QED BY <4>3, ValueNames DEF Whole
    <3>3. OneStored'
      BY <2>2, <2>4, <3>1 DEF OneStored, Storing
    <3> QED BY <1>0, <2>2, <3>2, <3>3 DEF WholeInv, Whole, SaverReads
  <2> QED BY <2>1, <2>5, <2>6, <2>7
<1>4. CASE BeginSave
  <2>1. /\ UNCHANGED <<store, stage, stored, mixed>> /\ saver'.at = 1 /\ file' = Unreadable
        /\ torn' \in BOOLEAN /\ (torn => torn') /\ ((\E a \in Attempts : Storing(a)) => torn')
    BY <1>0, <1>4 DEF BeginSave, Unfinished
  <2>2. OneStored'
    BY <2>1 DEF WholeInv, OneStored, Reached, Storing
  <2>3. ASSUME ~torn' PROVE Untouched /\ Untouched'
    <3>1. \A a \in Attempts : ~Storing(a) /\ ~Storing(a)'
      BY <2>1, <2>3 DEF Storing
    <3> QED BY <3>1 DEF Untouched
  <2>4. ~torn' => SaverReads'
    BY <2>1, <2>3 DEF SaverReads
  <2> QED BY <1>0, <2>1, <2>2, <2>3, <2>4 DEF WholeInv, Whole
<1>5. CASE SaveField
  <2>1. /\ UNCHANGED <<store, stage, stored, mixed, torn>> /\ file' = Unreadable
    BY <1>5 DEF SaveField, Unfinished, history
  <2>2. /\ saver.at \in {1, 2} /\ saver'.at = saver.at + 1
        /\ \A f \in Fields :
              saver'.fields[f] = IF f \in SaveOrder[saver.at] THEN store[f] ELSE saver.fields[f]
    BY <1>5, NextSaved, FieldNames
  <2>3. SaverReads => SaverReads'
    <3>1. CASE saver.at = 1
      BY <2>1, <2>2, <3>1, StoredWhere, FieldNames DEF SaverReads, Untouched, Storing
    <3>2. CASE saver.at = 2
      BY <2>1, <2>2, <3>2, StoredWhere, FieldNames DEF SaverReads, Untouched, Storing
    <3> QED BY <2>2, <3>1, <3>2
  <2>4. OneStored'
    BY <2>1 DEF WholeInv, OneStored, Reached, Storing
  <2> QED BY <1>0, <2>1, <2>3, <2>4 DEF WholeInv, Whole, Untouched, Storing
<1>6. CASE EndSave
  <2>1. /\ UNCHANGED <<store, stage, stored, mixed, torn>> /\ saver'.at = 0 /\ saver.at = 3
        /\ file' = saver.fields \/ file' = file
    BY <1>0, <1>6, StoredFields DEF EndSave, history, NoSave
  <2>2. Whole(store) /\ SaverReads => Whole(saver.fields)
    BY <2>1, CredentialNames DEF Whole, SaverReads
  <2>3. OneStored'
    BY <2>1 DEF WholeInv, OneStored, Reached, Storing
  <2>4. SaverReads => Untouched
    BY <2>1 DEF SaverReads
  <2>5. Untouched' <=> Untouched
    BY <2>1 DEF Untouched, Storing
  <2>6. SaverReads'
    BY <2>1 DEF SaverReads
  <2> QED BY <1>0, <2>1, <2>2, <2>3, <2>4, <2>5, <2>6 DEF WholeInv, Whole
<1>7. CASE Restart
  <2>1. /\ store' = (IF file = Unreadable THEN Default ELSE file) /\ file' = store'
        /\ saver'.at = 0 /\ UNCHANGED <<mixed, torn>>
    BY <1>7 DEF Restart, NoSave
  <2>2. \A a \in Attempts : ~Storing(a)'
    BY <1>0, <1>7 DEF Restart, Parsing, Storing
  <2>3. OneStored' /\ SaverReads'
    BY <2>1, <2>2 DEF OneStored, SaverReads
  <2>4. file = Unreadable \/ Whole(file) => Whole(store')
    BY <2>1, DefaultWhole
  <2> QED BY <1>0, <2>1, <2>3, <2>4 DEF WholeInv
<1>8. ASSUME UNCHANGED vars \/ PacketKey
             \/ (\E h \in Heartbeats : Online(h) \/ Tick(h) \/ DropSender(h) \/ HeartbeatEnds(h))
             \/ (\E a \in Attempts : Scan(a) \/ Confirm(a) \/ FetchQrcode(a) \/ QueryAnswered(a) \/ Timeout(a))
      PROVE  WholeInv'
  <2>1. UNCHANGED <<store, stage, stored, file, saver, torn, mixed>>
    BY <1>8 DEF vars, disk, history, PacketKey, Online, Tick, DropSender, HeartbeatEnds,
                Scan, Confirm, FetchQrcode, QueryAnswered, Timeout
  <2> QED BY <1>0, <2>1, SameCredentials
<1> QED BY <1>1, <1>2, <1>3, <1>4, <1>5, <1>6, <1>7, <1>8 DEF Next

LEMMA WholeAlways == Spec => []WholeInv
BY WholeInit, WholeStep, TypeAlways, PTL DEF Spec

(* The uin beside them.  It is of the account of the attempt whose poll    *)
(* stored it last; credentials come only after a poll, which is over when  *)
(* the key store is saved.                                                 *)
OfItsAccount(s) ==
    \A a \in Attempts : s["uin"].by = a /\ ~quick[a] => s["uin"].account = who[a]
Fresh(s) == s["uin"].by = NoAttempt => \A f \in Credentials : s[f] = NoValue

(* The attempt has polled, and its answer may still be stored.             *)
Asking(a) == pc[a] \in {"query", "key", "temp", "send", "login"} \/ stage[a] \in {"sent", "checked", "storing"}

UinInv ==
    /\ OfItsAccount(store) /\ Fresh(store)
    /\ \A a \in Attempts : (Asking(a) => store["uin"].by # NoAttempt) /\ (store["uin"].by = a => pc[a] # "idle")
    /\ file # Unreadable =>
          OfItsAccount(file) /\ Fresh(file) /\ \A a \in Attempts : file["uin"].by = a => pc[a] \in Over
    /\ saver.at # 0 => store["uin"].by # NoAttempt /\ \A a \in Attempts : pc[a] \notin Running
    /\ saver.at \in {2, 3} => saver.fields["uin"] = store["uin"]

LEMMA UinInit == Init => UinInv
<1> SUFFICES ASSUME Init PROVE UinInv
  OBVIOUS
<1>1. OfItsAccount(Default) /\ Fresh(Default) /\ \A a \in Attempts : Default["uin"].by # a
  BY DefaultStore, FieldNames, LoginAssumption DEF OfItsAccount, Fresh
<1>2. \A a \in Attempts : ~Asking(a)
  BY DEF Init, Asking
<1>3. store = Default /\ file = Default /\ saver.at = 0
  BY DEF Init, NoSave
<1> QED BY <1>1, <1>2, <1>3 DEF UinInv

(* A step that leaves the uin, and of the credentials at least the empty   *)
(* ones, as they are.                                                      *)
LEMMA SameUin ==
    ASSUME UinInv, UNCHANGED <<who, quick, file, saver>>, store'["uin"] = store["uin"],
           Fresh(store) => Fresh(store'),
           \A a \in Attempts : Asking(a)' => Asking(a),
           \A a \in Attempts : pc'[a] = "idle" => pc[a] = "idle",
           \A a \in Attempts : pc[a] \in Over => pc'[a] \in Over,
           saver.at # 0 => \A a \in Attempts : pc[a] \notin Running => pc'[a] \notin Running
    PROVE  UinInv'
<1>1. OfItsAccount(store)' /\ Fresh(store)'
  BY DEF UinInv, OfItsAccount, Fresh
<1>2. file # Unreadable => OfItsAccount(file)' /\ Fresh(file)' /\ \A a \in Attempts : file["uin"].by = a => pc'[a] \in Over
  BY DEF UinInv, OfItsAccount, Fresh
<1> QED BY <1>1, <1>2 DEF UinInv

LEMMA UinStep == TypeInv /\ InTurn /\ UinInv /\ [Next]_vars => UinInv'
<1> SUFFICES ASSUME TypeInv, InTurn, UinInv, [Next]_vars PROVE UinInv'
  OBVIOUS
<1>0. /\ IsStore(store) /\ stage \in [Attempts -> Stages] /\ quick \in [Attempts -> BOOLEAN]
      /\ pc \in [Attempts -> {"idle"} \cup Running \cup Over] /\ NoAttempt \notin Attempts
      /\ who \in [Attempts -> Accounts \cup {NoAccount}] /\ saver \in [at : 0 .. 3, fields : Stores]
  BY LoginAssumption DEF TypeInv, Types, TypeOK
<1>1. ASSUME NEW a \in Attempts, Scan(a) PROVE UinInv'
  <2>1. /\ who' = [who EXCEPT ![a] = who'[a]] /\ quick' = [quick EXCEPT ![a] = TRUE]
        /\ UNCHANGED <<store, pc, stage, file, saver>>
    BY <1>0, <1>1 DEF Scan, disk
  <2>2. \A b \in Attempts : ~quick'[b] => ~quick[b] /\ who'[b] = who[b]
    BY <1>0, <2>1
  <2>3. OfItsAccount(store)' /\ Fresh(store)' /\ (file # Unreadable => OfItsAccount(file)' /\ Fresh(file)')
    BY <2>1, <2>2 DEF UinInv, OfItsAccount, Fresh
  <2> QED BY <2>1, <2>3 DEF UinInv, Asking
<1>2. ASSUME NEW a \in Attempts, Poll(a) PROVE UinInv'
  <2>1. /\ pc[a] = "poll" /\ pc' = [pc EXCEPT ![a] = pc'[a]] /\ pc'[a] \in {"query", "err"}
        /\ UNCHANGED <<who, stage, file, saver>>
        /\ \/ /\ pc'[a] = "query" /\ store' = [store EXCEPT !["uin"] = PolledUin(a)]
              /\ quick' = [quick EXCEPT ![a] = FALSE]
           \/ pc'[a] = "err" /\ UNCHANGED <<store, quick>>
    BY <1>0, <1>2 DEF Poll, user, disk
  <2>2. saver.at = 0
    BY <1>0, <2>1 DEF UinInv, Running
  <2>3. CASE pc'[a] = "err"
    <3>1. UNCHANGED <<store, quick>>
      BY <2>1, <2>3
    <3>2. \A b \in Attempts : (Asking(b)' => Asking(b)) /\ (pc'[b] = "idle" => pc[b] = "idle")
                             /\ (pc[b] \in Over => pc'[b] \in Over)
      BY <1>0, <2>1, <2>3 DEF Asking, Over
    <3> QED BY <2>1, <2>2, <3>1, <3>2, SameUin
  <2>4. CASE pc'[a] = "query"
    <3>1. store' = [store EXCEPT !["uin"] = PolledUin(a)] /\ quick' = [quick EXCEPT ![a] = FALSE]
      BY <2>1, <2>4
    <3>2. PolledUin(a) \in Uins /\ PolledUin(a).by = a /\ PolledUin(a).account = who[a]
      BY <1>0 DEF PolledUin, Uin, Uins
    <3>3. store'["uin"] = PolledUin(a)
      BY <1>0, <3>1, <3>2, UinWritten
    <3>4. OfItsAccount(store)' /\ Fresh(store)'
      BY <1>0, <2>1, <3>2, <3>3 DEF OfItsAccount, Fresh
    <3>5. file # Unreadable => file["uin"].by # a
      BY <2>1 DEF UinInv, Over
    <3>6. \A b \in Attempts \ {a} : quick'[b] = quick[b] /\ pc'[b] = pc[b]
      BY <1>0, <2>1, <3>1
    <3>7. file # Unreadable => OfItsAccount(file)' /\ Fresh(file)'
                               /\ \A b \in Attempts : file["uin"].by = b => pc'[b] \in Over
      BY <2>1, <3>5, <3>6 DEF UinInv, OfItsAccount, Fresh
    <3>8. \A b \in Attempts : store'["uin"].by = b => pc'[b] # "idle"
      BY <2>4, <3>2, <3>3
    <3> QED BY <1>0, <2>1, <2>2, <3>2, <3>3, <3>4, <3>7, <3>8 DEF UinInv
  <2> QED BY <2>1, <2>3, <2>4
<1>3. ASSUME NEW a \in Attempts, FetchQrcode(a) PROVE UinInv'
  <2>1. /\ UNCHANGED <<who, quick, file, saver, store, stage>> /\ saver.at = 0
        /\ pc[a] = "idle" /\ pc' = [pc EXCEPT ![a] = pc'[a]] /\ pc'[a] \in {"poll", "err"}
    BY <1>0, <1>3 DEF FetchQrcode, user, disk
  <2>2. \A b \in Attempts : (Asking(b)' => Asking(b)) /\ (pc'[b] = "idle" => pc[b] = "idle")
                           /\ (pc[b] \in Over => pc'[b] \in Over)
    BY <1>0, <2>1 DEF Asking, Over
  <2> QED BY <2>1, <2>2, SameUin
<1>4. ASSUME NEW a \in Attempts,
             QueryAnswered(a) \/ StoreKey(a) \/ StoreTemp(a) \/ SendLogin(a) \/ Timeout(a)
      PROVE  UinInv'
  <2>1. /\ UNCHANGED <<who, quick, file, saver>> /\ pc[a] \in Running
        /\ Asking(a) \/ pc'[a] = "timeout"
        /\ pc' = [pc EXCEPT ![a] = pc'[a]] /\ pc'[a] # "idle"
        /\ \A b \in Attempts \ {a} : stage'[b] = stage[b]
        /\ pc'[a] = "timeout" => stage' = stage
    BY <1>0, <1>4 DEF QueryAnswered, StoreKey, StoreTemp, SendLogin, Timeout, TimeoutAt, Running, Asking,
                      user, disk, history
  <2>2. \/ store' = store
        \/ store' = [store EXCEPT !["tgtgtKey"] = Confirmation(a)]
        \/ store' = [store EXCEPT !["tempPassword"] = Confirmation(a)]
    BY <1>4 DEF QueryAnswered, StoreKey, StoreTemp, SendLogin, Timeout
  <2>3. store'["uin"] = store["uin"] /\ \A f \in Credentials : store'[f] = store[f]
    <3>1. CASE store' = store
      BY <3>1
    <3>2. CASE store' = [store EXCEPT !["tgtgtKey"] = Confirmation(a)]
      BY <1>0, <3>2, FieldWritten, FieldNames, CredentialNames, ValueNames
    <3>3. CASE store' = [store EXCEPT !["tempPassword"] = Confirmation(a)]
      BY <1>0, <3>3, FieldWritten, FieldNames, CredentialNames, ValueNames
    <3> QED BY <2>2, <3>1, <3>2, <3>3
  <2>4. Fresh(store) => Fresh(store')
    BY <2>3 DEF Fresh
  <2>5. \A b \in Attempts : (Asking(b)' => Asking(b)) /\ (pc'[b] = "idle" => pc[b] = "idle")
                           /\ (pc[b] \in Over => pc'[b] \in Over)
    BY <1>0, <2>1 DEF Asking, Over, Running
  <2>6. saver.at = 0
    BY <2>1 DEF UinInv
  <2> QED BY <2>1, <2>3, <2>4, <2>5, <2>6, SameUin
<1>5. ASSUME NEW a \in Attempts, StoreField(a) PROVE UinInv'
  <2>1. /\ stage[a] = "storing" /\ store'["uin"] = store["uin"] /\ UNCHANGED <<who, quick, file, saver, pc>>
        /\ \A b \in Attempts \ {a} : stage'[b] = stage[b]
    BY <1>0, <1>5, NextGroup DEF StoreField, user, disk
  <2>2. Asking(a) /\ \A b \in Attempts : Asking(b)' => Asking(b)
    BY <2>1 DEF Asking
  <2>3. Fresh(store')
    BY <2>1, <2>2 DEF UinInv, Fresh
  <2> QED BY <2>1, <2>2, <2>3, SameUin
<1>6. ASSUME NEW a \in Attempts, CheckUin(a) \/ Parse(a) \/ Deliver(a) PROVE UinInv'
  <2>1. /\ UNCHANGED <<who, quick, file, saver, store>>
        /\ \A b \in Attempts \ {a} : stage'[b] = stage[b] /\ pc'[b] = pc[b]
        /\ pc'[a] = pc[a] \/ (pc[a] = "login" /\ pc'[a] \in {"ok", "err"})
        /\ stage'[a] \in {"kept", "lost", "refused"} \/ stage[a] \in {"sent", "checked"}
    <3>1. CASE CheckUin(a)
      BY <1>0, <3>1 DEF CheckUin, user, disk, history
    <3>2. CASE Parse(a)
      BY <1>0, <3>2 DEF Parse, user, disk
    <3>3. CASE Deliver(a)
      BY <1>0, <3>3 DEF Deliver, Outcome, user, disk
    <3> QED BY <1>6, <3>1, <3>2, <3>3
  <2>2. \A b \in Attempts : (Asking(b)' => Asking(b)) /\ (pc'[b] = "idle" => pc[b] = "idle")
                           /\ (pc[b] \in Over => pc'[b] \in Over)
                           /\ (pc[b] \notin Running => pc'[b] \notin Running)
    BY <2>1 DEF Asking, Over, Running
  <2> QED BY <2>1, <2>2, SameUin
<1>7. CASE BeginSave
  <2>1. /\ UNCHANGED <<who, quick, store, pc, stage>> /\ saver'.at = 1 /\ file' = Unreadable
        /\ store["d2"] # NoValue /\ \A a \in Attempts : pc[a] \notin Running
    BY <1>7 DEF BeginSave, Unfinished, user, IsExpired
  <2>2. store["uin"].by # NoAttempt
    BY <2>1, CredentialNames DEF UinInv, Fresh
  <2> QED BY <2>1, <2>2 DEF UinInv, OfItsAccount, Fresh, Asking
<1>8. CASE SaveField
  <2>1. /\ UNCHANGED <<who, quick, store, pc, stage>> /\ file' = Unreadable
    BY <1>8 DEF SaveField, Unfinished, user, history
  <2>2. /\ saver.at \in {1, 2} /\ saver'.at = saver.at + 1
        /\ saver'.fields["uin"] = IF "uin" \in SaveOrder[saver.at] THEN store["uin"] ELSE saver.fields["uin"]
    BY <1>8, NextSaved, FieldNames
  <2>3. saver'.fields["uin"] = store["uin"]
    BY <2>2, StoredWhere DEF UinInv
  <2> QED BY <2>1, <2>2, <2>3 DEF UinInv, OfItsAccount, Fresh, Asking
<1>9. CASE EndSave
  <2>1. /\ UNCHANGED <<who, quick, store, pc, stage>> /\ saver'.at = 0 /\ saver.at = 3
        /\ file' = saver.fields \/ file' = file
    BY <1>0, <1>9, StoredFields DEF EndSave, user, history, NoSave
  <2>2. /\ saver.fields["uin"] = store["uin"] /\ store["uin"].by # NoAttempt
        /\ \A a \in Attempts : store["uin"].by = a => pc[a] \in Over
    BY <1>0, <2>1 DEF UinInv
  <2>3. /\ OfItsAccount(saver.fields) /\ Fresh(saver.fields)
        /\ \A a \in Attempts : saver.fields["uin"].by = a => pc[a] \in Over
    BY <2>2 DEF UinInv, OfItsAccount, Fresh
  <2> QED BY <2>1, <2>3 DEF UinInv, OfItsAccount, Fresh, Asking
<1>10. CASE Restart
  <2>1. /\ store' = (IF file = Unreadable THEN Default ELSE file) /\ file' = store'
        /\ saver'.at = 0 /\ UNCHANGED <<who, quick>>
    BY <1>10 DEF Restart, NoSave, user
  <2>2. \A a \in Attempts : /\ pc'[a] \notin Running /\ (pc[a] \in Over => pc'[a] \in Over)
                           /\ stage'[a] \notin {"sent", "checked", "storing"}
    BY <1>0, <1>10 DEF Restart, Parsing, Storing, Running, Over
  <2>3. \A a \in Attempts : ~Asking(a)'
    BY <2>2 DEF Asking, Running
  <2>4. OfItsAccount(store') /\ Fresh(store') /\ \A a \in Attempts : store'["uin"].by = a => pc[a] \in Over
    <3>1. CASE file = Unreadable
      BY <1>0, <2>1, <3>1, DefaultStore, FieldNames DEF OfItsAccount, Fresh
    <3>2. CASE file # Unreadable
      BY <2>1, <3>2 DEF UinInv
    <3> QED BY <3>1, <3>2
  <2>5. \A a \in Attempts : store'["uin"].by = a => pc'[a] \in Over /\ pc'[a] # "idle"
    BY <2>2, <2>4 DEF Over
  <2> QED BY <2>1, <2>3, <2>4, <2>5 DEF UinInv, OfItsAccount, Fresh
<1>11. ASSUME UNCHANGED vars \/ PacketKey
              \/ (\E h \in Heartbeats : Online(h) \/ Tick(h) \/ DropSender(h) \/ HeartbeatEnds(h))
              \/ (\E a \in Attempts : Confirm(a))
       PROVE  UinInv'
  <2>1. UNCHANGED <<who, quick, store, stage, pc, file, saver>>
    BY <1>11 DEF vars, user, disk, history, PacketKey, Online, Tick, DropSender, HeartbeatEnds, Confirm
  <2>2. \A a \in Attempts : Asking(a)' <=> Asking(a)
    BY <2>1 DEF Asking
  <2> QED BY <2>1, <2>2, SameUin
<1> QED BY <1>1, <1>2, <1>3, <1>4, <1>5, <1>6, <1>7, <1>8, <1>9, <1>10, <1>11 DEF Next

LEMMA UinAlways == Spec => []UinInv
BY UinInit, UinStep, TypeAlways, InTurnAlways, PTL DEF Spec

(* Whenever no answer is being stored, the credentials are those of one    *)
(* login, also after a crash at any point of a save, and beside them is    *)
(* the uin of that login's account, unless another attempt has polled      *)
(* since.                                                                  *)
THEOREM CredentialsWhole == Spec => []WholeLogin
<1>1. TypeInv /\ WholeInv /\ UinInv => WholeLogin
  <2> SUFFICES ASSUME TypeInv, WholeInv, UinInv, \A a \in Attempts : ~Storing(a), ~mixed, ~torn
               PROVE  \E v \in Values :
                         /\ \A f \in Credentials : store[f] = v
                         /\ \A a \in Attempts : v = Login(a) => UinOfLogin(a)
    BY DEF WholeLogin
  <2>1. PICK v \in Values : \A f \in Credentials : store[f] = v
    BY DEF WholeInv, Whole, Untouched
  <2>2. ASSUME NEW a \in Attempts, v = Login(a) PROVE UinOfLogin(a)
    <3>1. store["d2"] # NoValue
      BY <2>1, <2>2, CredentialNames DEF Login, NoValue
    <3>2. store["uin"].by \in Attempts
      BY <3>1, CredentialNames DEF UinInv, Fresh, TypeInv, Types, IsStore, Uins
    <3> QED BY <3>2 DEF UinOfLogin, UinInv, OfItsAccount, TypeInv, Types
  <2> QED BY <2>1, <2>2
<1> QED BY <1>1, WholeAlways, UinAlways, TypeAlways, PTL

-----------------------------------------------------------------------------
(* The packets of a login.  From its confirmation on, an attempt owns the  *)
(* key that login answers are read with, so that no other answer can be    *)
(* stored; and a packet begun while a login is the last one carries what   *)
(* that login has stored.                                                  *)
Owner(a) == pc[a] \in {"temp", "send", "login"} \/ last = a

OwnKey(a) ==
    /\ store["tgtgtKey"] \in {Confirmation(a), Login(a)}
    /\ \A b \in Attempts \ {a} : ~Storing(b)
    /\ stage[a] \in {"stored", "kept"} => store["d2"] = Login(a) /\ store["d2Key"] = Login(a)

OwnPacket ==
    pkt # NoPacket /\ pkt.since = last /\ last # NoAttempt /\ pkt.during = {}
        => pkt.flag = 1 /\ pkt.d2 = Login(last)

PacketInv ==
    /\ pkt.since \in Attempts => pc[pkt.since] = "ok"
    /\ ~mixed => OwnPacket /\ \A a \in Attempts : Owner(a) => OwnKey(a)

LEMMA ValuesDiffer ==
    \A a, b : Login(a) # Confirmation(b) /\ Login(a) # NoValue /\ (a # b => Confirmation(a) # Confirmation(b))
BY DEF Login, Confirmation, NoValue

LEMMA PacketInit == Init => PacketInv
<1> SUFFICES ASSUME Init PROVE PacketInv
  OBVIOUS
<1>1. pkt = NoPacket /\ pkt.since = NoAttempt
  BY DEF Init, NoPacket
<1>2. \A a \in Attempts : ~Owner(a)
  BY LoginAssumption DEF Init, Owner
<1> QED BY <1>1, <1>2, LoginAssumption DEF PacketInv, OwnPacket

(* A step that leaves what the invariant speaks of as it is.               *)
LEMMA SamePackets ==
    ASSUME PacketInv, UNCHANGED <<pkt, last, mixed>>,
           \A a \in Attempts : pc[a] = "ok" => pc'[a] = "ok",
           \A a \in Attempts : Owner(a)' => Owner(a),
           \A a \in Attempts : Owner(a) /\ OwnKey(a) => OwnKey(a)'
    PROVE  PacketInv'
<1>1. OwnPacket' <=> OwnPacket
  BY DEF OwnPacket
<1> QED BY <1>1 DEF PacketInv

LEMMA PacketStep ==
    TypeInv /\ OutcomeInv /\ InTurn /\ WholeInv /\ PacketInv /\ [Next]_vars => PacketInv'
<1> SUFFICES ASSUME TypeInv, OutcomeInv, InTurn, WholeInv, PacketInv, [Next]_vars PROVE PacketInv'
  OBVIOUS
<1>0. /\ IsStore(store) /\ stage \in [Attempts -> Stages] /\ stored \in [Attempts -> 0 .. 4]
      /\ pc \in [Attempts -> {"idle"} \cup Running \cup Over] /\ last \in Attempts \cup {NoAttempt}
      /\ NoAttempt \notin Attempts
      /\ pkt \in [by : Heartbeats \cup {NoAttempt}, since : Attempts \cup {NoAttempt},
                  flag : 0 .. 2, d2 : Values, during : SUBSET Attempts]
  BY LoginAssumption DEF TypeInv, TypeOK, Types
<1>a. \A a \in Attempts : last = a => pc[a] = "ok" /\ stage[a] = "kept"
  BY DEF InTurn, OutcomeInv
<1>1. ASSUME NEW c \in Attempts, FetchQrcode(c) PROVE PacketInv'
  <2>1. /\ last' = NoAttempt /\ UNCHANGED <<pkt, mixed>>
        /\ \A a \in Attempts : pc[a] = "ok" => pc'[a] = "ok"
        /\ \A a \in Attempts : pc[a] \notin Running /\ pc'[a] \notin {"temp", "send", "login"}
    BY <1>0, <1>1 DEF FetchQrcode, Running
  <2>2. \A a \in Attempts : ~Owner(a)'
    BY <1>0, <2>1 DEF Owner
  <2> QED BY <1>0, <2>1, <2>2 DEF PacketInv, OwnPacket
<1>2. ASSUME NEW c \in Attempts, Poll(c) PROVE PacketInv'
  <2>1. /\ UNCHANGED <<pkt, last, mixed, stage>> /\ pc[c] = "poll"
        /\ pc' = [pc EXCEPT ![c] = pc'[c]] /\ pc'[c] \in {"query", "err"}
    BY <1>0, <1>2 DEF Poll
  <2>2. \A a \in Attempts : ~Owner(a)
    BY <1>0, <2>1 DEF Owner, InTurn, Running
  <2>3. \A a \in Attempts : ~Owner(a)'
    BY <1>0, <2>1, <2>2 DEF Owner
  <2> QED BY <1>0, <2>1, <2>2, <2>3, SamePackets
<1>3. ASSUME NEW c \in Attempts, StoreKey(c) PROVE PacketInv'
  <2>1. /\ UNCHANGED <<pkt, last, stage>> /\ pc[c] = "key" /\ pc' = [pc EXCEPT ![c] = "temp"]
        /\ store' = [store EXCEPT !["tgtgtKey"] = Confirmation(c)]
        /\ (~mixed' => ~mixed /\ \A b \in Attempts \ {c} : ~Parsing(b))
    BY <1>3 DEF StoreKey
  <2>2. last \notin Attempts /\ \A a \in Attempts \ {c} : pc'[a] \notin Running
    BY <1>0, <2>1 DEF InTurn, Running
  <2>3. \A a \in Attempts : Owner(a)' => a = c
    BY <2>1, <2>2 DEF Owner, Running
  <2>4. stage[c] = "none"
    BY <2>1 DEF TypeInv, Progress, Begin
  <2>5. store'["tgtgtKey"] = Confirmation(c)
    BY <1>0, <2>1, FieldWritten, FieldNames, ValueNames
  <2>6. ~mixed' => OwnKey(c)'
    BY <2>1, <2>4, <2>5 DEF OwnKey, Parsing, Storing
  <2>7. OwnPacket'
    BY <1>0, <2>1, <2>2 DEF OwnPacket
  <2>8. \A a \in Attempts : pc[a] = "ok" => pc'[a] = "ok"
    BY <1>0, <2>1
  <2> QED BY <1>0, <2>1, <2>3, <2>6, <2>7, <2>8 DEF PacketInv
<1>4. ASSUME NEW c \in Attempts, StoreTemp(c) PROVE PacketInv'
  <2>1. /\ UNCHANGED <<pkt, last, mixed, stage>> /\ pc[c] = "temp" /\ pc' = [pc EXCEPT ![c] = "send"]
        /\ store' = [store EXCEPT !["tempPassword"] = Confirmation(c)]
    BY <1>4 DEF StoreTemp, history
  <2>2. \A f \in Fields \ {"tempPassword"} : store'[f] = store[f]
    BY <1>0, <2>1, FieldWritten, FieldNames, ValueNames
  <2>3. \A a \in Attempts : Owner(a)' <=> Owner(a)
    BY <1>0, <2>1 DEF Owner
  <2>4. \A a \in Attempts : OwnKey(a) => OwnKey(a)'
    BY <2>1, <2>2, FieldNames DEF OwnKey, Storing
  <2>5. \A a \in Attempts : pc[a] = "ok" => pc'[a] = "ok"
    BY <1>0, <2>1
  <2> QED BY <2>1, <2>3, <2>4, <2>5, SamePackets
<1>5. ASSUME NEW c \in Attempts, SendLogin(c) \/ CheckUin(c) \/ Parse(c)
      PROVE  PacketInv'
  <2>1. /\ UNCHANGED <<pkt, last, store>> /\ (mixed => mixed')
        /\ stage' = [stage EXCEPT ![c] = stage'[c]]
        /\ stage'[c] \in {"none", "sent", "checked", "lost", "refused", "storing"}
        /\ stage'[c] = "storing" => Parse(c)
        /\ \A a \in Attempts : (pc[a] = "ok" => pc'[a] = "ok") /\ (Owner(a)' => Owner(a))
    <3>1. CASE SendLogin(c)
      <4>1. stage[c] = "none"
        BY <3>1 DEF SendLogin, TypeInv, Progress, Begin
      <4> QED BY <1>0, <3>1, <4>1 DEF SendLogin, history, Owner
    <3>2. CASE CheckUin(c)
      BY <1>0, <3>2 DEF CheckUin, history, Owner
    <3>3. CASE Parse(c)
      <4>1. UNCHANGED <<pc, pkt, last, store>>
        BY <3>3 DEF Parse
      <4>2. mixed => mixed'
        BY <3>3 DEF Parse
      <4>3. /\ stage' = [stage EXCEPT ![c] = stage'[c]]
            /\ stage'[c] \in {"lost", "refused", "storing"}
        BY <1>0, <3>3 DEF Parse
      <4> QED BY <3>3, <4>1, <4>2, <4>3 DEF Owner
    <3> QED BY <1>5, <3>1, <3>2, <3>3
  <2>2. stage'[c] = "storing" => store["tgtgtKey"] = Confirmation(c)
    BY <1>0, <2>1 DEF Parse
  <2>3. ASSUME NEW a \in Attempts, Owner(a), OwnKey(a)
        PROVE  OwnKey(a)'
    <3>1. CASE a = c
      BY <1>0, <2>1, <2>3, <3>1 DEF OwnKey, Storing
    <3>2. CASE a # c
      <4>1. store["tgtgtKey"] # Confirmation(c)
        BY <2>3, <3>2, ValuesDiffer DEF OwnKey
      <4> QED BY <1>0, <2>1, <2>2, <2>3, <3>2, <4>1 DEF OwnKey, Storing
    <3> QED BY <3>1, <3>2
  <2>4. OwnPacket' <=> OwnPacket
    BY <2>1 DEF OwnPacket
  <2> QED BY <1>0, <2>1, <2>3, <2>4 DEF PacketInv
<1>6. ASSUME NEW c \in Attempts, StoreField(c) PROVE PacketInv'
  <2>1. /\ stage[c] = "storing" /\ stored[c] \in {0, 1, 2, 3}
        /\ stage' = [stage EXCEPT ![c] = IF stored[c] = 3 THEN "stored" ELSE "storing"]
        /\ \A f \in Fields :
              store'[f] = IF f \in StoreOrder[stored[c] + 1] THEN Login(c) ELSE store[f]
    BY <1>6, NextGroup
  <2>2. /\ UNCHANGED <<pc, last, mixed>>
        /\ pkt' = IF pkt = NoPacket THEN pkt ELSE [pkt EXCEPT !.during = @ \cup {c}]
    BY <1>6 DEF StoreField
  <2>3. pkt'.since = pkt.since /\ (pkt' = NoPacket \/ pkt'.during # {})
    BY <1>0, <2>2
  <2>4. OwnPacket'
    BY <2>3 DEF OwnPacket
  <2>5. ASSUME NEW a \in Attempts, Owner(a), OwnKey(a), ~mixed
        PROVE  OwnKey(a)'
    <3>1. a = c
      BY <2>1, <2>5 DEF OwnKey, Storing
    <3>2. store'["tgtgtKey"] \in {Confirmation(a), Login(a)}
      BY <2>1, <2>5, <3>1, FieldNames DEF OwnKey
    <3>3. \A b \in Attempts \ {a} : ~Storing(b)'
      BY <1>0, <2>1, <2>5, <3>1 DEF OwnKey, Storing
    <3>4. CASE stored[c] = 3
      <4>1. Reached(c)
        BY <2>1, <2>5 DEF WholeInv, OneStored, Storing
      <4>2. StoreOrder[stored[c] + 1] = {"uid", "tempPassword", "date"}
        BY <3>4, StoredWhere
      <4>3. store'["d2"] = Login(a) /\ store'["d2Key"] = Login(a)
        BY <2>1, <3>1, <3>4, <4>1, <4>2, FieldNames DEF Reached
      <4> QED BY <3>2, <3>3, <4>3 DEF OwnKey
    <3>5. CASE stored[c] # 3
      <4>1. stage'[a] = "storing"
        BY <1>0, <2>1, <3>1, <3>5
      <4> QED BY <3>2, <3>3, <4>1 DEF OwnKey
    <3> QED BY <3>4, <3>5
  <2>6. \A a \in Attempts : Owner(a)' <=> Owner(a)
    BY <2>2 DEF Owner
  <2> QED BY <2>2, <2>3, <2>4, <2>5, <2>6 DEF PacketInv
<1>7. ASSUME NEW c \in Attempts, Deliver(c) PROVE PacketInv'
  <2>1. /\ UNCHANGED <<pkt, store, mixed>> /\ stage[c] \in {"stored", "refused"}
        /\ stage' = [stage EXCEPT ![c] = IF stage[c] = "stored" THEN "kept" ELSE "lost"]
        /\ \/ pc' = pc /\ last' = last
           \/ /\ pc[c] = "login" /\ pc' = [pc EXCEPT ![c] = pc'[c]]
              /\ last' \in {last, c}
    BY <1>7 DEF Deliver, Outcome
  <2>2. \A a \in Attempts : (Owner(a)' => Owner(a)) /\ (pc[a] = "ok" => pc'[a] = "ok")
    BY <1>0, <2>1 DEF Owner
  <2>3. \A a \in Attempts : OwnKey(a) => OwnKey(a)'
    BY <1>0, <2>1 DEF OwnKey, Storing
  <2>4. pc[c] = "login" => pkt.since # c
    BY DEF PacketInv
  <2>5. OwnPacket => OwnPacket'
    BY <2>1, <2>4 DEF OwnPacket
  <2> QED BY <1>0, <2>1, <2>2, <2>3, <2>5 DEF PacketInv
<1>8. ASSUME NEW h \in Heartbeats, Tick(h) PROVE PacketInv'
  <2>1. UNCHANGED <<pc, last, mixed, store, stage>> /\ pkt' = Begun(h)
    BY <1>8 DEF Tick, history
  <2>2. /\ pkt'.since = last /\ pkt'.d2 = store["d2"]
        /\ pkt'.flag = IF store["d2"] = NoValue THEN 2 ELSE 1
    BY <2>1 DEF Begun
  <2>3. ~mixed /\ last # NoAttempt => store["d2"] = Login(last)
    BY <1>0, <1>a DEF PacketInv, Owner, OwnKey
  <2>4. ~mixed => OwnPacket'
    BY <2>1, <2>2, <2>3, ValuesDiffer DEF OwnPacket
  <2>5. \A a \in Attempts : (Owner(a)' <=> Owner(a)) /\ (OwnKey(a)' <=> OwnKey(a))
    BY <2>1 DEF Owner, OwnKey, Storing
  <2> QED BY <1>a, <2>1, <2>2, <2>4, <2>5 DEF PacketInv
<1>9. ASSUME PacketKey \/ Restart PROVE PacketInv'
  <2>1. pkt' = NoPacket /\ pkt'.since \notin Attempts
    BY <1>0, <1>9 DEF PacketKey, Restart, NoPacket
  <2>2. CASE PacketKey
    <3>1. UNCHANGED <<pc, last, mixed, store, stage>>
      BY <2>2 DEF PacketKey, history
    <3>2. \A a \in Attempts : (Owner(a)' <=> Owner(a)) /\ (OwnKey(a)' <=> OwnKey(a))
      BY <3>1 DEF Owner, OwnKey, Storing
    <3> QED BY <2>1, <3>1, <3>2 DEF PacketInv, OwnPacket
  <2>3. CASE Restart
    <3>1. \A a \in Attempts : ~Owner(a)'
      BY <1>0, <2>3 DEF Restart, Owner, Running, Over
    <3> QED BY <2>1, <3>1 DEF PacketInv, OwnPacket
  <2> QED BY <1>9, <2>2, <2>3
<1>10. ASSUME NEW c \in Attempts, QueryAnswered(c) \/ Timeout(c) PROVE PacketInv'
  <2>1. /\ UNCHANGED <<pkt, last, mixed, store, stage>>
        /\ pc[c] \in {"poll", "query", "login"}
        /\ pc' = [pc EXCEPT ![c] = pc'[c]] /\ pc'[c] \in {"key", "poll", "err", "timeout"}
    BY <1>0, <1>10 DEF QueryAnswered, Timeout, TimeoutAt, history
  <2>2. \A a \in Attempts : (Owner(a)' => Owner(a)) /\ (pc[a] = "ok" => pc'[a] = "ok")
    BY <1>0, <2>1 DEF Owner
  <2>3. \A a \in Attempts : OwnKey(a) => OwnKey(a)'
    BY <2>1 DEF OwnKey, Storing
  <2> QED BY <2>1, <2>2, <2>3, SamePackets
<1>11. ASSUME UNCHANGED vars \/ BeginSave \/ SaveField \/ EndSave
              \/ (\E h \in Heartbeats : Online(h) \/ DropSender(h) \/ HeartbeatEnds(h))
              \/ (\E a \in Attempts : Scan(a) \/ Confirm(a))
       PROVE  PacketInv'
  <2>1. UNCHANGED <<pc, pkt, last, mixed, store, stage>>
    BY <1>11 DEF vars, history, BeginSave, SaveField, EndSave, Online, DropSender, HeartbeatEnds, Scan, Confirm
  <2>2. \A a \in Attempts : (Owner(a)' <=> Owner(a)) /\ (OwnKey(a)' <=> OwnKey(a))
    BY <2>1 DEF Owner, OwnKey, Storing
  <2> QED BY <2>1, <2>2, SamePackets
<1> QED BY <1>1, <1>2, <1>3, <1>4, <1>5, <1>6, <1>7, <1>8, <1>9, <1>10, <1>11 DEF Next

LEMMA PacketAlways == Spec => []PacketInv
BY PacketInit, PacketStep, TypeAlways, OutcomeAlways, InTurnAlways, WholeAlways, PTL DEF Spec

(* A packet begun after a login succeeded carries the d2 of that login     *)
(* under its key, and the uin of its account, unless another login or an   *)
(* answer came in between.                                                 *)
THEOREM PacketsOfLogin == Spec => PacketOfLogin
<1>1. ASSUME TypeInv, OutcomeInv, InTurn, PacketInv, AccountInv
      PROVE  pkt # NoPacket /\ pkt.since # NoAttempt /\ pkt.since = last /\ pkt.during = {} /\ ~mixed
                 => /\ pkt.flag = 1 /\ pkt.d2 = Login(last) /\ store.d2Key = Login(last)
                    /\ quick[last] \/ store.uin.account = who[last]
  <2>1. last # NoAttempt => last \in Attempts /\ stage[last] = "kept"
    BY <1>1 DEF InTurn, OutcomeInv, TypeInv, TypeOK
  <2>2. last \in Attempts => quick[last] \/ store.uin.account = who[last]
    BY <1>1 DEF AccountInv, Known, Polled, TypeInv, Types
  <2> QED BY <1>1, <2>1, <2>2 DEF PacketInv, OwnPacket, Owner, OwnKey
<1> DEFINE P == pkt # NoPacket /\ pkt' = NoPacket /\ crashes' = crashes
                    /\ pkt.since # NoAttempt /\ pkt.since = last /\ pkt.during = {} /\ ~mixed
                    => /\ pkt.flag = 1 /\ pkt.d2 = Login(last) /\ store.d2Key = Login(last)
                       /\ quick[last] \/ store.uin.account = who[last]
<1>2. TypeInv /\ OutcomeInv /\ InTurn /\ PacketInv /\ AccountInv /\ [Next]_vars => [P]_vars
  BY <1>1
<1>3. Spec => [][P]_vars
  BY <1>2, TypeAlways, OutcomeAlways, InTurnAlways, PacketAlways, AccountAlways, PTL DEF Spec
<1> QED BY <1>3 DEF PacketOfLogin

=============================================================================
