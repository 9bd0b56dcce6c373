------------------------------- MODULE Login -------------------------------
(***************************************************************************)
(* Logging in by QR code and staying online (core/operation/wt_op.rs), the *)
(* stores a login answer makes while it is parsed (core/event/login), the  *)
(* packets built from the same fields (core/packet.rs), and the file the   *)
(* key store is saved in and loaded from (core/key_store.rs).              *)
(*                                                                         *)
(* A login answer is parsed in a dispatch task of its own, whether or not  *)
(* login_by_qrcode still waits for it, and stores its fields one by one.   *)
(* Attempts to log in follow each other; everything else interleaves.      *)
(* A stored value is named by what wrote it: the confirmation of attempt   *)
(* a's QR code or the answer to its login request; the uin by the attempt  *)
(* whose polling asked for it.                                             *)
(***************************************************************************)
EXTENDS Integers, Sequences

CONSTANTS
    Attempts,     \* fetch_qrcode followed by login_by_qrcode
    Accounts, NoAccount,
    NoAttempt,
    Unreadable,   \* the saved file, when it is not a whole key store
    Heartbeats,   \* calls of online
    MaxSaves, MaxCrashes   \* bounds

ASSUME LoginAssumption ==
    /\ NoAccount \notin Accounts /\ NoAttempt \notin Attempts \cup Heartbeats
    /\ MaxSaves \in Nat /\ MaxCrashes \in Nat

VARIABLES
    who,        \* at the server: the account that scanned each QR code,
    confirmed,  \* and the codes confirmed
    store,      \* the fields of KeyStore, and tgtgtKey of Session
    pc,         \* where login_by_qrcode is
    req,        \* what each login request was built from
    stage,      \* what has become of the answer to it
    stored,     \* how many of its fields have been stored
    pkt,        \* the packet some task is building
    hb, held,   \* heartbeat tasks; whether their watch sender is still held
    file,       \* the saved key store: its fields, or Unreadable
    saver, saves, crashes

(* History: the QR codes scanned after the poll that preceded their        *)
(* confirmation, whether an attempt was confirmed while the answer to      *)
(* another was being parsed, whether a save overlapped stores, and the     *)
(* attempt that succeeded last, until another begins.                      *)
VARIABLES quick, mixed, torn, last

user    == <<who, confirmed>>
disk    == <<file, saver, saves, crashes>>
history == <<quick, mixed, torn, last>>
vars    == <<user, store, pc, req, stage, stored, pkt, hb, held, disk, history>>

NoValue == <<"none", NoAttempt>>
Confirmation(a) == <<"confirmation", a>>
Login(a) == <<"login", a>>
Uin(a, account) == [by |-> a, account |-> account]
Values == {NoValue} \cup {Confirmation(a) : a \in Attempts} \cup {Login(a) : a \in Attempts}

(* Mutant of StoreOrder: the d2 key is forgotten.                          *)
StoreOrderWithoutKey == << {"tgtgtKey"}, {"tgt", "d2"}, {"uid", "tempPassword", "date"} >>

(* Mutant of SaveOrder: the uin is not saved, as when it were skipped by   *)
(* serde.                                                                  *)
SaveOrderWithoutUin == << {"uid", "d2Key"}, {"d2", "tgt", "date", "tempPassword"} >>

(* The order in which WtLogin::parse stores the fields of an answer, and   *)
(* that in which the key store is serialized, in groups of neighbours.     *)
StoreOrder == << {"tgtgtKey"}, {"tgt", "d2"}, {"d2Key"}, {"uid", "tempPassword", "date"} >>
SaveOrder == << {"uin", "uid", "d2Key"}, {"d2", "tgt", "date", "tempPassword"} >>
Credentials == {"tgt", "d2", "d2Key", "uid", "date"}
Fields == Credentials \cup {"tgtgtKey", "tempPassword"}

Default == [f \in Fields \cup {"uin"} |-> IF f = "uin" THEN Uin(NoAttempt, NoAccount) ELSE NoValue]
Running == {"poll", "query", "key", "temp", "send", "login"}
Over    == {"ok", "err", "timeout", "gone"}
Storing(a)  == stage[a] = "storing"
Parsing(a)  == stage[a] = "checked" \/ Storing(a)

TypeOK ==
    /\ last \in Attempts \cup {NoAttempt}
    /\ confirmed \subseteq {a \in Attempts : who[a] # NoAccount}
    /\ who \in [Attempts -> Accounts \cup {NoAccount}]
    /\ store.uin \in [by : Attempts \cup {NoAttempt}, account : Accounts \cup {NoAccount}]
    /\ \A f \in Fields : store[f] \in Values
    /\ pc \in [Attempts -> {"idle"} \cup Running \cup Over]
    /\ \A a \in Attempts :
          /\ stage[a] \in {"none", "sent", "checked", "storing", "stored", "refused", "kept", "lost"}
          /\ stored[a] \in 0 .. Len(StoreOrder)
    /\ hb \in [Heartbeats -> {"off", "wait", "push", "ended"}]
    /\ \A h \in Heartbeats : pkt.by = h <=> hb[h] = "push"
    /\ saves \in 0 .. MaxSaves /\ crashes \in 0 .. MaxCrashes

NoPacket == [by |-> NoAttempt, since |-> NoAttempt, flag |-> 0, d2 |-> NoValue, during |-> {}]
Request == [f \in {"uin", "tgtgtKey", "tempPassword"} |-> Default[f]]
NoSave == [at |-> 0, fields |-> Default]

Init ==
    /\ who = [a \in Attempts |-> NoAccount] /\ confirmed = {}
    /\ store = Default
    /\ pc = [a \in Attempts |-> "idle"] /\ req = [a \in Attempts |-> Request]
    /\ stage = [a \in Attempts |-> "none"] /\ stored = [a \in Attempts |-> 0]
    /\ pkt = NoPacket
    /\ hb = [h \in Heartbeats |-> "off"] /\ held = [h \in Heartbeats |-> FALSE]
    /\ file = Default /\ saver = NoSave /\ saves = 0 /\ crashes = 0
    /\ quick = [a \in Attempts |-> FALSE] /\ mixed = FALSE /\ torn = FALSE
    /\ last = NoAttempt

-----------------------------------------------------------------------------
(* The owner of a phone scans the code and may confirm; a code that is     *)
(* cancelled or runs out is an error of the query like others.             *)
Scan(a) ==
    /\ pc[a] \in Running /\ who[a] = NoAccount
    /\ \E account \in Accounts : who' = [who EXCEPT ![a] = account]
    /\ quick' = [quick EXCEPT ![a] = TRUE]
    /\ UNCHANGED <<confirmed, store, pc, req, stage, stored, pkt, hb, held, disk, mixed, torn, last>>
Confirm(a) ==
    /\ pc[a] \in Running /\ who[a] # NoAccount /\ confirmed' = confirmed \cup {a}
    /\ UNCHANGED <<who, store, pc, req, stage, stored, pkt, hb, held, disk, history>>

(* fetch_qrcode, whose signature is kept in the session, and then the      *)
(* call of login_by_qrcode, which begins with a poll.                      *)
FetchQrcode(a) ==
    /\ pc[a] = "idle" /\ saver.at = 0 /\ \A b \in Attempts : pc[b] \notin Running
    /\ \E next \in {"poll", "err"} : pc' = [pc EXCEPT ![a] = next]
    /\ last' = NoAttempt
    /\ UNCHANGED <<user, store, req, stage, stored, pkt, hb, held, disk, quick, mixed, torn>>

(* Mutant of PolledUin: once the code is confirmed, nobody asks for the uin. *)
UinUntilConfirmed(a) == IF a \in confirmed THEN store.uin ELSE Uin(a, who[a])

(* query_trans_tmp_status asks over HTTP who has scanned the code and      *)
(* stores that uin, 0 while there is nobody, before the query proper.  The *)
(* uin of an earlier login is overwritten, whose d2 stays.                 *)
PolledUin(a) == Uin(a, who[a])
Poll(a) ==
    /\ pc[a] = "poll"
    /\ \/ /\ pc' = [pc EXCEPT ![a] = "query"]
          /\ store' = [store EXCEPT !.uin = PolledUin(a)]
          /\ quick' = [quick EXCEPT ![a] = FALSE]
       \/ pc' = [pc EXCEPT ![a] = "err"] /\ UNCHANGED <<store, quick>>
    /\ UNCHANGED <<user, req, stage, stored, pkt, hb, held, disk, mixed, torn, last>>

(* The answer to the query, or an error of it.  Before the next poll the   *)
(* loop sleeps, which "poll" includes.                                     *)
QueryAnswered(a) ==
    /\ pc[a] = "query"
    /\ \E next \in {IF a \in confirmed THEN "key" ELSE "poll", "err"} :
          pc' = [pc EXCEPT ![a] = next]
    /\ UNCHANGED <<user, store, req, stage, stored, pkt, hb, held, disk, history>>

(* The confirmation brings the key of the login answer and the temporary   *)
(* password, stored one after the other.                                   *)
StoreKey(a) ==
    /\ pc[a] = "key" /\ pc' = [pc EXCEPT ![a] = "temp"]
    /\ store' = [store EXCEPT !.tgtgtKey = Confirmation(a)]
    /\ mixed' = (mixed \/ \E b \in Attempts \ {a} : Parsing(b))
    /\ UNCHANGED <<user, req, stage, stored, pkt, hb, held, disk, quick, torn, last>>
StoreTemp(a) ==
    /\ pc[a] = "temp" /\ pc' = [pc EXCEPT ![a] = "send"]
    /\ store' = [store EXCEPT !.tempPassword = Confirmation(a)]
    /\ UNCHANGED <<user, req, stage, stored, pkt, hb, held, disk, history>>
(* do_wt_login builds its request from the fields as they are now, and     *)
(* posts it, either of which may fail.                                     *)
SendLogin(a) ==
    /\ pc[a] = "send"
    /\ \/ /\ pc' = [pc EXCEPT ![a] = "login"]
          /\ req' = [req EXCEPT ![a] = [f \in DOMAIN Request |-> store[f]]]
          /\ stage' = [stage EXCEPT ![a] = "sent"]
       \/ pc' = [pc EXCEPT ![a] = "err"] /\ UNCHANGED <<req, stage>>
    /\ UNCHANGED <<user, store, stored, pkt, hb, held, disk, history>>

(* Mutant of TimeoutAt: only the polling is under the timeout.             *)
TimeoutOfPolling == {"poll", "query"}

(* The timeout of login_by_qrcode takes effect where its future waits.     *)
TimeoutAt == {"poll", "query", "login"}
Timeout(a) ==
    /\ pc[a] \in TimeoutAt /\ pc' = [pc EXCEPT ![a] = "timeout"]
    /\ UNCHANGED <<user, store, req, stage, stored, pkt, hb, held, disk, history>>

-----------------------------------------------------------------------------
(* The answer is checked against the uin of the moment (SsoPacket::parse); *)
(* the server has put in the uin of the request.                           *)
CheckUin(a) ==
    /\ stage[a] = "sent"
    /\ stage' = [stage EXCEPT ![a] = IF req[a].uin.account = store.uin.account THEN "checked" ELSE "lost"]
    /\ UNCHANGED <<user, store, pc, req, stored, pkt, hb, held, disk, history>>

(* WtLogin::parse: the server may refuse, and does when the request was    *)
(* not built from the confirmation; an answer may lack a field.  Under     *)
(* another key than the confirmation's an accepted answer is garbled, and  *)
(* the parser fails or panics.  All fields are there before one is stored. *)
Acceptable(a) ==
    req[a].tgtgtKey = Confirmation(a) /\ req[a].tempPassword = Confirmation(a)
Parse(a) ==
    /\ stage[a] = "checked"
    /\ \/ stage' = [stage EXCEPT ![a] = "refused"] /\ UNCHANGED mixed
       \/ /\ Acceptable(a) /\ store.tgtgtKey # Confirmation(a)
          /\ stage' = [stage EXCEPT ![a] = "lost"] /\ UNCHANGED mixed
       \/ /\ Acceptable(a) /\ store.tgtgtKey = Confirmation(a)
          /\ stage' = [stage EXCEPT ![a] = "storing"]
          /\ mixed' = (mixed \/ \E b \in Attempts \ {a} : Storing(b))
    /\ UNCHANGED <<user, store, pc, req, stored, pkt, hb, held, disk, quick, torn, last>>

(* Mutant of StoreField: the d2 key is stored before the other fields have *)
(* been found, and the answer can turn out short afterwards.               *)
StoreFieldMayFail(a) ==
    /\ Storing(a)
    /\ stored' = [stored EXCEPT ![a] = @ + 1]
    /\ store' = [f \in DOMAIN store |-> IF f \in StoreOrder[stored'[a]] THEN Login(a) ELSE store[f]]
    /\ stage' = [stage EXCEPT ![a] = IF stored'[a] \in {3, Len(StoreOrder)} THEN "stored" ELSE @]
    /\ torn' = (torn \/ saver.at # 0)
    /\ pkt' = IF pkt = NoPacket THEN pkt ELSE [pkt EXCEPT !.during = @ \cup {a}]
    /\ UNCHANGED <<user, pc, req, hb, held, disk, quick, mixed, last>>

StoreField(a) ==
    /\ Storing(a)
    /\ stored' = [stored EXCEPT ![a] = @ + 1]
    /\ store' = [f \in DOMAIN store |-> IF f \in StoreOrder[stored'[a]] THEN Login(a) ELSE store[f]]
    /\ stage' = [stage EXCEPT ![a] = IF stored'[a] = Len(StoreOrder) THEN "stored" ELSE @]
    /\ torn' = (torn \/ saver.at # 0)
    /\ pkt' = IF pkt = NoPacket THEN pkt ELSE [pkt EXCEPT !.during = @ \cup {a}]
    /\ UNCHANGED <<user, pc, req, hb, held, disk, quick, mixed, last>>

(* Mutant of Outcome: the code of the answer is not looked at.             *)
AnyOutcome(answer) == "ok"

(* The parsed answer goes to the call that waits for it; when that call    *)
(* has been dropped, the dispatch task panics and nothing else happens.    *)
Outcome(answer) == IF answer = "stored" THEN "ok" ELSE "err"
Deliver(a) ==
    /\ stage[a] \in {"stored", "refused"}
    /\ stage' = [stage EXCEPT ![a] = IF @ = "stored" THEN "kept" ELSE "lost"]
    /\ IF pc[a] = "login"
       THEN /\ pc' = [pc EXCEPT ![a] = Outcome(stage[a])]
            /\ last' = IF Outcome(stage[a]) = "ok" THEN a ELSE last
       ELSE UNCHANGED <<pc, last>>
    /\ UNCHANGED <<user, store, req, stored, pkt, hb, held, disk, quick, mixed, torn>>

-----------------------------------------------------------------------------
(* build_protocol12 loads d2 for its flag and again for the section, and   *)
(* the uin and the key after both.  The packets are those of the           *)
(* heartbeat; other requests are built alike.                              *)
Begun(h) ==
    [by |-> h, since |-> last, flag |-> IF store.d2 = NoValue THEN 2 ELSE 1, d2 |-> store.d2,
     during |-> {a \in Attempts : Storing(a)}]
PacketKey ==
    /\ pkt # NoPacket /\ pkt' = NoPacket
    /\ hb' = [hb EXCEPT ![pkt.by] = "wait"]
    /\ UNCHANGED <<user, store, pc, req, stage, stored, held, disk, history>>

(* online, and the heartbeat it spawns: a select! of two intervals and the *)
(* watch channel, whose sender the user holds.                             *)
IsExpired(s) == s.d2 = NoValue \/ s.tgt = NoValue \/ s.date = NoValue
Online(h) ==
    /\ hb[h] = "off" /\ ~IsExpired(store) /\ \A a \in Attempts : pc[a] \notin Running
    /\ hb' = [hb EXCEPT ![h] = "wait"] /\ held' = [held EXCEPT ![h] = TRUE]
    /\ UNCHANGED <<user, store, pc, req, stage, stored, pkt, disk, history>>
Tick(h) ==
    /\ hb[h] = "wait" /\ pkt = NoPacket
    /\ hb' = [hb EXCEPT ![h] = "push"] /\ pkt' = Begun(h)
    /\ UNCHANGED <<user, store, pc, req, stage, stored, held, disk, history>>
DropSender(h) ==   \* or use it
    /\ held[h] /\ held' = [held EXCEPT ![h] = FALSE]
    /\ UNCHANGED <<user, store, pc, req, stage, stored, pkt, hb, disk, history>>
(* Mutant of HeartbeatEnds: a packet that is being pushed is abandoned.     *)
HeartbeatAborts(h) ==
    /\ hb[h] \in {"wait", "push"} /\ ~held[h] /\ hb' = [hb EXCEPT ![h] = "ended"]
    /\ UNCHANGED <<user, store, pc, req, stage, stored, pkt, held, disk, history>>

(* Mutant of HeartbeatEnds: the loop ends only between two packets while   *)
(* the sender lives, as when a dropped sender is taken for no news.        *)
HeartbeatKeepsOn(h) ==
    /\ hb[h] = "wait" /\ held[h] /\ hb' = [hb EXCEPT ![h] = "ended"]
    /\ UNCHANGED <<user, store, pc, req, stage, stored, pkt, held, disk, history>>

HeartbeatEnds(h) ==
    /\ hb[h] = "wait" /\ ~held[h] /\ hb' = [hb EXCEPT ![h] = "ended"]
    /\ UNCHANGED <<user, store, pc, req, stage, stored, pkt, held, disk, history>>

-----------------------------------------------------------------------------
(* Mutant of Unfinished: the file holds what has been written so far.      *)
WrittenSoFar(fields) == fields

(* KeyStore::save truncates the file, serializes the fields one by one     *)
(* into a buffer, and flushes it when it is dropped: an error of the flush *)
(* is not reported.                                                        *)
Unfinished(fields) == Unreadable
BeginSave ==
    /\ saver.at = 0 /\ saves < MaxSaves /\ saves' = saves + 1
    /\ ~IsExpired(store) /\ \A a \in Attempts : pc[a] \notin Running   \* as the example does
    /\ file' = Unfinished(Default) /\ saver' = [at |-> 1, fields |-> Default]
    /\ torn' = (torn \/ \E a \in Attempts : Storing(a))
    /\ UNCHANGED <<user, store, pc, req, stage, stored, pkt, hb, held, crashes, quick, mixed, last>>
SaveField ==
    /\ saver.at \in 1 .. Len(SaveOrder)
    /\ saver' = [at |-> saver.at + 1,
                  fields |-> [f \in DOMAIN Default |->
                                IF f \in SaveOrder[saver.at] THEN store[f] ELSE saver.fields[f]]]
    /\ file' = Unfinished(saver'.fields)
    /\ UNCHANGED <<user, store, pc, req, stage, stored, pkt, hb, held, saves, crashes, history>>
EndSave ==
    /\ saver.at > Len(SaveOrder) /\ saver' = NoSave
    /\ \/ file' = saver.fields
       \/ UNCHANGED file   \* the flush failed
    /\ UNCHANGED <<user, store, pc, req, stage, stored, pkt, hb, held, saves, crashes, history>>

(* The process is killed and started again: KeyStore::load, or a new key   *)
(* store that is saved at once; the session is not saved.                  *)
Restart ==
    /\ crashes < MaxCrashes /\ crashes' = crashes + 1
    /\ store' = IF file = Unreadable THEN Default ELSE file
    /\ file' = store' /\ saver' = NoSave
    /\ pc' = [a \in Attempts |-> IF pc[a] \in Running THEN "gone" ELSE pc[a]]
    /\ stage' = [a \in Attempts |-> IF Parsing(a) \/ stage[a] \in {"sent", "stored", "refused"}
                                     THEN "lost" ELSE stage[a]]
    /\ pkt' = NoPacket /\ last' = NoAttempt
    /\ hb' = [h \in Heartbeats |-> "off"] /\ held' = [h \in Heartbeats |-> FALSE]
    /\ UNCHANGED <<user, req, stored, saves, quick, mixed, torn>>

Next ==
    \/ \E a \in Attempts :
        \/ Scan(a) \/ Confirm(a)
        \/ FetchQrcode(a) \/ Poll(a) \/ QueryAnswered(a)
        \/ StoreKey(a) \/ StoreTemp(a) \/ SendLogin(a) \/ Timeout(a)
        \/ CheckUin(a) \/ Parse(a) \/ StoreField(a) \/ Deliver(a)
    \/ PacketKey
    \/ \E h \in Heartbeats : Online(h) \/ Tick(h) \/ DropSender(h) \/ HeartbeatEnds(h)
    \/ BeginSave \/ SaveField \/ EndSave
    \/ Restart

(* The runtime polls a task that is ready; the timer of a timeout expires; *)
(* select! takes a branch at random, so that one that is ready again and   *)
(* again is taken.  A push returns once the socket's bounded channel has    *)
(* room for the packet, which is Socket's SendersProgress: it is assumed    *)
(* here, for PacketKey.  Nothing is assumed of the server or of the user.   *)
Fairness ==
    /\ \A a \in Attempts :
        /\ WF_vars(StoreKey(a)) /\ WF_vars(StoreTemp(a)) /\ WF_vars(SendLogin(a))
        /\ SF_vars(Timeout(a))
    /\ WF_vars(PacketKey)
    /\ \A h \in Heartbeats : SF_vars(HeartbeatEnds(h))

Spec == Init /\ [][Next]_vars
FairSpec == Spec /\ Fairness

-----------------------------------------------------------------------------
(* Whenever no answer is being stored, the credentials are those of one    *)
(* login, also after a restart from the saved file: a refused answer       *)
(* leaves none behind, nor does a save that a crash cut short.  And beside *)
(* the credentials of a login is the uin that the polling of its attempt   *)
(* asked for, of its account, unless another attempt has begun to poll     *)
(* since: that overwrites the uin, not the credentials.  Except for        *)
(* answers to two attempts parsed at once, and saves made meanwhile.       *)
UinOfLogin(a) ==
    \/ store.uin.by \in Attempts \ {a}
    \/ store.uin.by = a /\ (quick[a] \/ store.uin.account = who[a])
WholeLogin ==
    (\A a \in Attempts : ~Storing(a)) /\ ~mixed /\ ~torn
        => \E v \in Values :
              /\ \A f \in Credentials : store[f] = v
              /\ \A a \in Attempts : v = Login(a) => UinOfLogin(a)

(* login_by_qrcode reports success only after its answer has been stored,  *)
(* and if it reports a failure although its answer was or will be stored,  *)
(* that was the timeout.                                                   *)
OutcomeMatchesAnswer ==
    \A a \in Attempts :
        /\ pc[a] = "ok" => stage[a] = "kept"
        /\ pc[a] = "err" => ~Storing(a) /\ stage[a] \notin {"stored", "kept"}

(* A packet begun after a login succeeded carries the d2 of that login     *)
(* under its key and the uin of its account, with the flag that says so,   *)
(* unless another login has begun or an answer was being stored meanwhile. *)
PacketOfLogin == [][
    pkt # NoPacket /\ pkt' = NoPacket /\ crashes' = crashes
        /\ pkt.since # NoAttempt /\ pkt.since = last /\ pkt.during = {} /\ ~mixed
        => /\ pkt.flag = 1 /\ pkt.d2 = Login(last) /\ store.d2Key = Login(last)
           /\ quick[last] \/ store.uin.account = who[last]]_vars

(* After a successful login, until another begins, the uin is the one its  *)
(* own polling stored, not that of an earlier login, and it is that of the *)
(* account which confirmed it, unless the code was scanned and confirmed   *)
(* within one round of the polling, between the HTTP request and the       *)
(* answer to the query.                                                    *)
LoginKnowsAccount ==
    \A a \in Attempts : last = a =>
        store.uin.by = a /\ (quick[a] \/ store.uin.account = who[a])

(* login_by_qrcode ends, whatever the server does.  (Between two attempts  *)
(* there is a state in which none is running.)                             *)
LoginReturns ==
    (\E a \in Attempts : pc[a] \in Running) ~> (\A a \in Attempts : pc[a] \notin Running)

(* Once the sender is dropped, the heartbeat ends, at the latest when the  *)
(* packet that it is pushing has gone into the channel.                    *)
HeartbeatStops ==
    \A h \in Heartbeats : hb[h] \in {"wait", "push"} /\ ~held[h] ~> hb[h] \in {"ended", "off"}
=============================================================================
