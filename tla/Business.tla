------------------------------ MODULE Business ------------------------------
(***************************************************************************)
(* The request/response core of the client: BusinessHandle::send_event and *)
(* push_event, the table of pending requests keyed by sequence number, the *)
(* receive loop of Business::spawn and the dispatch task it spawns for     *)
(* every packet (src/mania/src/core/business.rs).                          *)
(*                                                                         *)
(* A call is one execution of send_event or push_event.  The packets the   *)
(* client can receive are the answers to its calls and the pushes of the   *)
(* server; the answer to call c is named c.  A dispatch task runs business *)
(* logic, and logic may itself call send_event and wait (for instance      *)
(* uid2uin, or refresh_group_members_cache): those are the NestedCalls.    *)
(*                                                                         *)
(* The connection is abstracted to its phase (`link') and to what becomes  *)
(* of each packet (`wire'); any order of delivery is allowed.  Module      *)
(* Socket has the queues and the two loops of core/socket.rs.              *)
(***************************************************************************)
EXTENDS Integers, FiniteSets

CONSTANTS
    UserCalls,    \* calls of send_event made by the user of the library
    NestedCalls,  \* calls of send_event made by logic in a dispatch task
    OneWayCalls,  \* calls of push_event: no answer is awaited
    Pushes,       \* packets the server sends of its own accord
    Cancellable,  \* user calls under a tokio::time::timeout, as in login_by_qrcode
    SeqSpace,     \* how many sequence numbers the counter has (2^32 in the code)
    PushSeqs,     \* sequence numbers the server gives to its pushes
    None          \* no call, no packet, no result

SendCalls == UserCalls \cup NestedCalls
Calls     == SendCalls \cup OneWayCalls
Packets   == Calls \cup Pushes
CallSeqs  == 0 .. SeqSpace - 1
Seqs      == CallSeqs \cup PushSeqs
Results   == [about : Packets, ok : BOOLEAN]  \* the packet, and Ok or Err

(* The server numbers its pushes apart from the client's requests: the     *)
(* code relies on it, since an answer is recognised by its number alone.   *)
ASSUME CallsAssumption ==
    /\ UserCalls \cap NestedCalls = {}
    /\ SendCalls \cap OneWayCalls = {}
    /\ Calls \cap Pushes = {}
    /\ Cancellable \subseteq UserCalls
    /\ None \notin Packets \cup Results

ASSUME SeqAssumption ==
    /\ SeqSpace \in Nat \ {0}
    /\ PushSeqs \subseteq Int
    /\ PushSeqs \cap CallSeqs = {}
    /\ None \notin Seqs

VARIABLES
    link,       \* "open", "broken": channels gone, token still held, "closed"
    allocated,  \* how many sequence numbers next_sequence has given out
    pending,    \* pending_requests: the call whose oneshot sender is stored
    call,       \* where each call is
    seq,        \* the sequence number of each packet
    slot,       \* the oneshot channel of each call: empty or the result sent
    wire,       \* what became of each packet (and, for a call, its request)
    loop,       \* the receive loop: before recv(), blocked in it, or panicked
    task,       \* the dispatch task of each received packet
    sub         \* the nested call each dispatch task is waiting for

vars == <<link, allocated, pending, call, seq, slot, wire, loop, task, sub>>

CallStates == {"idle", "start", "built", "check", "posting", "await",
               "ok", "err", "cancelled", "panicked"}
WireStates == {"none", "outgoing", "incoming", "refused", "taken", "lost"}
TaskStates == {"none", "logic", "nested", "reply_ok", "reply_err", "done",
               "unwound",   \* a panic before pending_requests.remove
               "panicked"}  \* expect("receiver dropped")

(* The call has returned or its future is gone: nobody polls it any more,  *)
(* and the receiving half of its oneshot channel has been dropped.         *)
Over(c) == call[c] \in {"ok", "err", "cancelled", "panicked"}

TypeOK ==
    /\ link \in {"open", "broken", "closed"}
    /\ allocated \in Nat
    /\ pending \in [Seqs -> SendCalls \cup {None}]
    /\ call \in [Calls -> CallStates]
    /\ \A c \in OneWayCalls : call[c] \notin {"built", "await"}
    /\ seq \in [Packets -> Seqs \cup {None}]
    /\ slot \in [Calls -> Results \cup {None}]
    /\ wire \in [Packets -> WireStates]
    /\ loop \in {"check", "wait", "panicked"}
    /\ task \in [Packets -> TaskStates]
    /\ sub \in [Packets -> NestedCalls \cup {None}]

Init ==
    /\ link = "open"
    /\ allocated = 0
    /\ pending = [s \in Seqs |-> None]
    /\ call = [c \in Calls |-> "idle"]
    /\ seq = [p \in Packets |-> None]
    /\ slot = [c \in Calls |-> None]
    /\ wire = [p \in Packets |-> "none"]
    /\ loop = "check"
    /\ task = [p \in Packets |-> "none"]
    /\ sub = [p \in Packets |-> None]

-----------------------------------------------------------------------------
(* A call.                                                                 *)

Goto(c, pc) == call' = [call EXCEPT ![c] = pc]

(* The user calls send_event, or the heartbeat calls push_event.           *)
Invoke(c) ==
    /\ c \in UserCalls \cup OneWayCalls
    /\ call[c] = "idle"
    /\ Goto(c, "start")
    /\ UNCHANGED <<link, allocated, pending, seq, slot, wire, loop, task, sub>>

(* Outgoing logic or event.build() fails; `?' returns the error before a   *)
(* sequence number is taken.                                               *)
PrepareFails(c) ==
    /\ call[c] = "start"
    /\ Goto(c, "err")
    /\ UNCHANGED <<link, allocated, pending, seq, slot, wire, loop, task, sub>>

(* Mutant of Build: the counter is read, and never advanced.               *)
BuildWithoutAdvance(c) ==
    /\ call[c] = "start"
    /\ seq' = [seq EXCEPT ![c] = allocated % SeqSpace]
    /\ Goto(c, IF c \in OneWayCalls THEN "check" ELSE "built")
    /\ UNCHANGED <<link, allocated, pending, slot, wire, loop, task, sub>>

(* Mutant of Build: sequence numbers wider than the counter.               *)
BuildWithoutWrap(c) ==
    /\ call[c] = "start"
    /\ seq' = [seq EXCEPT ![c] = allocated]
    /\ allocated' = allocated + 1
    /\ Goto(c, IF c \in OneWayCalls THEN "check" ELSE "built")
    /\ UNCHANGED <<link, pending, slot, wire, loop, task, sub>>

(* build_sso_packet: SsoPacket::new takes the next sequence number.        *)
Build(c) ==
    /\ call[c] = "start"
    /\ seq' = [seq EXCEPT ![c] = allocated % SeqSpace]
    /\ allocated' = allocated + 1
    /\ Goto(c, IF c \in OneWayCalls THEN "check" ELSE "built")
    /\ UNCHANGED <<link, pending, slot, wire, loop, task, sub>>

(* send_packet stores the sending half of a new oneshot channel.  An entry *)
(* already there is dropped with the sender it holds.                      *)
Register(c) ==
    /\ call[c] = "built"
    /\ pending' = [pending EXCEPT ![seq[c]] = c]
    /\ Goto(c, "check")
    /\ UNCHANGED <<link, allocated, seq, slot, wire, loop, task, sub>>

(* PacketSender::send looks at the close token first.  On BrokenPipe the   *)
(* `?' of send_packet returns without taking the entry out of the table.   *)
CheckToken(c) ==
    /\ call[c] = "check"
    /\ Goto(c, IF link = "closed" THEN "err" ELSE "posting")
    /\ UNCHANGED <<link, allocated, pending, seq, slot, wire, loop, task, sub>>

(* Mutant of Post: send_event returns as soon as the packet is posted.     *)
PostAndReturn(c) ==
    /\ call[c] = "posting"
    /\ link = "open"
    /\ wire' = [wire EXCEPT ![c] = "outgoing"]
    /\ Goto(c, "ok")
    /\ UNCHANGED <<link, allocated, pending, seq, slot, loop, task, sub>>

(* The packet enters the channel of the send loop.                         *)
Post(c) ==
    /\ call[c] = "posting"
    /\ link = "open"
    /\ wire' = [wire EXCEPT ![c] = "outgoing"]
    /\ Goto(c, IF c \in OneWayCalls THEN "ok" ELSE "await")
    /\ UNCHANGED <<link, allocated, pending, seq, slot, loop, task, sub>>

(* expect("channel closed") in PacketSender::send.                         *)
PostPanics(c) ==
    /\ call[c] = "posting"
    /\ link # "open"
    /\ Goto(c, "panicked")
    /\ UNCHANGED <<link, allocated, pending, seq, slot, wire, loop, task, sub>>

(* Mutant of Return: try_recv in the place of await, so that an answer     *)
(* that is not there yet is taken for a failure.                           *)
ReturnAtOnce(c) ==
    /\ call[c] = "await"
    /\ Goto(c, IF slot[c] # None /\ slot[c].ok THEN "ok" ELSE "err")
    /\ UNCHANGED <<link, allocated, pending, seq, slot, wire, loop, task, sub>>

(* rx.await yields the result the dispatch task sent.                      *)
Return(c) ==
    /\ call[c] = "await"
    /\ slot[c] # None
    /\ Goto(c, IF slot[c].ok THEN "ok" ELSE "err")
    /\ UNCHANGED <<link, allocated, pending, seq, slot, wire, loop, task, sub>>

(* The sender was dropped unused, because the entry was overwritten:       *)
(* expect("response not received").                                        *)
ReturnPanics(c) ==
    /\ call[c] = "await"
    /\ slot[c] = None
    /\ \A s \in Seqs : pending[s] # c
    /\ Goto(c, "panicked")
    /\ UNCHANGED <<link, allocated, pending, seq, slot, wire, loop, task, sub>>

(* The timeout around the call fires: its future is dropped at the await   *)
(* it is suspended in.  The entry in the table stays.                      *)
Cancel(c) ==
    /\ c \in Cancellable
    /\ call[c] \in {"start", "posting", "await"}
    /\ Goto(c, "cancelled")
    /\ UNCHANGED <<link, allocated, pending, seq, slot, wire, loop, task, sub>>

-----------------------------------------------------------------------------
(* The receive loop of Business::spawn.                                    *)

(* PacketReceiver::recv looks at the token; with the token dropped it      *)
(* returns an error, the loop continues at once, and nothing changes.      *)
LoopCheck ==
    /\ loop = "check"
    /\ link # "closed"
    /\ loop' = "wait"
    /\ UNCHANGED <<link, allocated, pending, call, seq, slot, wire, task, sub>>

(* Mutant of LoopTake: dispatch_sso_packet is awaited in the loop, which   *)
(* takes no packet until the one before it has been dealt with.            *)
LoopTakeInline(p) ==
    /\ loop = "wait"
    /\ \A q \in Packets : task[q] \in {"none", "done", "unwound", "panicked"}
    /\ wire[p] \in {"incoming", "refused"}
    /\ wire' = [wire EXCEPT ![p] = "taken"]
    /\ task' = IF wire[p] = "incoming" THEN [task EXCEPT ![p] = "logic"] ELSE task
    /\ loop' \in IF wire[p] = "refused" THEN {"check", "panicked"} ELSE {"check"}
    /\ UNCHANGED <<link, allocated, pending, call, seq, slot, sub>>

(* A packet that SsoPacket::parse accepts gets a task of its own; for one  *)
(* it refuses (ret_code # 0, another uin) the error is logged, no more, or *)
(* the parser itself panics, in the loop, when the packet is shorter than  *)
(* its lengths say (PacketReader).                                         *)
LoopTake(p) ==
    /\ loop = "wait"
    /\ wire[p] \in {"incoming", "refused"}
    /\ wire' = [wire EXCEPT ![p] = "taken"]
    /\ task' = IF wire[p] = "incoming" THEN [task EXCEPT ![p] = "logic"] ELSE task
    /\ loop' \in IF wire[p] = "refused" THEN {"check", "panicked"} ELSE {"check"}
    /\ UNCHANGED <<link, allocated, pending, call, seq, slot, sub>>

(* The channel is closed and drained: expect("channel closed") in recv.    *)
LoopPanics ==
    /\ loop = "wait"
    /\ link # "open"
    /\ \A p \in Packets : wire[p] \notin {"incoming", "refused"}
    /\ loop' = "panicked"
    /\ UNCHANGED <<link, allocated, pending, call, seq, slot, wire, task, sub>>

-----------------------------------------------------------------------------
(* A dispatch task: dispatch_sso_packet.                                   *)

(* Logic of the task sends a request of its own and awaits it.             *)
StartNested(p, c) ==
    /\ task[p] = "logic"
    /\ c \in NestedCalls
    /\ call[c] = "idle"
    /\ task' = [task EXCEPT ![p] = "nested"]
    /\ sub' = [sub EXCEPT ![p] = c]
    /\ Goto(c, "start")
    /\ UNCHANGED <<link, allocated, pending, seq, slot, wire, loop>>

(* The nested call returns.  Its error ends the logic (`?') or is logged.  *)
EndNested(p) ==
    /\ task[p] = "nested"
    /\ \/ /\ call[sub[p]] \in {"ok", "err"}
          /\ task' = [task EXCEPT ![p] = "logic"]
       \/ /\ call[sub[p]] = "err"
          /\ task' = [task EXCEPT ![p] = "reply_err"]
       \/ /\ call[sub[p]] = "panicked"   \* the panic unwinds this task
          /\ task' = [task EXCEPT ![p] = "unwound"]
    /\ sub' = [sub EXCEPT ![p] = None]
    /\ UNCHANGED <<link, allocated, pending, call, seq, slot, wire, loop>>

(* resolve_event and the logic are done, well or with an error, or one of  *)
(* them panics (an expect or an index in the parser of an event).  A panic *)
(* ends the task before the entry is taken out of the table: the call that *)
(* waits for this packet is told nothing.                                  *)
EndLogic(p) ==
    /\ task[p] = "logic"
    /\ \E r \in {"reply_ok", "reply_err", "unwound"} : task' = [task EXCEPT ![p] = r]
    /\ UNCHANGED <<link, allocated, pending, call, seq, slot, wire, loop, sub>>

Reply(p) == [about |-> p, ok |-> task[p] = "reply_ok"]

(* Mutant of Finish: an error is logged and not handed to the call.        *)
FinishDropsErrors(p) ==
    /\ task[p] \in {"reply_ok", "reply_err"}
    /\ LET c == pending[seq[p]] IN
       /\ pending' = [pending EXCEPT ![seq[p]] = None]
       /\ slot' = IF c # None /\ ~Over(c) /\ task[p] = "reply_ok"
                    THEN [slot EXCEPT ![c] = Reply(p)] ELSE slot
       /\ task' = [task EXCEPT ![p] =
                     IF c # None /\ Over(c) THEN "panicked" ELSE "done"]
    /\ UNCHANGED <<link, allocated, call, seq, wire, loop, sub>>

(* Mutant of Finish: the entry is looked up and left in the table.         *)
FinishWithoutRemove(p) ==
    /\ task[p] \in {"reply_ok", "reply_err"}
    /\ LET c == pending[seq[p]] IN
       /\ slot' = IF c # None /\ ~Over(c) THEN [slot EXCEPT ![c] = Reply(p)] ELSE slot
       /\ task' = [task EXCEPT ![p] =
                     IF c # None /\ Over(c) THEN "panicked" ELSE "done"]
    /\ UNCHANGED <<link, allocated, pending, call, seq, wire, loop, sub>>

(* pending_requests.remove(&sequence), then tx.send(result) if an entry    *)
(* was there: expect("receiver dropped") when the call is already over.    *)
Finish(p) ==
    /\ task[p] \in {"reply_ok", "reply_err"}
    /\ LET c == pending[seq[p]] IN
       /\ pending' = [pending EXCEPT ![seq[p]] = None]
       /\ slot' = IF c # None /\ ~Over(c) THEN [slot EXCEPT ![c] = Reply(p)] ELSE slot
       /\ task' = [task EXCEPT ![p] =
                     IF c # None /\ Over(c) THEN "panicked" ELSE "done"]
    /\ UNCHANGED <<link, allocated, call, seq, wire, loop, sub>>

-----------------------------------------------------------------------------
(* The server and the connection.                                          *)

(* The answer carries the sequence number of the request.                  *)
Answer(c) ==
    /\ link = "open"
    /\ wire[c] = "outgoing"
    /\ wire' = [wire EXCEPT ![c] = "incoming"]
    /\ UNCHANGED <<link, allocated, pending, call, seq, slot, loop, task, sub>>

(* The answer is one that SsoPacket::parse turns into an error.            *)
Refuse(c) ==
    /\ link = "open"
    /\ wire[c] = "outgoing"
    /\ wire' = [wire EXCEPT ![c] = "refused"]
    /\ UNCHANGED <<link, allocated, pending, call, seq, slot, loop, task, sub>>

Push(p) ==
    /\ link = "open"
    /\ p \in Pushes
    /\ wire[p] = "none"
    /\ wire' = [wire EXCEPT ![p] = "incoming"]
    /\ \E s \in PushSeqs : seq' = [seq EXCEPT ![p] = s]
    /\ UNCHANGED <<link, allocated, pending, call, slot, loop, task, sub>>

(* A loop of the socket task fails; select! drops both, and with them the  *)
(* ends of the channels they own.  Packets already in the incoming channel *)
(* can still be received, the others are lost.                             *)
Break ==
    /\ link = "open"
    /\ link' = "broken"
    /\ \E lost \in SUBSET {p \in Packets : wire[p] \in {"incoming", "refused"}} :
          wire' = [p \in Packets |-> IF p \in lost \/ wire[p] = "outgoing"
                                       THEN "lost" ELSE wire[p]]
    /\ UNCHANGED <<allocated, pending, call, seq, slot, loop, task, sub>>

(* Mutant of Close: the table is cleared when the connection closes.       *)
CloseAndClear ==
    /\ link = "broken"
    /\ link' = "closed"
    /\ pending' = [s \in Seqs |-> None]
    /\ UNCHANGED <<allocated, call, seq, slot, wire, loop, task, sub>>

(* The socket task logs the error and drops close_sync.                    *)
Close ==
    /\ link = "broken"
    /\ link' = "closed"
    /\ UNCHANGED <<allocated, pending, call, seq, slot, wire, loop, task, sub>>

-----------------------------------------------------------------------------
CallStep(c) ==
    \/ Invoke(c) \/ PrepareFails(c) \/ Build(c) \/ Register(c) \/ CheckToken(c)
    \/ Post(c) \/ PostPanics(c) \/ Return(c) \/ ReturnPanics(c) \/ Cancel(c)

LoopStep == LoopCheck \/ LoopPanics \/ \E p \in Packets : LoopTake(p)

TaskStep(p) ==
    \/ \E c \in NestedCalls : StartNested(p, c)
    \/ EndNested(p) \/ EndLogic(p) \/ Finish(p)

ServerStep ==
    \/ \E c \in Calls : Answer(c) \/ Refuse(c)
    \/ \E p \in Pushes : Push(p)

Next ==
    \/ \E c \in Calls : CallStep(c)
    \/ LoopStep
    \/ \E p \in Packets : TaskStep(p)
    \/ ServerStep
    \/ Break
    \/ Close

Spec == Init /\ [][Next]_vars

(* The runtime polls every task that can move, and the server answers every *)
(* request that reaches it.  Nothing is assumed of the user, of timeouts or *)
(* of the connection, nor of how logic ends, by a panic or otherwise.  (The *)
(* outgoing logic of a message sends requests too, before it is built: a    *)
(* user call can stay in "start" as long as they wait.  The properties      *)
(* speak of a call that is at its await.)                                   *)
Fairness ==
    /\ \A c \in Calls :
          WF_vars(PrepareFails(c) \/ Build(c) \/ Register(c) \/ CheckToken(c)
                    \/ Post(c) \/ PostPanics(c) \/ Return(c) \/ ReturnPanics(c))
    /\ WF_vars(LoopStep)
    /\ \A p \in Packets : WF_vars(TaskStep(p))
    /\ \A c \in Calls : WF_vars(Answer(c) \/ Refuse(c))

FairSpec == Spec /\ Fairness

-----------------------------------------------------------------------------
(* Properties.                                                             *)

(* The sequence counter has not come round to a number it already gave.    *)
NoReuse == allocated <= SeqSpace

(* The result handed to a call is the one made from the answer to that     *)
(* very call, however calls, dispatch tasks and late answers interleave    *)
(* (pending_requests.insert/remove by sequence, business.rs).              *)
OwnAnswer ==
    NoReuse => \A c \in Calls : slot[c] # None => slot[c].about = c

(* No lost wake-up: a call that is waiting and has no result yet is still  *)
(* in the table under its number, so that its answer can still find it     *)
(* (insert before post_packet, business.rs).                               *)
AwaitingIsRegistered ==
    NoReuse => \A c \in SendCalls :
        call[c] = "await" /\ slot[c] = None => pending[seq[c]] = c

(* A result is delivered at most once: an entry of the table belongs to a  *)
(* call that has been given nothing yet, even when numbers are reused      *)
(* (remove before tx.send, business.rs).                                   *)
PendingIsUnanswered ==
    \A s \in Seqs : pending[s] # None => slot[pending[s]] = None

(* While the connection is up, a dispatch task panics on                   *)
(* expect("receiver dropped") for one reason only: a timeout dropped the   *)
(* call it answers (business.rs, wt_op.rs login_by_qrcode).  Panics in a   *)
(* parser or in the logic are another state, "unwound".                    *)
PanicsOnlyAfterCancel ==
    NoReuse /\ link = "open" =>
        \A p \in Packets : task[p] = "panicked" =>
            p \in Calls /\ call[p] = "cancelled"

(* An entry leaves the table only by the delivery of its call's result, or *)
(* because that call is over already, or overwritten once the counter has  *)
(* come round; nothing else ever clears it (business.rs).                  *)
EntryLeavesOnlyByDelivery ==
    [][\A s \in Seqs : pending[s] # None /\ pending'[s] # pending[s] =>
          \/ slot'[pending[s]] # None
          \/ Over(pending[s])
          \/ pending'[s] # None /\ ~NoReuse]_vars

(* Call c, and the nested calls, one of which the logic run for its answer *)
(* may wait for, have had no answer refused by SsoPacket::parse and no     *)
(* dispatch task that panicked before it took out the entry.               *)
AnswersUsable(c) ==
    \A p \in {c} \cup NestedCalls : wire[p] # "refused" /\ task[p] # "unwound"

(* A call that waits is over eventually while the connection is up and the *)
(* receive loop alive, although its dispatch task may itself wait for the  *)
(* answers to nested calls: the loop never waits for the tasks it spawns   *)
(* (tokio::spawn in Business::spawn), and what befalls the answers to      *)
(* other calls, a refusal or a panic, is no matter.  A refused answer or a *)
(* panic in the task of its own answer leaves the call waiting for ever:   *)
(* AnswersUsable excludes no less and no more than that.                   *)
AwaitReturns ==
    \A c \in SendCalls :
        [](link = "open" /\ NoReuse /\ loop # "panicked" /\ AnswersUsable(c))
            => (call[c] = "await" ~> Over(c))

(* What the caller sees of a call, and the calls whose answer has come.    *)
StatusOf(state) ==
    CASE state = "idle" -> "idle"
      [] state = "ok" -> "ok"
      [] state \in {"err", "cancelled", "panicked"} -> "failed"
      [] state \in {"start", "built", "check", "posting", "await"} -> "running"

Status   == [c \in Calls |-> StatusOf(call[c])]
Received == {c \in Calls : wire[c] = "taken"}

Contract == INSTANCE Rpc WITH status <- Status, received <- Received

(* Every call obeys the contract of module Rpc: it has one outcome, and    *)
(* send_event succeeds only after its own answer has come (business.rs).   *)
KeepsContract == Contract!Spec

-----------------------------------------------------------------------------
(* The inductive invariant behind the safety properties, by parts.         *)

(* Before it has a number a call has no trace anywhere, and before it is   *)
(* registered it has no entry and no result.                               *)
FreshCalls ==
    \A c \in Calls :
        /\ call[c] \in {"idle", "start"} => seq[c] = None
        /\ call[c] \in {"idle", "start", "built", "check", "posting"} => wire[c] = "none"
        /\ call[c] \in {"idle", "start", "built"} => slot[c] = None
        /\ call[c] \in {"built", "check", "posting", "await", "ok"} => seq[c] # None

(* An entry sits under the number of its call, which has registered and    *)
(* has not been given a result.                                            *)
EntryOfRegistered ==
    \A s \in Seqs : pending[s] # None =>
        /\ seq[pending[s]] = s
        /\ call[pending[s]] \notin {"idle", "start", "built", "ok"}
        /\ slot[pending[s]] = None

(* The numbers of calls come from the counter, those of pushes do not.     *)
SeqOrigin ==
    /\ \A c \in Calls : seq[c] \in CallSeqs \cup {None}
    /\ \A p \in Pushes : seq[p] \in PushSeqs \cup {None}
    /\ \A p \in Packets : wire[p] # "none" => seq[p] # None
    /\ \A p \in Packets : task[p] # "none" => wire[p] = "taken"

(* Until the counter comes round, calls have distinct numbers below it.    *)
SeqUnique ==
    NoReuse =>
        /\ \A c \in Calls : seq[c] # None => seq[c] < allocated
        /\ \A c, d \in Calls : seq[c] # None /\ seq[c] = seq[d] => c = d

(* A call that is on its way to its answer is findable by it.              *)
ActiveIsRegistered ==
    NoReuse => \A c \in SendCalls :
        call[c] \in {"check", "posting", "await"} /\ slot[c] = None =>
            pending[seq[c]] = c

TableInv ==
    /\ TypeOK
    /\ FreshCalls
    /\ EntryOfRegistered
    /\ SeqOrigin
    /\ SeqUnique
    /\ OwnAnswer
    /\ ActiveIsRegistered

(* While the connection is up no call panics, and a call that has an entry *)
(* although it is over was cancelled: an error either comes before the     *)
(* entry is made, or from a result, which takes the entry away.            *)
OpenInv ==
    NoReuse /\ link = "open" =>
        /\ \A c \in Calls : call[c] # "panicked"
        /\ \A s \in Seqs : pending[s] # None => call[pending[s]] # "err"
        /\ \A p \in Packets : task[p] = "nested" => sub[p] # None
        /\ \A p \in Packets : task[p] = "panicked" => p \in Calls /\ call[p] = "cancelled"

(* A result is made from a packet that has reached the client.             *)
ResultTaken == \A c \in Calls : slot[c] # None => wire[slot[c].about] = "taken"

-----------------------------------------------------------------------------
(* What the code's own words claim and its behaviour does not bear out.    *)

(* "Send a client event to the server and wait for the response": a call   *)
(* whose response has reached the client returns (business.rs).            *)
ResponseEndsWait ==
    \A c \in SendCalls : (call[c] = "await" /\ wire[c] = "taken") ~> Over(c)

=============================================================================
