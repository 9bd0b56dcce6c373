# A verification development for mania

mania is a client library for the QQ protocol, written in Rust on tokio. This
directory holds TLA+ modules translated from its source, TLC configurations that
check them on small instances, and proofs that TLAPS checks for every value of
the constants. `PROJECT.json` lists, for every definition, the lines of the source
it stands for; for every property, a mutation of the model that breaks it; and
the hazards of the code with the properties that watch them.

Contents: [the system](#the-system), [modules](#modules), [runs](#runs),
[fairness](#fairness), [proofs](#proofs), [disagreements](#disagreements-found-between-the-code-and-its-words),
[what is not modelled](#what-is-not-modelled), [plan](#plan), [how to run](#how-to-run).

Paths below are relative to `src/mania/src/` unless they begin with `src/`.

## The system

One `Client` (`lib.rs`) owns a `Business` task and hands out an `Arc<BusinessHandle>`.
Everything the user does is a method of the handle; everything the server pushes
arrives through the business task and leaves through an event listener.

```
 user ──► operations (core/operation/*) ──► BusinessHandle::send_event / push_event
                │            │                    │  pending_requests[seq] = oneshot
                │            │                    ▼
                │            │              PacketSender ─► channel ─► send_loop ─► server
                │            └─► highway upload (own TCP/HTTP connection)      │
                └─► cache ◄─┐                                                  ▼
                            │               PacketReceiver ◄─ channel ◄─ recv_loop
                            │                    │
                            │              Business::spawn loop: one task per packet
                            └── caching_logic    ▼
 user ◄── watch channels ◄── messaging_logic ◄─ dispatch_sso_packet ─► oneshot of the caller
```

| component | source | state | operations | what is hard | what makes it correct |
|---|---|---|---|---|---|
| request/response core | `core/business.rs` | `pending_requests` (DashMap from sequence number to oneshot sender), the receive loop, a task per packet | `send_event`, `push_event`, `send_packet`, `dispatch_sso_packet`, `spawn`, `reconnect` | answers in any order and from parallel tasks; logic that sends requests itself; timeouts that drop a caller; connection loss | every caller gets its own answer, once; nobody waits for an answer that was delivered; the loop never waits for a task |
| socket | `core/socket.rs` | two bounded channels, the close token, the `select!` of two loops | `send`, `recv`, `send_loop`, `recv_loop` | the token is checked before the channel is used; both channels can be full; framing errors | order, no loss while connected, no loop holds up the other |
| sequence numbers | `core/packet.rs` (`next_sequence`) | one atomic | `next_sequence` from any thread | lazy initialisation by compare-exchange and a spin; wrap at 2^32 | numbers are distinct and consecutive, callers return |
| friend and member cache | `core/cache.rs`, `core/operation/cache_op.rs`, `core/business/caching_logic.rs` | `uin2uid`, `uid2uin`, `cached_friends`, `cached_group_members`; three modes | lookups, refreshes, `fetch_maybe_cached_*`, refresh on join and leave | refreshes of many pages overlap each other and the lookups | a member present all along is found; the cached members converge to the server's |
| highway upload | `core/highway*`, `core/operation/highway_op.rs` | ticket, client, preparation guard; position of each stream | `prepare_highway`, `upload_*`, TCP and HTTP upload, frame codec | concurrent preparation; failure half-way and restart over HTTP; partial frames | one ticket; success means every chunk acknowledged with the right data; uploads end |
| client | `lib.rs` | configuration | `new`, `spawn` | composition | as for its parts |
| packet codec, TLV | `core/packet.rs`, `core/tlv.rs`, `core/event/login/*` | the session's keys | `build`, `parse`, length-prefixed sections, TLV sets, the envelope of login packets | widths and inclusive lengths computed by hand; unknown tags; two protocols, three encryptions | the other side finds every part by its length; an answer means what the server meant |
| event registry and parsers | `core/event*` | registry of commands | `resolve_event`, `build`, `parse`; classification of pushed messages | three levels of type and sub-type numbers, optional contents | a packet that can be parsed is not lost |
| message logic | `core/business/messaging_logic.rs`, `wt_logic.rs` | – | incoming and outgoing message chains, dispatch of events | requests in turn and at once, some of which may fail and some may not | one failure does not spread; a message is posted whole and to the friend its files were announced to |
| event dispatch | `event/mod.rs` | three watch channels | `dispatch_*` | a watch keeps the last value only; the listener marks one version and reads another | an event is read unless a later one has replaced it |
| login, session, key store | `core/operation/wt_op.rs`, `core/event/login/*`, `core/key_store.rs`, `core/session.rs` | `ArcSwap` fields of the key store, session fields, the saved file | QR code login, `online`, heartbeat, `save` | polling under a timeout, field-by-field stores by a task that outlives the call, a file rewritten in place | the credentials are always those of one login; the outcome reported is that of the answer; packets carry keys that belong together |
| operations | `core/operation/common_op.rs` | – | downloads, requests, `send_message` | several requests in a row | paging and composition of results |
| digests, ciphers | `core/crypto/*` | hash states | `StreamSha1`, `TriSha1`, TEA, ECDH | block boundaries | the right bytes are hashed |
| audio | `src/mania-codec` | – | decode, resample, encode | framing | no sample lost |
| entities, builder, packer | `message/*` | streams held in entities | conversion to and from protobuf elements | entities of several elements | pack and unpack agree |
| connection set-up, signing, device, macros, utilities | `core/connect.rs`, `core/ping.rs`, `core/http.rs`, `core/sign*`, `core/context.rs`, `src/mania-macros`, `utility/*` | – | I/O, constants, code generation | – | – |

## Modules

| module | models | state, and what it is in the code |
|---|---|---|
| `Business` | `core/business.rs` | `pending` is `pending_requests`; `slot[c]` the oneshot channel of call `c`; `call[c]` where the future of `send_event`/`push_event` is; `loop` the loop of `Business::spawn`; `task[p]` the spawned `dispatch_sso_packet` of packet `p`, `sub[p]` the call its logic awaits; `link` and `wire` abstract the connection |
| `Rpc` | – | the abstract contract of a call: made once, at most one outcome, success only after its own answer has arrived. `Business` is shown to implement it under a refinement mapping (`KeepsContract`) |
| `Socket` | `core/socket.rs` | `outq`/`inq` the channels, `phase` the task that owns the loops and the close token, `sendLoop`/`recvLoop` with what they hold, `pc[s]` each sender, `rpc` the receiver, `insync` whether the reader stands at a frame boundary |
| `Sequence` | `SsoPacket::next_sequence` | `SEQUENCE` the atomic, `pc[t]` each thread between its atomic operations |
| `Cache` | `core/cache.rs`, `cache_op.rs`, `caching_logic.rs` | `known` the two lookup maps, `cachedFriends`, `cachedMembers`; `op[t]` the operation a task runs, one step per request, map access or round of a loop; `friends`, `members`, `events` the server |
| `Highway` | `highway_op.rs` with its six uploads, `hw_client.rs`, `hw_frame_codec.rs` | `guard`, `ticket`, `client` the fields of `Highway`; of each upload: `pc`, the stream at hand in `part` (a video's thumbnail is its second), the transport `via`, the stream position `pos`, `offset`, the chunk in `frame` and the chunks `accepted` |
| `Login` | `core/operation/wt_op.rs`, the `parse` of `wtlogin.rs` and `trans_emp.rs`, `core/key_store.rs`, the part of `packet.rs` that reads the key store | `store` the fields of `KeyStore`; of each attempt: `pc` the future of `login_by_qrcode`, `stage` the dispatch task of its answer and `stored` how far it has stored; `pkt` a packet being built, `hb` and `held` a heartbeat and its sender, `saver` a save and `file` what it leaves |
| `PushMsg` | `PushMessageEvent::parse` | none: `Parse` from the type numbers and the contents of a packet to the event it makes |
| `Messaging` | `messaging_logic.rs`, `wt_logic.rs`, `common_op.rs`, the announcements of `highway_op.rs`, `event/mod.rs`, the listener of `src/examples/multi_login.rs` | `todo[t]` the requests a task has still to make, in stages of those that are out at once; `known[t]` what they brought; `chan` the watch channels, `mark` and `listener` the listener: waiting, about to read, answering a message, or dead |
| `Packet` | `PacketBuilder`, `PacketReader`, `SsoPacket`, `OidbPacket`, `tlv.rs`, the login envelope, the padding of TEA | none: functions from sequences of cells to sequences of cells, written with folds and recursive functions |
| `Wire` | a thread that builds a packet with a number from `Sequence`, the server that reads it and answers, the client that parses the answer | `session` the key store, `sent` a packet, `told` and `heard` its answer as meant and as understood; extends `Sequence` and `Packet` |
| `MCBusiness`, `MCCache`, `MCHighway`, `MCMessaging`, `MCWire` | – | definitions for TLC: symmetry sets, sizes, packets, sessions |
| `BusinessProofs`, `SocketProofs`, `CacheProofs`, `HighwayProofs`, `LoginProofs`, `MessagingProofs` | – | theorems about the module of that name |
| `WireProofs` | – | theorems about `Sequence`, the codec in `Packet`, and `Wire` |
| `ListLemmas` | – | lemmas about lists and lists of lists, for `MessagingProofs` and `WireProofs` |

An operator whose comment begins with "Mutant of" is no part of the model: it is a
variant with a plausible bug, used to see that a property notices it.

Some choices a reader of the code will want to know:

* **Atomicity.** A step is what happens between two points where another task can
  come in: an `await`, an access to a concurrent map, an atomic operation. Thus
  `send_packet` is four steps (`Build`, `Register`, `CheckToken`, `Post`), and
  `remove` followed by `tx.send` is one: nothing else can touch a sender that has been
  taken out of the map, and whether its receiver is alive is decided at that moment.
* **Answers.** The code recognises an answer by its sequence number only. `Business`
  does the same: `Finish` looks up `pending[seq[p]]` whatever `p` is. That the
  server numbers its pushes apart from requests is an assumption (`SeqAssumption`),
  because the code relies on it and nothing in it can ensure it.
* **Panics.** Each part has an outcome for the `expect`, `unwrap` or index that can fail in it, and is
  over for good then, as a tokio task is. In `Business` a call, the loop or a dispatch task at its
  `expect("receiver dropped")` is `"panicked"`. A dispatch task is `"unwound"` when
  `resolve_event`, a parser or the logic panics (for one, `t543.rs:11`): it ends before it takes out the
  entry of its caller, who is told nothing. A packet that `SsoPacket::parse` does not accept can
  also panic in it, in the loop. In `Messaging` a packet too short for its
  parser, or with an entity that cannot be unpacked, `Panics`.
* **Timeouts.** Only `login_by_qrcode` puts a timeout around calls. `Cancel` drops the
  future at any of its awaits.
* **Errors of logic and parsers** are nondeterministic in `Business`, panics included: `EndLogic` and
  `PrepareFails`. What the parsers make of which contents is in `PushMsg` and `Packet`.
* **`Login`.** Users save and go online between attempts, as the example does. The uin is saved and loaded
  with the credentials, is in every packet (`packet.rs:254`) and is what an answer is checked against
  (`packet.rs:305`), but it does not come with them: every poll overwrites it with that of whoever has scanned
  the code (`wt_op.rs:85`). In the model it is named by the attempt whose poll stored it and by
  the account. Two things follow from the code. A new attempt replaces the uin of an
  earlier login while the `d2` of that login stays, until it is stored anew; `WholeLogin` says that
  nothing else separates the two. And the uin is asked before the query for the state of the code, so that a code
  scanned and confirmed within one round leaves the uin at 0 (`quick`). The signature
  of a new session is `Some` of zeros, so that "QR code not fetched" cannot come up. An error
  of the last flush of a save is not reported, as in the code.
* **`Messaging`.** Packets and messages share no state but the channels, so that a workload is
  either two packets or one message. Chains for groups and friends are those that the
  builder makes. When a request that must succeed fails among others that are out at once
  (`join_all`), what becomes of the others cannot be observed and is left out. A
  merged message of a group is asked for under the empty uid of its chain, a request of a
  friend ignores the uin in the packet: both are modelled as they are.
  Of a video given as a stream nobody sets the size (`builder.rs:80-110`, `video.rs:44-64`): `upload` gets 0,
  seeks to the start, transfers nothing and returns `Ok` (`SizeGiven`, `SeekOnly`). The listener of the
  example answers "/mania ping" in the loop in which it reads: `Pong` waits for `send_message`, and ends the
  listener if that fails.
* **`Wire`.** A cell stands for a byte or for a text, a key or a device datum as a whole. A
  cipher is a shift by its key, zlib a reversal with a mark, protobuf a mark before the content:
  enough to tell whether the right key, order and nesting were used. `section_16` panics
  above its range, which no packet reaches. A packet is built in the step that
  takes its number; the interleavings with the stores of a login are in `Login`.

## Runs

| run | instance | what it shows |
|---|---|---|
| `BusinessSafety` | two user calls that may time out, one nested call, one push, three numbers | own answers, no lost wake-up, dropped receivers only after a timeout, and the refinement of `Rpc`, with tasks that panic anywhere |
| `BusinessLiveness` | a user call, two nested calls and a one-way call over *three* numbers | entries overwritten: no call is answered twice, an entry leaves by its delivery or by reuse; calls return although dispatch tasks wait for answers themselves, unless their own answer is refused or panicked over |
| `BusinessRefused` | one call | violation, see below |
| `Socket` | two senders with two packets each, four frames of which the last is too long, capacity 2 | order in both directions, progress of senders and receiver |
| `SocketPanics` | one sender, one frame | violation, see below |
| `Cache` | two tasks, three operations, one change at the server, two pages, all three modes | who is found while refreshes overlap and fail; when the cached members equal the server's |
| `CacheRoster` | as above, no cache | violation, see below |
| `Highway` | a video of three chunks with a thumbnail of one, entities of two chunks and of one, the former declared longer than it is | one ticket, delivery of whole streams across a fallback; an upload ends although the others wait for ever for anything but a ticket |
| `HighwayEnd` | one upload | violation, see below |
| `Login` | two attempts, one account, one heartbeat, one save, one crash | credentials of one login, beside the uin its polling asked for, at every quiet moment and after a restart; the outcome told is the answer's; keys of packets; login and heartbeat end |
| `Messaging` | every kind of packet beside another one; every pair of media in a message; every request answered or failed | no notice lost, failures stay where they are, messages posted whole (as far as sizes are known) and to the right friend, events read |
| `Wire` | two threads, four numbers around the wrap, five kinds of packets, two sessions, every form of answer | numbers consecutive, callers return, packets readable by their lengths, answers understood |

The bounds, and why they are enough:

* `Business`: two user calls are needed for an answer to reach the wrong caller, a
  nested call for a task that waits, a push for a packet without a caller. Three
  numbers for three calls exclude reuse, two force it. Numbers are compared for
  equality only, so more of them add nothing; the proofs cover any.
* `Socket`: `Capacity` 2 with two senders of two packets each fills the queue with a sender
  still waiting; four frames against the incoming queue and the reader's hand leave
  one on the wire.
* `Wire`: two threads are the least that race for the initialisation. With `Width` 65536 and
  offsets 65533 and 65534 the counter wraps after two or three of the four numbers;
  the properties of numbers are stated up to the wrap (`FirstRound`), which the code
  reaches after more than four thousand million packets. `Byte` = 16 lets a cell hold
  every protocol number and a length of two cells reach 255, above every length that occurs.
* `Cache`: `MaxOps` = 3 over two tasks lets one task run two operations across the
  other's refresh; `MaxChanges` = 1 gives each history one join, leave or change of
  friendship at any moment. Two pages are the least with a first and a last one.
  A person stands for a uin and its uid, so that lookups in both directions are one
  operation.
* `Highway`: three uploads are the least for one to fail in the guard while two queue
  behind it; three chunks the least with a first, a middle and a short last one; one entity of
  two streams has every way to go on from the first to the second.
* `Login`: one account keeps the run short (with two it has some two million states and takes more than
  five minutes). The uin is compared with that of the attempt that stored it (`by`) and with "nobody", so
  that a uin left over from another attempt shows with one account as well; the proofs are for
  any accounts. One heartbeat: going online twice is allowed by the actions but is not in the instance.
  The answer to an attempt that has timed out meets the next attempt, so that two are
  enough; one crash can fall at every point of a save that overlaps either of them. A
  second save or crash begins from a state that the first already leads to.
* `Messaging`: the instance takes every row of the parser's tables at least once, each
  with a second packet whose event goes to the same channel or to another one; pairs of
  entities are the least with an order. More packets meet only in the channels, which
  keep one value each.

Deadlock is not checked: each of these systems stops when its bounded work is done
or its connection is closed, and liveness properties say where stopping early would be wrong.

## Fairness

* `Business`: weak fairness of each call's own steps, of the loop and of each
  dispatch task (the runtime polls whatever is ready), and of the server's answer to a
  request that reached it. None for the user, for timeouts or for the connection.
  `AwaitReturns` is stated call by call. A call returns if the connection stays up, the receive loop does not
  panic, and neither its own answer nor that of a nested call is refused or ends in a panic of
  its dispatch task (`AnswersUsable`). In each of these cases the code does wait for ever
  (`BusinessRefused` shows one); what befalls the answers to other calls does not matter.
* `Socket`: weak fairness of the two loops; strong fairness of a sender's
  `SendQueue`, because tokio's bounded channel serves waiting senders in order, so that a
  sender cannot be overtaken for ever. Who calls `recv()` is up to the application:
  `FramesDelivered` states the fairness it needs as its own premise.
* `Wire`: weak fairness of every thread inside `next_sequence`, none of the server.
* `Highway`: weak fairness of each upload's steps where it does not wait for an answer; strong fairness of
  `Lock`, because tokio's `Mutex` is fair. Nothing is assumed of the steps that await the ticket,
  the upload request or the response to a chunk (`Awaiting`): `send_event` has no timeout and does not fail
  when the connection breaks, and neither has a read of a response. What `UploadEnds` needs of them is its premise: the
  upload's own requests and responses return, and requests for a ticket do, whoever makes them,
  because `prepare_guard` is held meanwhile (`highway_op.rs:58-61`) and one that hangs stops every
  upload. That other uploads fail in the guard or wait for ever after it does no harm.
* `Login`: weak fairness of what a task does without waiting (`StoreKey`, `StoreTemp`,
  `SendLogin`) and of `PacketKey`, whose push waits for room in the socket's bounded channel: that there is room in
  the end is `SendersProgress` of `Socket`. Strong fairness of `Timeout`, which is possible only where the future
  waits, again and again, and of `HeartbeatEnds`, because `select!` takes one of the ready
  branches at random. None of the server, the phone or the user: `LoginReturns` holds by the
  timeout alone.
* `Messaging`: weak fairness of the send of an event and of the listener's look; strong fairness of its
  branches, again because of `select!`. That requests return is not assumed. `EventRead` has as premises
  that the packet's own requests do (for which `AwaitReturns` gives the conditions), and that the messages
  with which the listener itself answers return without an error: it awaits and unwraps them in the loop in which it reads
  (`src/examples/multi_login.rs:97`), and reads nothing more if one hangs or fails. The
  requests of other packets may hang.

## Proofs

`TLC` has checked each inductive invariant on the instances above before it was proved.
The proofs assume only the named `ASSUME`s of the modules.

**`BusinessProofs`.** `TypeCorrect`, then `TableInvariant`: `Spec => []TableInv`. The
safety properties are not inductive: that a call gets its own answer depends on how its
entry came into the table. `TableInv` adds that a call has no trace anywhere before
it has a number (`FreshCalls`); that an entry sits under the number of a call that has
registered and has no result (`EntryOfRegistered`); that numbers of calls come from the
counter and those of pushes do not (`SeqOrigin`); that until the counter comes round
two calls never share a number (`SeqUnique`); and that a call on its way to its
answer can be found (`ActiveIsRegistered`). Each part has its lemma with one step per
action. `OwnAnswers`, `AwaitingRegistered` and `PendingUnanswered` follow, for any sets
of calls and pushes and any size of the counter, and so does the action property
`EntryLeaves`: the one step besides a delivery that disturbs an entry is `Register` on
its number, which `SeqUnique` excludes until the counter comes round.

`PanicsExplained` needs `OpenInv`: with the connection up, a call that is over and still has
an entry can only have been cancelled, since an error either comes before the entry is
made or from a result, which takes the entry away.

`ImplementsContract` is the refinement: under the mapping `Status`/`Received` every step of
`Business` is a step of `Rpc` or leaves what the caller sees as it is. The interesting
step is `Return`, where success must come after the call's own answer: it does because the
result is made from that answer (`OwnAnswer`) and from a packet taken in by the loop
(`ResultTaken`). The theorem is conditional on `[]NoReuse`, as `OwnAnswer` is: after
2^32 packets an answer can reach the wrong call.

**`WireProofs`.** Of `Sequence`: `FirstRoundInv` says that before the first offset is drawn nothing has
been taken and the counter is 1 exactly while one thread draws, and after it the
counter is ahead of the offset by what was taken. `Consecutive` and `SingleInitialiser`
follow, for any number of threads, any width and any set of offsets. The step that
needs care is `Enter` on a counter at 0: it is possible only before the first draw,
because in the first round the counter cannot have come back to 0.
Of `Wire`: it draws its numbers by the actions of `Sequence` (lemma `DrawsFromSequence`, which holds by
construction), so that `PacketsNumbered` carries `Consecutive` over to the packets that are built.
Of `Packet`: `TeaRoundTrip`, decryption undoes encryption for every text and key. Its core is
`PaddedShape`: the fill is 2 to 9 cells, makes whole blocks, and stands in the first cell, where
`tea_decrypt` looks for the place the text begins at.

`PacketReadableAlways` is the main result about the codec: whatever is sent can be taken apart by its lengths
alone, and gives the command, the number, the sender and the contents it was built of. It goes up in layers:

1. `NumberBack`: a number in one, two or four cells is read back (`Value` of `UInt`), for a cell of any
   width from 16 on. `Value` and `Read` are folds; `ValueOne`, `ValueTwo`, `ValueFour` and the lemmas on `ReadAt`
   unfold them.
2. A field is read back wherever it stands: a number, a counted text, a blob, skipped cells.
   `Laid(l, c, m, v)` says that the reader of layout `l`, put before the cells `c` followed by anything, takes
   their `m` cells, finds the values `v` and leaves the rest; `After` says the same of a reader that stands
   after a part whose values do not matter. Each grows by a field at a time.
3. The layouts the server reads are grown in this way: protocol 12 and 13 with their bodies, the
   envelope (`EnvelopeOpens`, with `TeaRoundTrip` for what is sealed in it), and the two lengths inside
   a `TransEmp` (`TransEmpReads`), which the code writes from cells that come after them.
4. `BuildReadable` puts them together for the packet of a step; `ReadableStep` keeps it while the session
   stays what it is. `ReadableInv` adds to `PacketReadable` the types and that the key store is one of `Sessions`.

It is proved under `WireAssumption`, `KindsAssumption` and `SessionsAssumption`: a u32 is four cells; the
kinds of packets are the five there are; contents and keys consist of cells; there is no `d2Key` without `d2` (both are
empty in a new key store, and a login stores `d2` first, `wtlogin.rs:82-86`; a packet that is built while it stores
them is `Login`'s subject); and the contents are short enough for a u32 to count the
packet. In the code a cell is a byte and the contents are some hundred bytes at most.

`AnswerUnderstoodAlways` is its counterpart for the way back: the client makes of every answer what the
server meant by it. It refuses an unknown protocol, a missing or foreign account, an unknown flag and an
error code, in that order, and otherwise gets the event that was sent, encrypted with either key or not,
compressed or not. The layers, each proved from the one before:

1. `SetUnderstood`: of any set of items, `ReadTlvSet` finds the last decodable one of each tag, and nothing
   else (`ItemsToFind`). The set is cut into its items from behind (`Remainders`): `SetsAlong` names
   the cells that are left after each item, `ItemRead` reads one of them, `FoundNext` for what the fold has found, and
   `SetFold` for the whole. An unknown or undecodable item costs itself and nothing behind it,
   because its content is read whatever becomes of it.
2. `LoginUnderstood`, `OidbUnderstood`: the envelope of an answer and what lies in it, or the code and body of
   an oidb message. `EventUnderstood` chooses among them by the command, as `resolve_event` does.
3. `BodyUnderstood`: number, code, command and data of a body, with `DeflateBack` for a compressed one: what
   inflating writes back has its length in front, as what came uncompressed has.
4. `TypeUnderstood` and `RouteUnderstood`, with `SealOpens` for the encryption: `PacketUnderstood` puts the
   checks in the order in which the code makes them.
5. `HeardIsMeant` is the step `Answer`. The inductive invariant, `UnderstoodInv`, adds what must be known of
   the packet that is answered: its number is a u32, its command that of its kind (so that the answer reaches
   the right parser), and the key store is still the one it was built from.

Besides the assumptions above it rests on `AnswersAssumption`: another account has another number than the
session's; items and answers fit the prefixes that count them; and no item is one that makes the client panic.
The last one is a limit of what is proved, and the code's: `t543.rs:11` expects its message to be decodable
and the readers of several fields expect them to be there, so that a server that sends less ends the task that
dispatches the answer (`business.rs:168`), and the answer is lost.

**`SocketProofs`.** `Types` strengthens `TypeOK` by the type of what each loop holds and by
a sender having packets left between its check and its place in the queue. `Outbound` rests on one
equation, `OutInv`: what was accepted is what was written, what the loop holds and what is
queued, in this order. `Inbound` rests on the same for frames: what was returned, queued,
held and on the wire is 1 to the last that arrived, as long as no frame above the limit has
been met; when a loop ends, the part it held is lost from the end, and what remains is a
prefix. The lemmas about prefixes of concatenations are stated once.

**`CacheProofs`.** `TypeInv` contains `Shape`, which operation can be at which point. The lemmas
`...Moves` reduce the steps of a task to what they leave in its record, so that each
later invariant is checked once per kind of record. `SteadyFound` and `RosterWhole` follow from
`GroupInv`: while a task pages through a group it has collected everybody of the pages so far
who has been there all along, and what is cached has them too. `FreshWhenQuiet` follows from
`FreshInv`: an unblemished group has at most one refresh at a time, and once its events are
handled that refresh has collected exactly what the server has on its pages so far
(`Exact`), or the cache has it. `FriendFound` follows from `FriendInv`: after a complete refresh
the cached friends are whole, or a task that is refilling them holds the rest
(`Refilled`); it is an action property, and `MissedLookup` derives from the step that misses
somebody that such a task exists.

**`HighwayProofs`.** `TypeCorrect` includes that no stream is read past its end. `TicketFetchedOnce`
rests on `PrepareInv`: exactly the holder of the guard is inside `prepare_highway`, the ticket is
asked for only while there is none, and whoever has left it finds a client. `UploadWhole` rests on
`ChunkInv`, one instance of `TaskChunks` per upload: the offset counts the accepted chunks of the
stream at hand, all of them right, and the stream stands at the offset whenever a chunk is about
to be read. The latter is what the seek at the start of `http_upload` is for: without it (the
mutant `RestartWithoutSeek`) a fallback delivers the wrong bytes at the right offsets. Lemma
`NextPosition` says that reading on from a position cut at the end of the stream is
cut the same way, and covers streams shorter than declared. The steps of one
upload do not disturb another (`StepElsewhere`).

**`LoginProofs`.** Five invariants on top of `TypeInv`, whose part `Progress` ties the place of an
attempt to the stage of its answer. `OutcomeInv`: a result in the oneshot says what has been
stored. `InTurn` and `AccountInv`: attempts follow each other, and from an attempt's poll to
the next one's the uin is the one it stored, of its account. `UinInv`: a uin is of the account that has scanned the code of the attempt named in it
(`OfItsAccount`), in the store, in what a save has read and in the file; where there are
credentials, some attempt has polled (`Fresh`); and a file never
has the uin of an attempt that still runs. `WholeInv`: at most one answer is being stored
(unless `mixed`), before it and after it the credentials are one login's, and so are the fields a save
has read and the file, or the file cannot be read (so that a crash leaves an unreadable file or a
whole one). `PacketInv`: while an attempt owns the store, the key in it is that of its confirmation
or its answer, and a packet under way has read what belongs together. Each is proved for any
number of attempts, accounts, heartbeats, saves and crashes.

**`MessagingProofs`.** Each task of `Messaging` has a program: a list of stages, each a set of
requests, computed from the packet or the message (`Program`). What the four properties
say is about the whole program, while a step sees its first stage only. The invariant `Inv`
relates the two. `Covered`: every request of the program is still in `todo`, has been answered, or has failed
and was one the code makes without `?`; `Once`: no request is made twice, and none is both
answered and failed. `Fallback` and `SecondTry` are about the one request that adds another, the video of a group;
`FriendFirst` says that a message to a friend is before or after its lookup, and that all
announcements were made under the outcome; `Channel` and `Counted` bound by the versions and
marks how often an event can still be read. The argument has three layers:

1. `ListLemmas`: what stands in a concatenation and in `FlattenSeq` of a list of lists, by induction
   over its length. Induction is done by the least counterexample, from the well-foundedness of `<`,
   because the induction theorems of the library take an operator.
2. Every program the code makes is `Fit` (`NoticeFits`, `ChainStepsShape`, `OutgoingFits`): its
   stages are not empty and no request is in it twice. `OutgoingShape` says that it transfers whatever the server asks
   for and the library knows the size of, `ParseShape` what the parser can return, and `ChannelKnown` that there is a channel for it.
3. One lemma per action (`ReceiveInv` to `LookInv`). `OneTask` reduces them to the task that moves; `GoesOn` and
   `GoesAgain` say what is left of a program when a request has ended.

The packets, messages and workloads are any that `MessagingAssumption` and
`WorkloadsAssumption` allow: pushed packets of any type, messages of any entities, where the server asks
only for the parts an entity has.

Only model-checked is the liveness, which is out of the prover's reach: `AwaitReturns`, `CallersReturn`,
`SendersProgress`, `FramesDelivered`, `UploadEnds`, `LoginReturns`, `HeartbeatStops` and `EventRead`. Every
invariant and every other action property of a passing run, and the refinement of `Rpc`, has its theorem.

## Disagreements found between the code and its words

* `BusinessRefused`: `send_event` is documented to wait for the response. A response that
  `SsoPacket::parse` turns into an error is logged and dropped, and the caller waits
  for ever.
* `SocketPanics`: `expect("channel closed")` in `send` and `recv`. The ends of the channels go
  before the close token does, so that a disconnect after the check of the token
  panics the caller.
* `CacheRoster`: without a cache, `fetch_maybe_cached_group_members` inserts every page under
  the group's key in place of the one before and yields the last page only; its
  sibling for friends accumulates.
* `HighwayEnd`: `upload` says it falls back to HTTP when TCP fails. If the server
  closes the connection between two frames, `stream.next()` is `None` for ever and the
  loop around it never ends.

Seen while modelling and not checked by a run of their own:

* The `expect("receiver dropped")` of `dispatch_sso_packet` fails for the late answer to a call
  dropped by its timeout. `PanicsOnlyAfterCancel` says that, with the connection up, this is
  the only way.
* A receive loop on a closed connection spins: it has no effect on any variable. A panic of
  `SsoPacket::parse` ends the loop (`LoopTake`), and no call returns any more; the answers of `Wire` bring none
  about (`AnswersAssumption`).
* A panic in a parser or in the logic ends the dispatch task before it removes the entry (`business.rs:243-255`):
  the caller waits for ever, with the connection up (`EndLogic`).
* A video given to the builder as a stream is posted without its data: its size stays 0, and the upload of nothing
  succeeds. `SentWhole` is stated for the parts whose size is known.
* A request for a ticket that is never answered keeps `prepare_guard`, and no upload gets past it.
* A new attempt to log in overwrites the uin of the stored login (`wt_op.rs:85`). If it fails, packets and a key
  store saved afterwards pair the old `d2` with another uin, or with 0.
* The listener of the example ends, or stands still, if its own answer to "/mania ping" fails or hangs.
* After the sequence counter has wrapped to 0, a caller that adds 1 to the "being initialised" mark
  can leave the others spinning.
* A thumbnail that `gen_thumbnail` makes (`message/entity/video.rs:62-80`) stands at its end, so
  that `resolve_video` announces the digest of nothing. Likewise an image or a video that is given as
  a stream stands at its end after an upload, so that a second upload of the entity
  announces the digest of nothing; `resolve_audio` seeks back. `Highway` has no digests.
* A comment on `random_trace` speaks of 32 digits; `{:x}` without padding can make fewer.
* `listener` of the example may handle an event twice: `changed()` marks one version, `borrow()` reads
  a later one. `Messaging.TypeOK` bounds it by two.
* When the bot's own name is changed twice in quick succession, the name in the key store and the one in
  the last event can differ: the dispatch tasks are in no order (`business.rs:168`).

## What is not modelled

`PROJECT.json` lists every component with its status. Left out: choice of a server, HTTP and ping
(I/O); the sign service (external); protocol and device constants; code generation, whose
results are modelled where they are used; image headers and compression; audio samples; the
digests and ciphers themselves (arithmetic on bits with no state of the program); the
conversion of single entities and of single protobuf messages, field by field.

Of the modelled parts, these are left out: in `Business`, `reconnect` (nothing calls it); in
`Socket`, partial reads and writes inside a frame (the loops use `read_exact` and
`write_all`, so that they show only as a failure); in `Cache`, the attributes of friends and
members other than their identity; in `Highway`, the contents of heads and tickets, digests, and
the conversion of a record, whose result is the stream that is uploaded; in `Login`, the TLV
contents of the requests (see `Packet`); in `Messaging`,
the fields copied into events, and packing of merged messages (`todo!()` in the code); in `Packet`,
single TLV items without inner structure and the bits of TEA.

## Plan

The order was by how much of the system's behaviour depends on the part.

1. *Done*: `Business` with `Rpc`, `Sequence`, `Socket`, `Cache`, `Highway` for all uploads, `Login`,
   `PushMsg`, `Messaging`, `Packet` and `Wire`; the proofs above.
2. `Client`: `Socket` and `Business` composed, with `Socket`'s queues in the place of `link` and
   `wire`; to be shown to implement `Business`.
3. Digests block by block (`StreamSha1`, `TriSha1`) and the framing of audio as functions,
   against reference definitions.

## How to run

```
tlc -workers 2 -config BusinessSafety.cfg MCBusiness
tlapm BusinessProofs.tla
```

`PROJECT.json` names the module and configuration of every run. No run takes longer
than a minute or two on two cores; the largest is `Cache` with 4.6 million states.
