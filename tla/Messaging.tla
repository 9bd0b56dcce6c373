----------------------------- MODULE Messaging -----------------------------
(***************************************************************************)
(* What the business logic does with a pushed packet and with a message    *)
(* that is sent (core/business/messaging_logic.rs and wt_logic.rs), the    *)
(* requests it makes on the way (core/operation/common_op.rs and           *)
(* highway_op.rs), the three watch channels on which the user hears of     *)
(* events (event/mod.rs), and a listener as in examples/multi_login.rs.    *)
(*                                                                         *)
(* Every packet and every message has a task of its own.  A task is a      *)
(* sequence of stages; a stage is a set of requests that are out at once.  *)
(* A request is answered or fails; where the code asks with `?`, a failure *)
(* ends the task, elsewhere the task goes on without the answer.           *)
(***************************************************************************)
EXTENDS PushMsg, FiniteSets, SequencesExt

CONSTANTS
    Pushes,     \* packets that the server pushes
    Messages,   \* messages that the user sends
    Workloads,  \* which of them there are, and what: records of two functions
    FullMembers \* FetchGroupMemberStrategy::Full

ASSUME MessagingAssumption == FullMembers \in BOOLEAN /\ Pushes \cap Messages = {} /\ IsFiniteSet(Pushes)

(* The parts of an entity that the server may ask for.                     *)
PartsOf(kind) ==
    IF kind = "video" THEN {"file", "thumb"} ELSE IF kind \in {"image", "record"} THEN {"file"} ELSE {}

(* An entity: the parts the server will ask for, and those that the user   *)
(* gave as a stream and not as a path.                                     *)
Entities == [kind : STRING, needs : SUBSET {"file", "thumb"}, streamed : SUBSET {"file", "thumb"}]

ASSUME WorkloadsAssumption ==
    \A w \in Workloads :
        /\ DOMAIN w.pushes \subseteq Pushes /\ \A p \in DOMAIN w.pushes : w.pushes[p] \in Packets
        /\ DOMAIN w.messages \subseteq Messages
        /\ \A m \in DOMAIN w.messages :
              LET entities == w.messages[m].entities IN
              /\ entities \in Seq(Entities)
              /\ \A i \in 1 .. Len(entities) : entities[i].needs \subseteq PartsOf(entities[i].kind)

VARIABLES
    given,      \* one of Workloads
    pc,         \* where each task is
    todo,       \* its stages still to come
    known,      \* the requests answered, as pairs of what for and which
    uid,        \* uid of the chain
    packet,     \* the packet a message was posted in
    name,       \* the packet the name in the key store is from
    chan,       \* the value in each watch channel, and its version
    listener,   \* the channel whose value the listener is about to read,
                \* or that it is answering a message, or has panicked
    mark        \* the versions it has been woken for

(* History: the requests that failed, the uids under which files were      *)
(* announced, the version each event was sent as, how often it was read.   *)
VARIABLES failed, peers, sentAs, reads

tasks   == <<pc, todo, known, uid, packet, name>>
history == <<failed, peers, sentAs, reads>>
vars    == <<given, tasks, chan, listener, mark, history>>

Tasks    == Pushes \cup Messages
Channels == {"system", "friend", "group"}
Nobody   == "nobody"
Answering == "answering"
Dead      == "dead"

Settled  == {"sent", "dropped", "refused", "panicked", "ok", "err"}
Push(p)    == given.pushes[p]
Message(m) == given.messages[m]

(* A request: what it is for (a role, the place of an entity in a chain,   *)
(* or the chain itself), what is asked, and whether the task ends when it  *)
(* fails.                                                                  *)
Itself == 0
Try(of, ask)  == {[of |-> of, ask |-> ask, must |-> FALSE]}
Must(of, ask) == {[of |-> of, ask |-> ask, must |-> TRUE]}
InTurn(of, asks, Step(_, _)) == [i \in 1 .. Len(asks) |-> Step(of, asks[i])]

-----------------------------------------------------------------------------
(* The roles whose uin a notice is delivered with, in the order in which   *)
(* they are looked up, and the channel it goes to.                         *)
GroupRoles ==
    {<<"invite", <<"invitor">>>>, <<"admin", <<"member">>>>, <<"groupPoke", <<>>>>,
     <<"increase", <<"member", "invitor">>>>, <<"decrease", <<"member", "operator">>>>}
SettingRoles ==
    {<<"mute", <<"operator">>>>, <<"memberMute", <<"operator", "member">>>>, <<"name", <<>>>>,
     <<"todo", <<"operator">>>>, <<"reaction", <<"operator">>>>}
MessageRoles ==
    {<<"recall", <<"member", "operator">>>>, <<"essence", <<>>>>, <<"title", <<>>>>, <<"enter", <<>>>>,
     <<"invitationRequest", <<"member", "invitor">>>>}
FriendRoles ==
    {<<"friendRecall", <<"friend">>>>, <<"pin", <<"friend">>>>, <<"friendPoke", <<>>>>,
     <<"friendNew", <<"friend">>>>, <<"friendRename", <<"friend">>>>, <<"friendRequest", <<"friend">>>>}
SystemRoles == {<<"botRename", <<>>>>, <<"kick", <<>>>>}
Roles == Table(GroupRoles \cup SettingRoles \cup MessageRoles \cup FriendRoles \cup SystemRoles)

(* Mutant of Handled: an event left out of the list.                       *)
HandledWithoutPin == (DOMAIN Roles \ {"pin"}) \cup {"joinRequest"}

(* The events that #[handle_event] registers messaging_logic for; others   *)
(* pass without a trace.                                                   *)
Handled == DOMAIN Roles \cup {"joinRequest"}

ChannelOf(event) ==
    IF event \in DOMAIN Table(SystemRoles) THEN "system"
    ELSE IF event \in DOMAIN Table(FriendRoles) \ {"pin"} THEN "friend" ELSE "group"
ChannelOfChain(typ) == [group |-> "group", friend |-> "friend", temp |-> "system"][typ]

(* A recall and the mute of a member may come without an operator.         *)
RolesOf(p, event) ==
    IF event \in {"recall", "memberMute"} /\ ~Push(p).operator
    THEN <<"member">> ELSE Roles[event]

(* Whether a request to join is known depends on two lists of requests.    *)
(* Their entries are resolved at once; the one that matches is found by    *)
(* the uin of its target, and an entry whose target failed matches none.   *)
GroupRequests(p) ==
    << Must("join", "requests"), Must("join", "filtered") >>
    \o IF Push(p).listed
       THEN << Must("join", "target") \cup Try("invitor", "stranger")
                \cup Try("operator", "stranger") >>
       ELSE << >>
JoinSteps(p) == << Must("member", "stranger") >> \o GroupRequests(p)

NoticeSteps(p, event) ==
    IF event = "joinRequest" THEN JoinSteps(p)
    ELSE [i \in 1 .. Len(RolesOf(p, event)) |-> Try(RolesOf(p, event)[i], "uin")]

(* When a member joins or leaves, caching_logic is registered as well and  *)
(* refreshes the members, before or after (the link order decides), unless *)
(* it is the bot that left.  A refresh after the send is module Cache's.   *)
Caching(event) ==
    {<<>>} \cup IF event \in {"increase", "decrease"} THEN {<<Try("cache", "refresh")>>} ELSE {}

(* The requests for an entity of an incoming chain: the url of an image,   *)
(* unless it has one or has no index ("imageKnown"); the chains of a       *)
(* merged message, unless it has some; the url of a file; a recording, by  *)
(* its node or its uuid, of which "recordBare" has neither; a video, for   *)
(* which in a group the uid of the sender is looked up first.              *)
FetchImage(typ)  == <<IF typ = "group" THEN "groupImage" ELSE "c2cImage">>
FetchChains      == <<"multi">>
FetchGroupFile(typ) == IF typ = "group" THEN <<"groupFile">> ELSE <<>>
FetchRecord(typ) == <<IF typ = "group" THEN "groupRecord" ELSE "c2cRecord">>
FetchVideo(typ)  == IF typ = "group" THEN <<"uid", "video">> ELSE <<"video">>
Fetch(typ, entity) ==
    CASE entity = "image"     -> FetchImage(typ)
      [] entity = "multi"     -> FetchChains
      [] entity = "groupFile" -> FetchGroupFile(typ)
      [] entity = "c2cFile"   -> <<"c2cFile">>
      [] entity = "record"    -> FetchRecord(typ)
      [] entity = "video"     -> FetchVideo(typ)
      [] OTHER -> <<>>

(* The sender of the chain, or the receiver, in the cache of friends or of *)
(* the members of a group.                                                 *)
Metadata(typ) ==
    IF typ = "friend" \/ (typ = "group" /\ FullMembers) THEN <<Try(Itself, typ)>> ELSE <<>>

ChainSteps(chain) ==
    FlattenSeq([i \in 1 .. Len(chain.entities) |->
                  InTurn(i, Fetch(chain.typ, chain.entities[i]), Try)])
    \o Metadata(chain.typ)

-----------------------------------------------------------------------------
(* An upload fetches the ticket, opens the stream, resolves it, announces  *)
(* it, and transfers what the server asks for, each part under a command   *)
(* of its own.  An image is hashed and its head is read; of a video the    *)
(* thumbnail is hashed too; a recording is encoded anew, and hashed then.  *)
ImageResolved  == <<"hash", "head">>
VideoResolved  == <<"hash", "hashThumb">>
RecordResolved == <<"encode", "hash">>
Announced(resolved) == <<"ticket", "open">> \o resolved \o <<"announce">>

(* The size handed to HighwayClient::upload is the entity's: taken from    *)
(* the file when a path was given, from the user for the stream of an      *)
(* image, from the encoded data of a recording; a thumbnail made by the    *)
(* library has its own.  Nobody sets the size of a video, or of its        *)
(* thumbnail, given as a stream: it stays 0 (builder.rs, video.rs).        *)
SizeGiven(e, part) == e.kind # "video" \/ part \notin e.streamed

(* With size 0 the loop over the offsets ends at once: the stream is set   *)
(* to its start, nothing is transferred, and upload returns Ok.            *)
SeekOnly == [file |-> "seek", thumb |-> "seekThumb"]

(* A u_key for the part: upload is called.                                 *)
Needed(e, part, command) ==
    IF part \notin e.needs THEN <<>>
    ELSE IF SizeGiven(e, part) THEN <<command>> ELSE <<SeekOnly[part]>>

(* Mutant of GroupVideo: the thumbnail is not transferred.                 *)
GroupVideoWithoutThumb(e) == Announced(VideoResolved) \o Needed(e, "file", "1005")

GroupImage(e)  == Announced(ImageResolved) \o Needed(e, "file", "1004")
FriendImage(e) == Announced(ImageResolved) \o Needed(e, "file", "1003")
GroupVideo(e) ==
    Announced(VideoResolved) \o Needed(e, "file", "1005") \o Needed(e, "thumb", "1006")
FriendVideo(e) ==
    Announced(VideoResolved) \o Needed(e, "file", "1001") \o Needed(e, "thumb", "1002")
GroupRecord(e)  == Announced(RecordResolved) \o Needed(e, "file", "1008")
FriendRecord(e) == Announced(RecordResolved) \o Needed(e, "file", "1007")

UploadOf(typ, e) ==
    LET group == typ = "group" IN
    CASE e.kind = "image"  -> IF group THEN GroupImage(e) ELSE FriendImage(e)
      [] e.kind = "video"  -> IF group THEN GroupVideo(e) ELSE FriendVideo(e)
      [] e.kind = "record" -> IF group THEN GroupRecord(e) ELSE FriendRecord(e)
      [] OTHER -> <<>>

Uploads(m) ==
    FlattenSeq([i \in 1 .. Len(m.entities) |->
                  InTurn(i, UploadOf(m.typ, m.entities[i]), Must)])

(* Mutant of Outgoing: the entities are uploaded before the friend is      *)
(* looked up.                                                              *)
UploadsFirst(m) == Uploads(m) \o Metadata(m.typ)

(* messaging_logic_outgoing, before the packet is built.                   *)
Outgoing(m) == Metadata(m.typ) \o Uploads(m)

(* The uid under which an upload for a friend is announced is the chain's; *)
(* the packet names the one of the friend that was found.                  *)
PacketPeer(m) == IF <<Itself, "friend">> \in known[m] THEN "peer" ELSE ""

-----------------------------------------------------------------------------
NoEvent == [by |-> Nobody, version |-> 0]
NotPosted == "none"

TypeOK ==
    /\ given \in Workloads
    /\ pc \in [Tasks -> {"idle", "run", "posted"} \cup Settled]
    /\ \A t \in Tasks : \A i \in 1 .. Len(todo[t]) : todo[t][i] # {}
    /\ \A t \in Tasks : known[t] \cap failed[t] = {}
    /\ uid \in [Tasks -> {"", "peer"}]
    /\ packet \in [Messages -> {NotPosted, "", "peer"}]
    /\ name \in Pushes \cup {Nobody}
    /\ \A c \in Channels : chan[c].by \in Pushes \cup {Nobody} /\ mark[c] <= chan[c].version
    /\ listener \in Channels \cup {Nobody, Answering, Dead}
    /\ peers \in [Messages -> SUBSET {"", "peer"}]
    /\ sentAs \in [Pushes -> 0 .. Cardinality(Pushes)]
    /\ reads \in [Pushes -> 0 .. 2]

Init ==
    /\ given \in Workloads
    /\ pc = [t \in Tasks |-> "idle"] /\ todo = [t \in Tasks |-> <<>>]
    /\ known = [t \in Tasks |-> {}] /\ uid = [t \in Tasks |-> ""]
    /\ packet = [m \in Messages |-> NotPosted] /\ name = Nobody
    /\ chan = [c \in Channels |-> NoEvent] /\ listener = Nobody
    /\ mark = [c \in Channels |-> 0]
    /\ failed = [t \in Tasks |-> {}] /\ peers = [m \in Messages |-> {}]
    /\ sentAs = [p \in Pushes |-> 0] /\ reads = [p \in Pushes |-> 0]

(* The dispatch task of a pushed packet: the parser, which stores the new  *)
(* name of the bot itself, and the handler that is registered.             *)
Receive(p) ==
    /\ p \in DOMAIN given.pushes /\ pc[p] = "idle"
    /\ LET parse == Parse(Push(p)) IN
       /\ CASE parse.result = "chain" ->
                 /\ pc' = [pc EXCEPT ![p] = "run"]
                 /\ todo' = [todo EXCEPT ![p] = ChainSteps(parse)]
                 /\ uid' = [uid EXCEPT ![p] = parse.uid]
            [] parse.result = "notice" /\ parse.name \in Handled ->
                 /\ pc' = [pc EXCEPT ![p] = "run"]
                 /\ \E first \in Caching(parse.name) :
                       todo' = [todo EXCEPT ![p] = first \o NoticeSteps(p, parse.name)]
                 /\ UNCHANGED uid
            [] OTHER ->
                 /\ pc' = [pc EXCEPT ![p] = CASE parse.result = "refused" -> "refused"
                                              [] parse.result = "panics" -> "panicked"
                                              [] OTHER -> "dropped"]
                 /\ UNCHANGED <<todo, uid>>
       /\ name' = IF parse = Notice("botRename") THEN p ELSE name
    /\ UNCHANGED <<given, known, packet, chan, listener, mark, history>>

(* send_message.                                                           *)
Compose(m) ==
    /\ m \in DOMAIN given.messages /\ pc[m] = "idle" /\ pc' = [pc EXCEPT ![m] = "run"]
    /\ todo' = [todo EXCEPT ![m] = Outgoing(Message(m))]
    /\ UNCHANGED <<given, known, uid, packet, name, chan, listener, mark, history>>

Out(t) == IF pc[t] = "run" /\ todo[t] # <<>> THEN Head(todo[t]) ELSE {}
Without(t, step) ==
    LET rest == Head(todo[t]) \ {step} IN
    IF rest = {} THEN Tail(todo[t]) ELSE <<rest>> \o Tail(todo[t])

Announce(t, step) ==
    peers' = IF t \in Messages /\ step.ask = "announce" /\ Message(t).typ = "friend"
             THEN [peers EXCEPT ![t] = @ \cup {uid[t]}] ELSE peers

Answered(t, step) ==
    /\ todo' = [todo EXCEPT ![t] = Without(t, step)]
    /\ known' = [known EXCEPT ![t] = @ \cup {<<step.of, step.ask>>}]
    /\ uid' = IF step.ask \in {"friend", "group"} THEN [uid EXCEPT ![t] = "peer"] ELSE uid
    /\ Announce(t, step)
    /\ UNCHANGED <<given, pc, packet, name, chan, listener, mark, failed, sentAs, reads>>

(* A video of a group is asked for in another way when the first fails.    *)
Instead(t, step) ==
    IF step.ask = "video" /\ t \in Pushes /\ Push(t).grouped
    THEN <<Try(step.of, "groupVideo")>> ELSE <<>>

(* Mutant of Failed: any failure ends the task, as when every request were *)
(* asked with `?`.                                                         *)
FailedIsFinal(t, step) ==
    /\ todo' = [todo EXCEPT ![t] = IF t \in Pushes THEN <<>> ELSE Tail(@)]
    /\ pc' = IF step.must THEN [pc EXCEPT ![t] = IF t \in Pushes THEN "dropped" ELSE "err"] ELSE pc
    /\ failed' = [failed EXCEPT ![t] = @ \cup {<<step.of, step.ask>>}]
    /\ Announce(t, step)
    /\ UNCHANGED <<given, known, uid, packet, name, chan, listener, mark, sentAs, reads>>

Failed(t, step) ==
    /\ IF step.must
       THEN /\ pc' = [pc EXCEPT ![t] = IF t \in Pushes THEN "dropped" ELSE "err"]
            /\ todo' = [todo EXCEPT ![t] = <<>>]
       ELSE /\ todo' = [todo EXCEPT ![t] = Instead(t, step) \o Without(t, step)]
            /\ UNCHANGED pc
    /\ failed' = [failed EXCEPT ![t] = @ \cup {<<step.of, step.ask>>}]
    /\ Announce(t, step)
    /\ UNCHANGED <<given, known, uid, packet, name, chan, listener, mark, sentAs, reads>>

Target(p) ==
    LET parse == Parse(Push(p)) IN
    IF parse.result = "chain" THEN ChannelOfChain(parse.typ) ELSE ChannelOf(parse.name)
Lists(p) == Parse(Push(p)) # Notice("joinRequest") \/ Push(p).listed

(* Mutant of Replace: an event is not sent while the listener reads, as    *)
(* with a lock that is tried.                                              *)
ReplaceUnlessReading(p) ==
    IF listener = Target(p) THEN chan[Target(p)]
    ELSE [by |-> p, version |-> chan[Target(p)].version + 1]

(* The send to a watch channel: it replaces the value, and cannot fail as  *)
(* the handle holds receivers itself.                                      *)
Replace(p) == [by |-> p, version |-> chan[Target(p)].version + 1]
Send(p) ==
    /\ p \in Pushes /\ pc[p] = "run" /\ todo[p] = <<>>
    /\ IF Lists(p)
       THEN /\ pc' = [pc EXCEPT ![p] = "sent"]
            /\ chan' = [chan EXCEPT ![Target(p)] = Replace(p)]
            /\ sentAs' = [sentAs EXCEPT ![p] = chan[Target(p)].version + 1]
       ELSE pc' = [pc EXCEPT ![p] = "dropped"] /\ UNCHANGED <<chan, sentAs>>
    /\ UNCHANGED <<given, todo, known, uid, packet, name, listener, mark, failed, peers, reads>>

(* The packet is built from the chain as it is now, and posted.  The code  *)
(* in the server's answer is not looked at.                                *)
Post(m) ==
    /\ m \in Messages /\ pc[m] = "run" /\ todo[m] = <<>>
    /\ pc' = [pc EXCEPT ![m] = "posted"]
    /\ packet' = [packet EXCEPT ![m] = PacketPeer(m)]
    /\ UNCHANGED <<given, todo, known, uid, name, chan, listener, mark, history>>
Reply(m) ==
    /\ pc[m] = "posted"
    /\ \/ pc' = [pc EXCEPT ![m] = "ok"] /\ UNCHANGED failed
       \/ /\ pc' = [pc EXCEPT ![m] = "err"]
          /\ failed' = [failed EXCEPT ![m] = @ \cup {<<Itself, "send">>}]
    /\ UNCHANGED <<given, todo, known, uid, packet, name, chan, listener, mark, peers, sentAs, reads>>

-----------------------------------------------------------------------------
(* Mutant of Marked: changed() is not what the listener waits on.          *)
MarkedBefore(c) == mark[c]

(* The listener waits in a select! for changed() of the three receivers,   *)
(* which marks the version of that moment as seen, and then reads the      *)
(* value there is, which may be a later one, without marking it.           *)
Marked(c) == chan[c].version
Wake(c) ==
    /\ listener = Nobody /\ mark[c] # chan[c].version
    /\ listener' = c /\ mark' = [mark EXCEPT ![c] = Marked(c)]
    /\ UNCHANGED <<given, tasks, chan, history>>

(* The event in the channel of groups is a message of a group.  Whether it *)
(* asks for an answer ("/mania ping") is for its sender to say.            *)
GroupMessage(p) ==
    LET parse == Parse(Push(p)) IN parse.result = "chain" /\ parse.typ = "group"

(* The event is read; a message of a group may then be answered.           *)
Look ==
    /\ listener \in Channels
    /\ \/ listener' = Nobody
       \/ /\ listener = "group" /\ GroupMessage(chan[listener].by)
          /\ listener' = Answering
    /\ reads' = [reads EXCEPT ![chan[listener].by] = @ + 1]
    /\ UNCHANGED <<given, tasks, chan, mark, failed, peers, sentAs>>

(* The listener awaits send_message before it looks at a channel again,    *)
(* and unwraps the result: an error, or a panic in send_event, ends it.    *)
Pong ==
    /\ listener = Answering /\ listener' \in {Nobody, Dead}
    /\ UNCHANGED <<given, tasks, chan, mark, history>>

Requests(t) == \E step \in Out(t) : Answered(t, step) \/ Failed(t, step)

Next ==
    \/ \E p \in Pushes : Receive(p) \/ Send(p)
    \/ \E m \in Messages : Compose(m) \/ Post(m) \/ Reply(m)
    \/ \E t \in Tasks : Requests(t)
    \/ \E c \in Channels : Wake(c)
    \/ Look
    \/ Pong

(* The runtime runs tasks that are ready, and select! picks a branch that  *)
(* is ready at random.  That a request, or the listener's own answer to a  *)
(* message, ever returns is not assumed: send_event has no timeout.        *)
Fairness ==
    /\ \A p \in Pushes : WF_vars(Send(p))
    /\ \A c \in Channels : SF_vars(Wake(c))
    /\ WF_vars(Look)

Spec == Init /\ [][Next]_vars
FairSpec == Spec /\ Fairness

-----------------------------------------------------------------------------
(* A packet that can be parsed is not lost: once its task has ended, its   *)
(* event has been sent, whatever lookups failed.  Only a request to join   *)
(* is dropped, when the server does not list it or one of the lookups it   *)
(* is told by has failed.                                                  *)
NoticeNotLost ==
    \A p \in Pushes : pc[p] \in Settled =>
        LET parse == Parse(Push(p)) IN
        \/ parse.result \in {"refused", "panics", "nothing"}
        \/ pc[p] = "sent"
        \/ /\ parse = Notice("joinRequest")
           /\ ~Push(p).listed \/ \E f \in failed[p] : f[1] \in {"member", "join"}

(* One failure does not spread: a role or a url which an event lacks is    *)
(* one whose own request failed, and for a video of a group its fallback   *)
(* as well.                                                                *)
FailureIsolated ==
    \A p \in Pushes : pc[p] = "sent" =>
        LET parse == Parse(Push(p)) IN
        IF parse.result = "chain"
        THEN \A i \in 1 .. Len(parse.entities) :
                LET asks == Fetch(parse.typ, parse.entities[i])
                    url  == asks[Len(asks)] IN
                asks # <<>> /\ <<i, url>> \notin known[p]
                    => /\ <<i, url>> \in failed[p]
                       /\ parse.typ = "group" /\ url = "video"
                             => <<i, "groupVideo">> \in known[p] \cup failed[p]
        ELSE parse.name # "joinRequest" =>
                \A i \in 1 .. Len(RolesOf(p, parse.name)) :
                    <<RolesOf(p, parse.name)[i], "uin">> \in known[p] \cup failed[p]

(* A message is posted only after every file and thumbnail the server      *)
(* asked for has been transferred, and a message that fails has had a      *)
(* request fail.  The code owes that for the parts whose size it has: of a *)
(* video given as a stream nothing is transferred, and the message is      *)
(* posted all the same.                                                    *)
Owed(e) == {part \in e.needs : SizeGiven(e, part)}
FileCommands  == {"1001", "1003", "1004", "1005", "1007", "1008"}
ThumbCommands == {"1002", "1006"}
Transferred(m, i, commands) == \E c \in commands : <<i, c>> \in known[m]
SentWhole ==
    \A m \in Messages :
        /\ packet[m] # NotPosted =>
             \A i \in 1 .. Len(Message(m).entities) :
                LET owed == Owed(Message(m).entities[i]) IN
                /\ "file" \in owed => Transferred(m, i, FileCommands)
                /\ "thumb" \in owed => Transferred(m, i, ThumbCommands)
        /\ pc[m] = "err" => failed[m] # {}

(* The files of a message to a friend are announced under the uid that the *)
(* packet is addressed to, and that uid is missing only if the friend      *)
(* could not be looked up.                                                 *)
OnePeer ==
    \A m \in Messages : packet[m] # NotPosted /\ Message(m).typ = "friend" =>
        /\ peers[m] \subseteq {packet[m]}
        /\ packet[m] = "" => <<Itself, "friend">> \in failed[m]

(* An event is read in the end, unless a later one has replaced it or its  *)
(* packet was dropped: whatever the other packets' requests do, and however *)
(* the watch channels and the listener take turns.  The packet's own        *)
(* requests must return, and so must the messages that the listener sends,  *)
(* without an error: it answers in the loop in which it reads, and unwraps  *)
(* (examples/multi_login.rs).                                               *)
Overtaken(p) == pc[p] = "sent" /\ chan[Target(p)].version > sentAs[p]
PongsReturn == []<>(listener # Answering) /\ [](listener # Dead)
EventRead ==
    \A p \in Pushes :
        WF_vars(Requests(p)) /\ PongsReturn
            => (pc[p] = "run" ~> reads[p] > 0 \/ pc[p] = "dropped" \/ Overtaken(p))
=============================================================================
