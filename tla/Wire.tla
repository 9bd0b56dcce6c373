-------------------------------- MODULE Wire --------------------------------
(***************************************************************************)
(* Packets on their way to the server and back: a thread takes a number    *)
(* (Sequence) and builds its packet (Packet), the server reads it by its   *)
(* length prefixes and answers in one of the forms the client knows, and   *)
(* the client takes the answer apart (SsoPacket::parse, resolve_event and  *)
(* the parsers of events).  The server is not part of the repository.      *)
(***************************************************************************)
EXTENDS Sequence, Packet

CONSTANTS
    Sessions,    \* what the key store can hold while packets are built
    Kinds,       \* kinds of events that are sent
    TlvSets,     \* the sets of items in the server's answers to a login
    OtherUin     \* the number of another account

(* The number of a packet is a u32, and a cell wide enough for the length   *)
(* of an envelope to fit its two cells.                                    *)
ASSUME WireAssumption == Width = Byte * Byte * Byte * Byte /\ Byte >= 16

ASSUME KindsAssumption == Kinds \subseteq {"login", "fetchQrCode", "queryResult", "oidb", "heartbeat"}

(* A packet with so many cells of contents is shorter than a u32 can tell. *)
Short(contents) == contents + 1024 <= Width

(* The contents and keys are cells, there is no key of a session without   *)
(* its d2 (both are empty by default), and a packet that holds the contents *)
(* is short.                                                               *)
ASSUME SessionsAssumption ==
    \A s \in Sessions :
        /\ {s.uin, s.uid, s.tgt, s.d2} \subseteq Seq(0 .. Byte - 1)
        /\ {s.d2Key, s.shared} \subseteq 0 .. Byte - 1
        /\ s.d2 = <<>> => s.d2Key = 0
        /\ Short(Len(s.uin) + Len(s.uid) + Len(s.tgt) + Len(s.d2))

(* Another account has a number that is not that of the session.  The items *)
(* in an answer fit their prefixes and make it short, and none is one the   *)
(* client panics on: those it expects to be decodable are.                 *)
ASSUME AnswersAssumption ==
    /\ OtherUin \in Seq(0 .. Byte - 1) /\ OtherUin # <<>> /\ Short(Len(OtherUin))
    /\ \A s \in Sessions : s.uin \notin {<<>>, OtherUin}
    /\ \A items \in TlvSets :
          /\ items \in Seq((0 .. Byte * Byte - 1) \X Seq(0 .. Byte - 1)) /\ Len(items) < Byte * Byte
          /\ \A i \in 1 .. Len(items) :
                Len(items[i][2]) < Byte * Byte /\ TlvOutcome(items[i][1], items[i][2]) # "panic"
          /\ \A uin \in {OtherUin} \cup {s.uin : s \in Sessions} : Short(Len(uin) + Len(TlvSet(items)))

VARIABLES
    session,     \* the key store
    sent,        \* the packet built last, until it is answered
    told,        \* what the server meant by the answer of the last step
    heard        \* what the client made of it

wireVars == <<vars, session, sent, told, heard>>

Nothing == [is |-> "nothing"]

WireInit ==
    /\ Init
    /\ session \in Sessions
    /\ sent = Nothing
    /\ told = Nothing
    /\ heard = Nothing

-----------------------------------------------------------------------------
(* ClientEvent::packet_type, command and build of a few events: what goes  *)
(* into the packet, and for a login what lies inside its envelope.         *)
Inside(kind) ==
    CASE kind = "login" -> LoginBody(TlvSet(<< <<1, <<5>> >>, <<2, <<>> >> >>))
      [] kind = "fetchQrCode" -> FetchQrCodeBody(TlvSet(<< <<3, <<5, 5>> >> >>))
      [] kind = "queryResult" -> QueryResultBody(<<5, 6>>)
      [] kind = "oidb" -> <<5>>
      [] kind = "heartbeat" -> <<>>

InEnvelope == {"login", "fetchQrCode", "queryResult"}

Payload(kind, s) ==
    CASE kind \in InEnvelope -> BuildWtlogin(IF kind = "login" THEN 1 ELSE 2, Inside(kind), s)
      [] kind = "oidb" -> OidbPacket(0, Inside(kind))
      [] kind = "heartbeat" -> U32(4)

Command(kind) == CHOOSE c \in {<<1>>, <<2>>, <<3>>, <<4>>} :
    c = CASE kind = "login" -> <<1>> [] kind \in {"fetchQrCode", "queryResult"} -> <<2>>
          [] kind = "oidb" -> <<3>> [] kind = "heartbeat" -> <<4>>

(* The thread that has its number builds the packet with it.               *)
Build(t) ==
    /\ Add(t)
    /\ \E kind \in Kinds :
          LET packet == [type |-> IF kind = "heartbeat" THEN T13 ELSE T12, sequence |-> SEQUENCE,
                         command |-> Command(kind), payload |-> Payload(kind, session)]
          IN  sent' = [is |-> "packet", kind |-> kind, packet |-> packet, cells |-> BuildPacket(packet, session)]
    /\ told' = Nothing
    /\ heard' = Nothing
    /\ UNCHANGED session

TakeNumber(t) ==
    /\ Enter(t) \/ Draw(t) \/ Spin(t)
    /\ told' = Nothing
    /\ heard' = Nothing
    /\ UNCHANGED <<session, sent>>

-----------------------------------------------------------------------------
(* The server's side of the format.                                        *)

(* The fields it reads: the head of a packet of each protocol, the body of *)
(* the one and the names of the other, the envelope of a login and what    *)
(* lies inside a TransEmp.                                                 *)
Head12Layout == <<Number(4), Number(1), Counted, Number(1), Counted>>
PartsLayout == <<Counted, Counted>>
SsoLayout == <<Number(4), Number(4), Number(4), Skip(12), Counted, Counted, Counted, Counted, Counted,
               Blob(2, 2), Counted>>
Head13Layout == <<Number(4), Number(1), Number(4), Number(1), Counted, Counted, Counted>>
NamesLayout == <<Counted, Counted, Counted>>
EnvelopeLayout == <<Number(1), Number(2), Number(2), Number(2), Number(2), Number(4), Number(1), Number(1),
                    Number(4), Number(1), Number(2), Number(2), Number(4), Number(1), Number(1), Skip(1),
                    Number(2), Number(2), Blob(2, 0)>>
OuterLayout == <<Number(1), Number(2), Number(4), Number(4), Blob(2, 0), Blob(1, 0)>>
InnerLayout == <<Number(4), Number(1), Number(2)>>

(* It finds every part of a packet by the lengths in front of it.          *)
ServerReads(cells, s) ==
    LET whole == Read(<<Counted>>, cells)
        type == Value(SubSeq(whole.fields[1], 1, 4))
        head12 == Read(Head12Layout, whole.fields[1])
        plain == TeaDecrypt(head12.rest, IF head12.fields[2] = 2 THEN 0 ELSE s.d2Key)
        parts == Read(PartsLayout, plain.text)
        sso == Read(SsoLayout, parts.fields[1])
        head13 == Read(Head13Layout, whole.fields[1])
        names == Read(NamesLayout, head13.fields[6])
    IN  IF whole.rest # <<>> THEN Nothing
        ELSE IF type = T12
          THEN [type |-> T12, sequence |-> sso.fields[1], command |-> sso.fields[6], payload |-> parts.fields[2]]
          ELSE [type |-> type, sequence |-> head13.fields[3], command |-> names.fields[1], payload |-> head13.fields[7]]

(* It opens the envelope of a login, whose length is that of the whole.    *)
ServerOpens(cells, s) ==
    LET r == Read(EnvelopeLayout, cells)
    IN  [length |-> r.fields[2], body |-> TeaDecrypt(Front(r.rest), s.shared).text]

(* A request inside TransEmp's two lengths: the outer one counts what      *)
(* follows it, the inner one the packet in it.                             *)
TransEmpLengths(body) ==
    LET outer == Read(OuterLayout, body)
        inner == Read(InnerLayout, outer.rest)
    IN  [outer |-> outer.fields[2] = Len(outer.rest), inner |-> inner.fields[3] = Len(outer.rest) - 4]

(* The forms of an answer: the protocol, whether and how it is encrypted,  *)
(* the account, whether it is compressed, and the return code.  Some have  *)
(* a protocol or a flag the client does not know, or no account.           *)
Forms(s) ==
    LET known == [protocol : {T12, T13}, flag : 0 .. 2, uin : {s.uin, OtherUin}, compressed : BOOLEAN, code : {0, 1}]
        good == [protocol |-> T12, flag |-> 0, uin |-> s.uin, compressed |-> FALSE, code |-> 0]
    IN  known \cup {[good EXCEPT !.protocol = 5], [good EXCEPT !.flag = 3, !.code = 1],
                    [good EXCEPT !.uin = <<>>, !.flag = 3]}

Answers(kind) ==
    CASE kind = "login" -> TlvSets
      [] kind \in {"fetchQrCode", "queryResult"} -> {}
      [] kind = "oidb" -> {<<0, <<5>>>>, <<1, <<>>>>}
      [] kind = "heartbeat" -> {<<>>}

ServerData(kind, answer, s) ==
    CASE kind = "login" ->
           U8(2) \o U16(0) \o U16(1) \o U16(1) \o U16(0) \o U32(0) \o U8(0) \o U16(0)
           \o TeaEncrypt(<<0, 0, 0>> \o TlvSet(answer), s.shared) \o U8(3)
      [] kind = "oidb" -> OidbPacket(answer[1], answer[2])
      [] kind = "heartbeat" -> answer

ServerPacket(form, packet, data, s) ==
    LET body == Section(U32(packet.sequence) \o U32(form.code) \o Section(<<>>) \o Section(packet.command)
                        \o Section(<<>>) \o U32(IF form.compressed THEN 1 ELSE 0) \o Prefixed(4, 0, <<1>>)
                        \o Section(IF form.compressed THEN Deflate(data) ELSE data))
        key == IF form.flag = 1 THEN s.d2Key ELSE 0
    IN  Section(U32(form.protocol) \o U8(form.flag) \o U8(0) \o Section(form.uin)
                \o IF form.flag \in {1, 2} THEN TeaEncrypt(body, key) ELSE body)

-----------------------------------------------------------------------------
(* SsoPacket::parse, then resolve_event with the parser of the command.    *)
ParseEvent(packet, payload, s) ==
    CASE ~payload.ok -> Panic
      [] payload.ok ->
           [is |-> "resolved", sequence |-> packet.sequence,
            event |-> CASE packet.command = Command("login") -> ParseLogin(payload.fields[1], s)
                        [] packet.command = Command("oidb") -> ParseOidb(payload.fields[1])
                        [] packet.command = Command("heartbeat") -> [is |-> "alive"]]

ResolveEvent(packet, s) ==
    IF packet.is = "packet" THEN ParseEvent(packet, EventPayload(packet.payload), s) ELSE packet

Resolve(cells, s) == ResolveEvent(ParsePacket(cells, s), s)

Answer ==
    /\ sent.is = "packet"
    /\ \E form \in Forms(session), answer \in Answers(sent.kind) :
          /\ told' = [is |-> "answer", kind |-> sent.kind, sequence |-> sent.packet.sequence,
                      form |-> form, answer |-> answer]
          /\ heard' = Resolve(ServerPacket(form, sent.packet, ServerData(sent.kind, answer, session), session),
                              session)
    /\ sent' = Nothing
    /\ UNCHANGED <<vars, session>>

WireNext == Answer \/ \E t \in Threads : TakeNumber(t) \/ Build(t)

(* The fairness of FairSpec: a thread in next_sequence keeps running.       *)
WireSpec ==
    /\ WireInit
    /\ [][WireNext]_wireVars
    /\ \A t \in Threads : WF_vars(Draw(t) \/ Spin(t) \/ Add(t))

-----------------------------------------------------------------------------
(* Whatever is built can be taken apart by its lengths alone: the server   *)
(* finds the number, command and payload that went in, and inside a login  *)
(* the lengths of every layer are those of what they enclose (SsoPacket::  *)
(* build, build_wtlogin_packet, build_trans_emp_body).                     *)
PacketReadable ==
    sent.is = "packet" =>
        /\ ServerReads(sent.cells, session) = sent.packet
        /\ sent.kind \in InEnvelope =>
              LET opened == ServerOpens(sent.packet.payload, session)
              IN  /\ opened.length = Len(sent.packet.payload)
                  /\ opened.body = Inside(sent.kind)
                  /\ sent.kind # "login" => TransEmpLengths(opened.body) = [outer |-> TRUE, inner |-> TRUE]

(* Of the items of a set the client has to find the supported ones that    *)
(* can be decoded, the last one of each tag.                               *)
ItemsToFind(items) ==
    LET good(i) == TlvOutcome(items[i][1], items[i][2]) = "value"
    IN  {<<items[i][1], items[i][2]>> : i \in {i \in 1 .. Len(items) :
            good(i) /\ \A j \in i + 1 .. Len(items) : good(j) => items[j][1] # items[i][1]}}

(* What the client has to make of an answer: it refuses what it cannot     *)
(* trust or what reports an error, in that order, and otherwise gets what  *)
(* the server sent, compressed and encrypted or not.                       *)
Meant(t) ==
    CASE t.form.protocol \notin {T12, T13} -> Refused("type")
      [] t.form.uin = <<>> /\ t.form.protocol \in {T12, T13} -> Refused("uin")
      [] t.form.uin = OtherUin /\ t.form.protocol = T12 -> Refused("other uin")
      [] OTHER ->
           IF t.form.flag = 3 THEN Refused("flag")
           ELSE IF t.form.code # 0 THEN Refused("ret code")
           ELSE [is |-> "resolved", sequence |-> t.sequence,
                 event |-> CASE t.kind = "login" -> [is |-> "login", code |-> 0, found |-> ItemsToFind(t.answer)]
                             [] t.kind = "oidb" -> (IF t.answer[1] = 0 THEN [is |-> "event", body |-> t.answer[2]]
                                                    ELSE Refused("oidb"))
                             [] t.kind = "heartbeat" -> [is |-> "alive"]]

(* An answer reaches the parser of its event as the server meant it,       *)
(* whatever form it has: unknown and undecodable items do not hide those   *)
(* behind them (SsoPacket::parse, resolve_event, TlvSet::deserialize).     *)
AnswerUnderstood == told.is = "answer" => heard = Meant(told)

=============================================================================
