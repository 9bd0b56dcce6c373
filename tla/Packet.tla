------------------------------- MODULE Packet -------------------------------
(***************************************************************************)
(* The wire format (core/packet.rs, core/tlv.rs, core/crypto/tea.rs and    *)
(* the wtlogin envelope of core/event/login/trans_emp.rs): how packets are *)
(* put together and taken apart by their length prefixes.                  *)
(*                                                                         *)
(* A buffer is a sequence of cells.  A cell has Byte values (256 in the    *)
(* code), so that a prefix of w cells wraps at Byte^w.  The contents are   *)
(* short sequences of cells; texts are one cell each.  Two ciphers are     *)
(* kept apart by their key only, and 0 is the key of zeros.                *)
(***************************************************************************)
EXTENDS Integers, Sequences, SequencesExt

CONSTANT Byte

ASSUME PacketAssumption == Byte \in Nat /\ Byte >= 8

-----------------------------------------------------------------------------
(* PacketBuilder.                                                          *)

(* What a cell counts for, from the last one on: no prefix has more than   *)
(* four cells.                                                             *)
Weights == <<1, Byte, Byte * Byte, Byte * Byte * Byte>>

(* A number in w cells, most significant first; what does not fit is lost. *)
UInt(n, w) == [i \in 1 .. w |-> (n \div Weights[w - i + 1]) % Byte]
U8(n) == UInt(n, 1)
U16(n) == UInt(n, 2)
U32(n) == UInt(n, 4)

Zeros(n) == [i \in 1 .. n |-> 0]

(* A content behind its length, to which extra is added.                   *)
Prefixed(w, extra, content) == UInt(Len(content) + extra, w) \o content

(* section counts its prefix, and so does section_16.  (Contents above the *)
(* limit at which section_16 panics are not built: it holds the version.)  *)
Section(content) == Prefixed(4, 4, content)
Section16(content) == Prefixed(2, 2, content)
Tlv(tag, content) == U16(tag) \o Prefixed(2, 0, content)

(* serialize_tlv_set: a count, then the items, each <<tag, content>>.      *)
TlvSet(items) == U16(Len(items)) \o FlattenSeq([i \in 1 .. Len(items) |-> Tlv(items[i][1], items[i][2])])

-----------------------------------------------------------------------------
(* PacketReader.  A layout is the sequence of the fields read: a number,   *)
(* or a content behind a prefix of w cells that counts `counted` cells     *)
(* besides it.  Reading past the end panics.                               *)

Number(w) == [width |-> w, counted |-> 0, holds |-> FALSE]
Blob(w, counted) == [width |-> w, counted |-> counted, holds |-> TRUE]
Skip(n) == Blob(0, -n)
Counted == Blob(4, 4)    \* section

Value(cells) == FoldLeft(LAMBDA high, cell : high * Byte + cell, 0, cells)

ReadField(reader, field) ==
    LET head == Value(SubSeq(reader.rest, 1, field.width))
        body == IF field.holds THEN head - field.counted ELSE 0
        size == field.width + body
    IN  IF ~reader.ok \/ Len(reader.rest) < field.width \/ body < 0 \/ Len(reader.rest) < size
          THEN [reader EXCEPT !.ok = FALSE]
          ELSE [ok |-> TRUE,
                fields |-> Append(reader.fields,
                             IF field.holds THEN SubSeq(reader.rest, field.width + 1, size) ELSE head),
                rest |-> SubSeq(reader.rest, size + 1, Len(reader.rest))]

Read(layout, cells) == FoldLeft(ReadField, [ok |-> TRUE, fields |-> <<>>, rest |-> cells], layout)

-----------------------------------------------------------------------------
(* TEA: padded in front and behind to blocks of 8; the first cell tells    *)
(* how much.  The cipher of a key is a shift of every cell.                *)

FillCount(text) == 9 - ((Len(text) + 1) % 8)

Shift(cells, key) == [i \in 1 .. Len(cells) |-> (cells[i] + key) % Byte]

TeaEncrypt(text, key) ==
    Shift(<<FillCount(text) - 2>> \o Zeros(FillCount(text)) \o text \o Zeros(7), key)

(* What is no whole number of blocks, or does not leave its padding,       *)
(* panics; anything else is taken for the text.                            *)
TeaDecrypt(cells, key) ==
    LET plain == Shift(cells, Byte - key)
        begin == (plain[1] % 8) + 3
        ok == Len(cells) > 0 /\ Len(cells) % 8 = 0 /\ begin <= Len(cells) - 7
    IN  [ok |-> ok, text |-> IF ok THEN SubSeq(plain, begin + 1, Len(plain) - 7) ELSE <<>>]

-----------------------------------------------------------------------------
(* SsoPacket::build.  A packet is a record of its type, number, command    *)
(* and payload; s is what the key store has.                               *)

T12 == 12
T13 == 13

(* NtDeviceSign and NtPacketUid as protobuf: a mark, then the uid.         *)
Proto(content) == IF content = <<>> THEN <<>> ELSE <<1>> \o content

SsoBody(packet, s) ==
    Section(U32(packet.sequence) \o U32(1) \o U32(1) \o Zeros(12)
            \o Section(s.tgt) \o Section(packet.command) \o Section(<<>>)
            \o Section(<<2>>) \o Section(<<>>) \o Section16(<<3>>)
            \o Section(Proto(s.uid)))
    \o Section(packet.payload)

BuildProtocol12(packet, s) ==
    Section(U32(T12) \o U8(IF s.d2 = <<>> THEN 2 ELSE 1)
            \o Section(s.d2) \o U8(0) \o Section(s.uin)
            \o TeaEncrypt(SsoBody(packet, s), s.d2Key))

BuildProtocol13(packet, s) ==
    Section(U32(T13) \o U8(0) \o U32(packet.sequence) \o U8(0) \o Section(<<0>>)
            \o Section(Section(packet.command) \o Section(<<>>) \o Section(Proto(s.uid)))
            \o Section(packet.payload))

BuildPacket(packet, s) ==
    IF packet.type = T12 THEN BuildProtocol12(packet, s) ELSE BuildProtocol13(packet, s)

(* Mutant of BuildWtlogin: the length leaves the first cell out.           *)
BuildWtloginShort(cmd, body, s) ==
    U8(2) \o Prefixed(2, 2,
        U16(1) \o U16(cmd) \o U16(0) \o U32(0) \o U8(3) \o U8(5) \o U32(0) \o U8(3)
        \o U16(0) \o U16(0) \o U32(0) \o U8(2) \o U8(1) \o <<0>> \o U16(1) \o U16(1)
        \o Prefixed(2, 0, <<4>>) \o TeaEncrypt(body, s.shared) \o U8(3))

(* build_wtlogin_packet: the length counts the first cell, itself and the  *)
(* last cell.  The crypto header and the keys are one cell each.           *)
BuildWtlogin(cmd, body, s) ==
    U8(2) \o Prefixed(2, 2 + 1,
        U16(1) \o U16(cmd) \o U16(0) \o U32(0) \o U8(3) \o U8(5) \o U32(0) \o U8(3)
        \o U16(0) \o U16(0) \o U32(0) \o U8(2) \o U8(1) \o <<0>> \o U16(1) \o U16(1)
        \o Prefixed(2, 0, <<4>>) \o TeaEncrypt(body, s.shared) \o U8(3))

(* build_trans_emp_body: an outer and an inner length, each computed from  *)
(* the size of the whole.                                                  *)
TransEmpBody(command, tlvs) ==
    LET packet == U8(2) \o U16(43 + Len(tlvs) + 1) \o U16(command) \o Zeros(21) \o U8(3)
                  \o U16(0) \o U16(2) \o U32(0) \o Zeros(8) \o tlvs \o U8(3)
        request == U32(1) \o packet
    IN  U8(0) \o U16(Len(request)) \o U32(1) \o U32(2) \o Prefixed(2, 0, <<>>)
        \o Prefixed(1, 0, <<>>) \o request

(* WtLogin::build and TransEmp::build.                                     *)
LoginBody(tlvs) == U16(9) \o tlvs
FetchQrCodeBody(tlvs) ==
    TransEmpBody(1, U16(0) \o U32(1) \o Zeros(8) \o U8(0) \o Prefixed(2, 0, <<>>) \o tlvs)
QueryResultBody(sign) ==
    TransEmpBody(2, U16(0) \o U32(1) \o Prefixed(2, 0, sign) \o Zeros(8) \o U8(0)
                    \o Prefixed(2, 0, <<>>) \o U16(0))

-----------------------------------------------------------------------------
(* SsoPacket::parse and resolve_event.                                     *)

Panic == [is |-> "panic"]
Refused(why) == [is |-> "refused", why |-> why]

(* Inflating keeps room for a length and then writes it, so that the       *)
(* result has the form of a body that came uncompressed.  (zlib is the     *)
(* reversal of a body behind a mark.)                                      *)
Deflate(cells) == <<7>> \o Reverse(cells)
Inflate(cells) == [ok |-> cells # <<>> /\ Head(cells) = 7, text |-> Reverse(Tail(cells))]
Inflated(cells) == U32(Len(cells) + 4) \o cells

(* What was read is passed on as it is needed: r the fields of a body,     *)
(* packed what is counted behind them, route those behind the type.        *)
BodyLayout == <<Number(4), Number(4), Number(4), Counted, Counted, Counted, Number(4), Blob(4, 0)>>

PacketOf(r, payload) ==
    IF r.fields[3] # 0 THEN Refused("ret code")
    ELSE [is |-> "packet", sequence |-> r.fields[2], command |-> r.fields[5], payload |-> payload]

InflateBody(r, packed) ==
    IF ~packed.ok THEN Panic
    ELSE IF ~Inflate(packed.fields[1]).ok THEN Refused("inflate")
    ELSE PacketOf(r, Inflated(Inflate(packed.fields[1]).text))

ReadBody(r) ==
    IF ~r.ok THEN Panic
    ELSE IF r.fields[7] # 0 THEN InflateBody(r, Read(<<Counted>>, r.rest))
    ELSE PacketOf(r, r.rest)

ParseBody(body) == ReadBody(Read(BodyLayout, body))

(* The text that decryption gave, if it gave one.                          *)
ParsePlain(plain) == IF plain.ok THEN ParseBody(plain.text) ELSE Panic

ParseRoute(type, route, s) ==
    LET flag == route.fields[1]
        uin == route.fields[3]
    IN  IF ~route.ok THEN Panic
        ELSE IF uin = <<>> THEN Refused("uin")
        ELSE IF uin # s.uin /\ type = T12 THEN Refused("other uin")
        ELSE IF flag = 0 THEN ParseBody(route.rest)
        ELSE IF flag \notin {1, 2} THEN Refused("flag")
        ELSE ParsePlain(TeaDecrypt(route.rest, IF flag = 1 THEN s.d2Key ELSE 0))

RouteLayout == <<Number(1), Number(1), Counted>>

ParseType(head, s) ==
    IF ~head.ok THEN Panic
    ELSE IF head.fields[2] \notin {T12, T13} THEN Refused("type")
    ELSE ParseRoute(head.fields[2], Read(RouteLayout, head.rest), s)

ParsePacket(cells, s) == ParseType(Read(<<Number(4), Number(4)>>, cells), s)

(* The payload goes to the event without its length.                       *)
EventPayload(payload) == Read(<<Counted>>, payload)

(* parse_wtlogin_packet.                                                   *)
WtloginLayout ==
    <<Number(1), Number(2), Number(2), Number(2), Number(2), Number(4), Number(1), Number(2)>>

OpenedWtlogin(plain) == IF plain.ok THEN [is |-> "body", body |-> plain.text] ELSE Panic

OpenWtlogin(r, s) ==
    IF ~r.ok \/ r.rest = <<>> THEN Panic
    ELSE IF Last(r.rest) # 3 THEN Refused("end")
    ELSE OpenedWtlogin(TeaDecrypt(Front(r.rest), s.shared))

ParseWtlogin(cells, s) ==
    IF cells = <<>> THEN Panic
    ELSE IF cells[1] # 2 THEN Refused("header")
    ELSE OpenWtlogin(Read(WtloginLayout, cells), s)

(* OidbPacket::to_binary and parse: the base message is its error code,    *)
(* then its body.                                                          *)
OidbPacket(code, body) == Proto(<<code>> \o body)
ParseOidb(cells) ==
    IF cells = <<>> \/ cells[1] # 1 THEN Refused("proto")
    ELSE IF cells[2] # 0 THEN Refused("oidb")
    ELSE [is |-> "event", body |-> SubSeq(cells, 3, Len(cells))]

-----------------------------------------------------------------------------
(* TlvSet::deserialize.  Tags have a value of one cell here.               *)

(* The tags of plain contents (106, 10A, 119, 143, 305; 017, 018, 019 and  *)
(* 01E of the code), of one message that may be undecodable (0D1), of one  *)
(* that must not be (543), and of several fields (146, 11A, 01C).          *)
PlainTags == {1, 2}
UrlTag == 3
UidTag == 4
StateLayout == <<Number(4), Blob(2, 0), Blob(2, 0), Number(4)>>
ProfileLayout == <<Number(2), Number(1), Number(1), Blob(1, 0)>>
ExpiryLayout == <<Number(4), Number(2)>>
TlvLayouts == [tag \in {5, 6, 7} |-> <<StateLayout, ProfileLayout, ExpiryLayout>>[tag - 4]]
SupportedTags == PlainTags \cup {UrlTag, UidTag} \cup DOMAIN TlvLayouts

Decodable(content) == content # <<>> /\ content[1] = 1

(* What an item is to the set: a value, an error, or a panic.              *)
TlvOutcome(tag, content) ==
    IF tag \notin SupportedTags THEN "error"
    ELSE IF tag = UrlTag THEN (IF Decodable(content) THEN "value" ELSE "error")
    ELSE IF tag = UidTag THEN (IF Decodable(content) THEN "value" ELSE "panic")
    ELSE IF tag \in PlainTags \/ Read(TlvLayouts[tag], content).ok THEN "value" ELSE "panic"

(* The item r is what was read; one that panics ends the set.              *)
ItemOutcome(r) == IF r.ok THEN TlvOutcome(r.fields[1], r.fields[2]) ELSE "panic"

AddItem(set, r, outcome, rest) ==
    IF ~set.ok \/ outcome = "panic" THEN [set EXCEPT !.ok = FALSE]
    ELSE [ok |-> TRUE, rest |-> rest,
          found |-> IF outcome = "value"
                      THEN {f \in set.found : f[1] # r.fields[1]} \cup {<<r.fields[1], r.fields[2]>>}
                      ELSE set.found]

ItemLayout == <<Number(2), Blob(2, 0)>>

(* Mutant of ReadTlv: an unsupported item's content is not skipped.        *)
ReadTlvUnskipped(set, i) ==
    LET r == Read(ItemLayout, set.rest)
    IN  AddItem(set, r, ItemOutcome(r),
                IF r.fields[1] \in SupportedTags THEN r.rest ELSE SubSeq(set.rest, 5, Len(set.rest)))

(* Whatever becomes of an item, its content is read: the next one follows. *)
ReadTlv(set, i) ==
    LET r == Read(ItemLayout, set.rest) IN AddItem(set, r, ItemOutcome(r), r.rest)

ReadItems(r) ==
    IF r.ok
      THEN FoldLeft(ReadTlv, [ok |-> TRUE, rest |-> r.rest, found |-> {}], [i \in 1 .. r.fields[1] |-> i])
      ELSE [ok |-> FALSE, rest |-> <<>>, found |-> {}]

ReadTlvSet(cells) == ReadItems(Read(<<Number(2)>>, cells))

(* WtLogin::parse up to its tags: two cells, the type, the set.            *)
LoginEvent(r, set) ==
    IF r.ok /\ set.ok THEN [is |-> "login", code |-> r.fields[2], found |-> set.found] ELSE Panic

LoginItems(r) == LoginEvent(r, ReadTlvSet(r.rest))

LoginOf(wt) == IF wt.is = "body" THEN LoginItems(Read(<<Skip(2), Number(1)>>, wt.body)) ELSE wt

ParseLogin(cells, s) == LoginOf(ParseWtlogin(cells, s))
=============================================================================
