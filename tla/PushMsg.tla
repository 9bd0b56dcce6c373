------------------------------ MODULE PushMsg ------------------------------
(***************************************************************************)
(* What PushMessageEvent::parse makes of a packet the server pushes        *)
(* (core/event/message/push_msg.rs, message/packer.rs): a chain of         *)
(* entities, the event of a notice, nothing, an error, or a panic.         *)
(*                                                                         *)
(* A packet is named by the numbers the code looks at: its type, its sub   *)
(* type, and the field inside its content that tells its kind (0 when      *)
(* there is none).  Its content is whole, absent, broken (it cannot be     *)
(* decoded, or a required part is missing) or short: it ends within the    *)
(* head of 7 bytes that some contents have, or an element of a chain has   *)
(* less in it than its unpacking indexes (an image without a body, a group *)
(* file cut off).                                                          *)
(***************************************************************************)
EXTENDS Integers, Sequences

Contents == {"whole", "absent", "broken", "short"}
Packets ==
    [type : Nat, sub : Nat, inner : Nat, content : Contents, grouped : BOOLEAN,
     entities : Seq(STRING), operator : BOOLEAN, listed : BOOLEAN]

(* Packets of another command, that of KickNTEvent.                        *)
KickNT == 0

(* PkgType: private, group, temporary and private record messages carry a  *)
(* chain, and so does the private file.                                    *)
MessageTypes == {166, 82, 141, 208}
PrivateFile == 529

(* The notices, in rows of the numbers and the event.                      *)
Table(rows) == [k \in {r[1] : r \in rows} |-> (CHOOSE r \in rows : r[1] = k)[2]]

(* Notices about who is in a group.  44 tells promotions (1) from          *)
(* demotions (2), 34 the bot being kicked (3) from others leaving.         *)
MembershipNotices ==
    {<< <<525, 0, 87>>, "invitationRequest">>, << <<84, 0, 0>>, "joinRequest">>,
     << <<87, 0, 0>>, "invite">>,
     << <<44, 0, 1>>, "admin">>, << <<44, 0, 2>>, "admin">>,
     << <<33, 0, 0>>, "increase">>,
     << <<34, 0, 0>>, "decrease">>, << <<34, 0, 3>>, "decrease">>}

(* 0x2DC: settings of a group (a mute has a target or not) ...             *)
GroupSettings ==
    {<< <<732, 12, 0>>, "mute">>, << <<732, 12, 1>>, "memberMute">>,
     << <<732, 16, 6>>, "title">>, << <<732, 16, 12>>, "name">>,
     << <<732, 16, 23>>, "todo">>, << <<732, 16, 35>>, "reaction">>}
(* ... and what happens to its messages.                                   *)
GroupMessages ==
    {<< <<732, 17, 0>>, "recall">>, << <<732, 21, 0>>, "essence">>,
     << <<732, 20, 12>>, "groupPoke">>}

(* 0x210: notices about friends, and about the bot itself.                 *)
FriendChanges ==
    {<< <<528, 29, 0>>, "botRename">>, << <<528, 35, 0>>, "friendRequest">>,
     << <<528, 38, 0>>, "enter">>,
     << <<528, 39, 7>>, "pin">>, << <<528, 39, 20>>, "friendRename">>}
FriendMessages ==
    {<< <<528, 138, 0>>, "friendRecall">>, << <<528, 290, 12>>, "friendPoke">>,
     << <<528, 179, 0>>, "friendNew">>, << <<528, 226, 0>>, "friendNew">>}

Notices ==
    Table(MembershipNotices \cup GroupSettings \cup GroupMessages \cup FriendChanges \cup FriendMessages)

Key(p) == <<p.type, p.sub, p.inner>>

(* Contents behind the head that extract_0x2dc_fucking_head reads.         *)
Headed(p) == p.type = 732 /\ p.sub \in {16, 17, 20, 21}
(* Grey tips: those of another business than pokes are passed over.        *)
GreyTip(p) == <<p.type, p.sub>> \in {<<732, 20>>, <<528, 290>>}

Refused == [result |-> "refused"]
Panics  == [result |-> "panics"]
Nothing == [result |-> "nothing"]
Notice(name) == [result |-> "notice", name |-> name]

(* A type, sub type or field that has no notice is an error, and so are    *)
(* the two notices left to do (528 with 199 and 212).                      *)
ParseNotice(p) ==
    IF Headed(p) /\ p.content = "short" THEN Panics
    ELSE IF p.content # "whole" THEN Refused
    ELSE IF Key(p) \in DOMAIN Notices THEN Notice(Notices[Key(p)])
    ELSE IF GreyTip(p) THEN Nothing ELSE Refused

(* MessagePacker::parse_chain: the chain is the group's when the response  *)
(* head has one, whatever the type says; the sender's uid is stored in the *)
(* others only.  A content that is absent is a missing head.  The entities *)
(* are unpacked here, and one that is short panics.                        *)
ParseChain(p) ==
    IF p.content = "short" THEN Panics
    ELSE IF p.content # "whole" THEN Refused
    ELSE [result |-> "chain", entities |-> p.entities,
          typ |-> IF p.grouped THEN "group" ELSE IF p.type = 141 THEN "temp" ELSE "friend",
          uid |-> IF p.grouped THEN "" ELSE "peer"]

(* MessagePacker::parse_private_file.                                      *)
ParsePrivateFile(p) == ParseChain([p EXCEPT !.entities = Append(@, "c2cFile")])

Parse(p) ==
    IF p.type = KickNT THEN IF p.content = "whole" THEN Notice("kick") ELSE Refused
    ELSE IF p.type \in MessageTypes THEN ParseChain(p)
    ELSE IF p.type = PrivateFile THEN ParsePrivateFile(p)
    ELSE ParseNotice(p)
=============================================================================
