---------------------------- MODULE MCMessaging ----------------------------
(* Messaging with one packet of every kind the parsers tell apart, together *)
(* with a few others, and messages of every kind of entity.                 *)
EXTENDS Messaging

CONSTANTS p1, p2, m1

Packet(type, sub, inner) ==
    [type |-> type, sub |-> sub, inner |-> inner, grouped |-> FALSE, content |-> "whole",
     entities |-> <<>>, operator |-> TRUE, listed |-> TRUE]
Chain(type, grouped, entities) ==
    [Packet(type, 0, 0) EXCEPT !.grouped = grouped, !.entities = entities]

Known == {Packet(k[1], k[2], k[3]) : k \in DOMAIN Notices} \cup {Packet(KickNT, 0, 0)}
Partial ==
    {[p EXCEPT !.operator = FALSE] : p \in {q \in Known : q.sub \in {12, 17}}}
    \cup {[Packet(84, 0, 0) EXCEPT !.listed = FALSE]}
    \cup {Packet(528, 39, 8), Packet(528, 199, 0), Packet(732, 20, 1), Packet(1, 0, 0)}
    \cup {[p EXCEPT !.content = c] : p \in {Packet(732, 17, 0), Packet(528, 29, 0), Packet(0, 0, 0),
                                            Chain(166, FALSE, <<"image">>)},
                                     c \in Contents \ {"whole"}}
Chains ==
    {Chain(166, FALSE, <<"image", "multi", "record">>), Chain(82, TRUE, <<"image", "video", "groupFile">>),
     Chain(82, TRUE, <<"multi", "video", "record">>), Chain(141, FALSE, <<"video", "imageKnown", "c2cFile">>),
     Chain(208, FALSE, <<"recordBare", "record">>), Chain(529, FALSE, <<>>), Chain(529, TRUE, <<"groupFile">>)}
Others == {Packet(732, 20, 12), Packet(528, 29, 0), Chain(82, TRUE, <<"video">>), Chain(166, FALSE, <<"text">>)}

Entity(kind, needs) == [kind |-> kind, needs |-> needs, streamed |-> {}]
Streamed(parts) == [Entity("video", {"file", "thumb"}) EXCEPT !.streamed = parts]
Media ==
    {Entity("text", {}), Entity("image", {"file"}), Entity("image", {})}
    \cup {Entity("video", needs) : needs \in SUBSET {"file", "thumb"}}
    \cup {Entity("record", {"file"}), Streamed({"file"}), Streamed({"file", "thumb"})}
Sent == [typ : {"group", "friend"}, entities : {<<e, f>> : e \in Media, f \in Media}]

None == <<>>
MCWorkloads ==
    {[pushes |-> (p1 :> p) @@ (p2 :> q), messages |-> None] :
        p \in Known \cup Partial \cup Chains, q \in Others}
    \cup {[pushes |-> None, messages |-> m1 :> m] : m \in Sent}
=============================================================================
