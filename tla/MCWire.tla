------------------------------- MODULE MCWire -------------------------------
(* Wire for TLC: sessions before and after a login, sets with unknown,     *)
(* undecodable, repeated and empty items.                                  *)
EXTENDS Wire

MCSessions ==
    {[uin |-> <<1>>, uid |-> <<>>, tgt |-> <<>>, d2 |-> <<>>, d2Key |-> 0, shared |-> 3],
     [uin |-> <<1>>, uid |-> <<2>>, tgt |-> <<4, 4>>, d2 |-> <<6>>, d2Key |-> 5, shared |-> 3]}

MCTlvSets ==
    {<<>>,
     << <<1, <<>>>>, <<9, <<1, 2, 3>>>>, <<2, <<6>>>>, <<4, <<1, 5>>>> >>,
     << <<3, <<2, 5>>>>, <<1, <<7>>>>, <<8, <<>>>>, <<1, <<5, 5>>>> >>,
     << <<6, <<0, 1, 0, 0, 2, 7, 7>>>>, <<3, <<1>>>>, <<7, <<0, 0, 0, 1, 0, 2>>>>,
        <<5, <<0, 0, 0, 1, 0, 1, 6, 0, 0, 0, 0, 0, 0>>>> >>}

MCOtherUin == <<2>>
=============================================================================
