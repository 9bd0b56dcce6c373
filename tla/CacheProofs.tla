---------------------------- MODULE CacheProofs ----------------------------
(***************************************************************************)
(* Proofs about Cache, for any people, groups, tasks and pages, and any    *)
(* number of operations and changes: who is found while refreshes overlap  *)
(* and fail, and when the cached members equal the server's.               *)
(***************************************************************************)
EXTENDS Cache, TLAPS

Kinds == {"none", "lookup", "event", "roster", "friends"}
Nexts == {"done", "group?", "friend?", "resolve"}
Ops == [pc : PCs, kind : Kinds, who : People, grp : Groups \cup {NoGroup}, page : 1 .. Pages,
        acc : SUBSET People, next : Nexts, result : {"none", "found", "notfound", "error", "list"}]

(* Which operation can be at which point, and where it goes on after a     *)
(* refresh.                                                                *)
Shape(o) ==
    /\ mode = "none" => o.pc \in {"idle", "fpage", "gpage", "done"}
    /\ o.pc \in {"fpage", "clear", "fill"} => o.kind \in {"lookup", "friends"}
    /\ o.pc = "fpage" /\ mode = "none" => o.grp = NoGroup
    /\ o.pc = "friends?" => o.kind = "lookup"
    /\ o.pc = "friend?" => o.kind = "friends"
    /\ o.pc = "group?" => o.kind \in {"lookup", "roster"}
    /\ o.pc \in {"gpage", "gstore"} => o.grp \in Groups /\ o.kind \in {"lookup", "roster", "event"}
    /\ o.pc = "gpage" /\ mode = "none" => o.kind \in {"lookup", "roster"}
    /\ o.pc = "resolve" => o.kind \in {"lookup", "roster", "friends"}
    /\ o.kind \in {"lookup", "roster"} => o.next = "group?"
    /\ o.kind = "event" => o.next = "done"
    /\ o.kind = "friends" => o.next \in {"friend?", "resolve"} /\ o.grp = NoGroup
    /\ o.kind = "roster" => o.grp \in Groups
    /\ o.pc = "friends?" => o.page = 1
    /\ o.pc # "done" => o.result = "none"

Types ==
    /\ op \in [Tasks -> Ops]
    /\ \A t \in Tasks : Shape(op[t])
    /\ steadyFriends \subseteq friends
    /\ steadyMembers \in [Groups -> SUBSET People]
    /\ \A g \in Groups : steadyMembers[g] \subseteq members[g]
    /\ blemished \in [Groups -> BOOLEAN] /\ loaded \in BOOLEAN

TypeInv == TypeOK /\ Types

(* What a step of task t leaves in its record.                             *)
Moves(t, pc, page, acc, next, result) ==
    /\ op' \in [Tasks -> Ops]
    /\ \A u \in Tasks \ {t} : op'[u] = op[u]
    /\ op'[t].kind = op[t].kind /\ op'[t].who = op[t].who /\ op'[t].grp = op[t].grp
    /\ op'[t].pc = pc /\ op'[t].page = page /\ op'[t].acc = acc
    /\ op'[t].next = next /\ op'[t].result = result

LEMMA GotoMoves ==
    ASSUME op \in [Tasks -> Ops], NEW t \in Tasks, NEW pc \in PCs, Goto(t, pc)
    PROVE  Moves(t, pc, op[t].page, op[t].acc, op[t].next, op[t].result)
BY DEF Goto, Moves, Ops

LEMMA EnterMoves ==
    ASSUME op \in [Tasks -> Ops], NEW t \in Tasks, NEW pc \in PCs, Enter(t, pc)
    PROVE  Moves(t, pc, 1, {}, op[t].next, op[t].result)
<1>1. 1 \in 1 .. Pages
  BY CacheAssumption
<1> QED BY <1>1, ZenonT(30) DEF Enter, Moves, Ops

LEMMA EndMoves ==
    ASSUME op \in [Tasks -> Ops], NEW t \in Tasks, NEW result \in {"found", "notfound", "error", "list"},
           NEW list \in SUBSET People, End(t, result, list)
    PROVE  Moves(t, "done", op[t].page, list, op[t].next, result)
BY ZenonT(30) DEF End, Moves, Ops, PCs

LEMMA PageMoves ==
    ASSUME op \in [Tasks -> Ops], NEW t \in Tasks, NEW all \in SUBSET People, op[t].page < Pages,
           op' = [op EXCEPT ![t].page = @ + 1, ![t].acc = all]
    PROVE  Moves(t, op[t].pc, op[t].page + 1, all, op[t].next, op[t].result)
<1>1. op[t].page \in 1 .. Pages /\ Pages \in Nat
  BY CacheAssumption DEF Ops
<1>2. op[t].page + 1 \in 1 .. Pages
  BY <1>1
<1> QED BY <1>2, ZenonT(30) DEF Moves, Ops

LEMMA LastMoves ==
    ASSUME op \in [Tasks -> Ops], NEW t \in Tasks, NEW pc \in PCs, NEW all \in SUBSET People,
           op' = [op EXCEPT ![t].pc = pc, ![t].acc = all]
    PROVE  Moves(t, pc, op[t].page, all, op[t].next, op[t].result)
BY ZenonT(30) DEF Moves, Ops

LEMMA CheckMoves ==
    ASSUME op \in [Tasks -> Ops], NEW t \in Tasks, NEW pc \in PCs,
           op' = [op EXCEPT ![t].pc = pc, ![t].next = "resolve", ![t].page = 1, ![t].acc = {}]
    PROVE  Moves(t, pc, 1, {}, "resolve", op[t].result)
<1>1. 1 \in 1 .. Pages
  BY CacheAssumption
<1>2. "resolve" \in Nexts
  BY DEF Nexts
<1> QED BY <1>1, <1>2, ZenonT(30) DEF Moves, Ops

(* One step of an operation in terms of its record, by action.             *)
LEMMA FriendPageMoves ==
    ASSUME TypeInv, NEW t \in Tasks, FriendPage(t)
    PROVE  LET page == {p \in friends : PageOf[p] = op[t].page}
               all == op[t].acc \cup page
           IN  /\ op[t].pc = "fpage" /\ op[t].kind \in {"lookup", "friends"}
               /\ \/ /\ mode = "none" /\ op[t].kind = "lookup" /\ op[t].who \in page
                     /\ Moves(t, "done", op[t].page, {}, op[t].next, "found")
                  \/ /\ mode = "none" /\ op[t].kind = "lookup" /\ op[t].who \notin page /\ op[t].page = Pages
                     /\ Moves(t, "done", op[t].page, {}, op[t].next, "notfound")
                  \/ /\ mode = "none" /\ op[t].kind = "friends" /\ op[t].page = Pages
                     /\ Moves(t, "done", op[t].page, all, op[t].next, "list")
                  \/ /\ mode # "none" /\ op[t].page = Pages
                     /\ Moves(t, "clear", op[t].page, all, op[t].next, op[t].result)
                  \/ /\ op[t].page < Pages
                     /\ Moves(t, "fpage", op[t].page + 1, all, op[t].next, op[t].result)
<1> DEFINE page == {p \in friends : PageOf[p] = op[t].page}
           all == op[t].acc \cup page
<1>0. /\ op \in [Tasks -> Ops] /\ page \in SUBSET People /\ all \in SUBSET People
      /\ op[t].page \in 1 .. Pages /\ Pages \in Nat
      /\ op[t].pc = "fpage" /\ op[t].kind \in {"lookup", "friends"}
  BY CacheAssumption DEF TypeInv, TypeOK, Types, Ops, Shape, FriendPage
<1>1. CASE mode = "none" /\ op[t].kind = "lookup" /\ op[t].who \in page
  <2>1. End(t, "found", {})
    BY <1>1 DEF FriendPage
  <2> QED BY <1>0, <1>1, <2>1, EndMoves
<1>2. CASE mode = "none" /\ op[t].kind = "lookup" /\ op[t].who \notin page /\ op[t].page = Pages
  <2>1. End(t, "notfound", {})
    BY <1>2 DEF FriendPage, LastPage
  <2> QED BY <1>0, <1>2, <2>1, EndMoves
<1>3. CASE mode = "none" /\ op[t].kind = "friends" /\ op[t].page = Pages
  <2>1. End(t, "list", all)
    BY <1>3 DEF FriendPage, LastPage, Collected
  <2> QED BY <1>0, <1>3, <2>1, EndMoves
<1>4. CASE mode # "none" /\ op[t].page = Pages
  <2>1. op' = [op EXCEPT ![t].pc = "clear", ![t].acc = all]
    BY <1>4 DEF FriendPage, LastPage, Collected
  <2>2. "clear" \in PCs
    BY DEF PCs
  <2> QED BY <1>0, <1>4, <2>1, <2>2, LastMoves
<1>5. CASE op[t].page # Pages /\ ~(mode = "none" /\ op[t].kind = "lookup" /\ op[t].who \in page)
  <2>1. op' = [op EXCEPT ![t].page = @ + 1, ![t].acc = all]
    BY <1>5 DEF FriendPage, LastPage, Collected
  <2>2. op[t].page < Pages
    BY <1>0, <1>5
  <2> QED BY <1>0, <1>5, <2>1, <2>2, PageMoves
<1> QED BY <1>0, <1>1, <1>2, <1>3, <1>4, <1>5

LEMMA GroupPageMoves ==
    ASSUME TypeInv, NEW t \in Tasks, GroupPage(t)
    PROVE  LET page == {p \in members[op[t].grp] : PageOf[p] = op[t].page}
               all == op[t].acc \cup page
           IN  /\ op[t].pc = "gpage" /\ op[t].grp \in Groups /\ op[t].kind \in {"lookup", "roster", "event"}
               /\ \/ /\ mode = "none" /\ op[t].kind = "lookup" /\ op[t].who \in page
                     /\ Moves(t, "done", op[t].page, {}, op[t].next, "found")
                  \/ /\ mode = "none" /\ op[t].kind = "lookup" /\ op[t].who \notin page /\ op[t].page = Pages
                     /\ Moves(t, "done", op[t].page, {}, op[t].next, "notfound")
                  \/ /\ mode = "none" /\ op[t].kind = "roster" /\ op[t].page = Pages
                     /\ Moves(t, "done", op[t].page, page, op[t].next, "list")
                  \/ /\ mode # "none" /\ op[t].page = Pages
                     /\ Moves(t, "gstore", op[t].page, all, op[t].next, op[t].result)
                  \/ /\ op[t].page < Pages
                     /\ ~(mode = "none" /\ op[t].kind = "lookup" /\ op[t].who \in page)
                     /\ Moves(t, "gpage", op[t].page + 1, all, op[t].next, op[t].result)
<1> DEFINE page == {p \in members[op[t].grp] : PageOf[p] = op[t].page}
           all == op[t].acc \cup page
<1>0. /\ op \in [Tasks -> Ops]
      /\ op[t].page \in 1 .. Pages /\ Pages \in Nat
      /\ op[t].pc = "gpage" /\ op[t].grp \in Groups /\ op[t].kind \in {"lookup", "roster", "event"}
      /\ mode = "none" => op[t].kind \in {"lookup", "roster"}
  BY CacheAssumption DEF TypeInv, TypeOK, Types, Ops, Shape, GroupPage
<1>a. page \in SUBSET People /\ all \in SUBSET People
  <2>1. members[op[t].grp] \in SUBSET People /\ op[t].acc \in SUBSET People
    BY <1>0 DEF TypeInv, TypeOK, Ops
  <2> QED BY <2>1
<1>1. CASE mode = "none" /\ op[t].kind = "lookup" /\ op[t].who \in page
  <2>1. End(t, "found", {})
    BY <1>1 DEF GroupPage
  <2> QED BY <1>0, <1>1, <2>1, EndMoves
<1>2. CASE mode = "none" /\ op[t].kind = "lookup" /\ op[t].who \notin page /\ op[t].page = Pages
  <2>1. End(t, "notfound", {})
    BY <1>2 DEF GroupPage, LastPage
  <2> QED BY <1>0, <1>2, <2>1, EndMoves
<1>3. CASE mode = "none" /\ op[t].kind = "roster" /\ op[t].page = Pages
  <2>1. End(t, "list", page)
    BY <1>3 DEF GroupPage, LastPage
  <2> QED BY <1>0, <1>a, <1>3, <2>1, EndMoves
<1>4. CASE mode # "none" /\ op[t].page = Pages
  <2>1. op' = [op EXCEPT ![t].pc = "gstore", ![t].acc = all]
    BY <1>4 DEF GroupPage, LastPage, Collected
  <2>2. "gstore" \in PCs
    BY DEF PCs
  <2> QED BY <1>0, <1>a, <1>4, <2>1, <2>2, LastMoves
<1>5. CASE op[t].page # Pages /\ ~(mode = "none" /\ op[t].kind = "lookup" /\ op[t].who \in page)
  <2>1. op' = [op EXCEPT ![t].page = @ + 1, ![t].acc = all]
    BY <1>5 DEF GroupPage, LastPage, Collected
  <2>2. op[t].page < Pages
    BY <1>0, <1>5
  <2> QED BY <1>0, <1>a, <1>5, <2>1, <2>2, PageMoves
<1> QED BY <1>0, <1>1, <1>2, <1>3, <1>4, <1>5

LEMMA ResolveMoves ==
    ASSUME TypeInv, NEW t \in Tasks, Resolve(t)
    PROVE  /\ op[t].pc = "resolve"
           /\ \/ /\ op[t].kind = "lookup"
                 /\ Moves(t, "done", op[t].page, {}, op[t].next, IF Found(t) THEN "found" ELSE "notfound")
              \/ /\ op[t].kind = "roster" /\ op[t].grp \in Groups
                 /\ Moves(t, "done", op[t].page, Cached(op[t].grp), op[t].next, "list")
              \/ /\ op[t].kind = "friends"
                 /\ Moves(t, "done", op[t].page, cachedFriends, op[t].next, "list")
<1>0. /\ op \in [Tasks -> Ops] /\ op[t].pc = "resolve" /\ op[t].kind \in {"lookup", "roster", "friends"}
      /\ op[t].kind = "roster" => op[t].grp \in Groups
  BY DEF TypeInv, Types, Shape, Resolve
<1>1. CASE op[t].kind = "lookup"
  <2>1. End(t, IF Found(t) THEN "found" ELSE "notfound", {})
    BY <1>1 DEF Resolve
  <2> QED BY <1>0, <1>1, <2>1, EndMoves
<1>2. CASE op[t].kind = "roster"
  <2>1. End(t, "list", Cached(op[t].grp))
    BY <1>2 DEF Resolve
  <2>2. Cached(op[t].grp) \in SUBSET People
    BY <1>0, <1>2 DEF TypeInv, TypeOK, Cached
  <2> QED BY <1>0, <1>2, <2>1, <2>2, EndMoves
<1>3. CASE op[t].kind = "friends"
  <2>1. End(t, "list", cachedFriends)
    BY <1>3 DEF Resolve
  <2>2. cachedFriends \in SUBSET People
    BY DEF TypeInv, TypeOK
  <2> QED BY <1>0, <1>3, <2>1, <2>2, EndMoves
<1> QED BY <1>0, <1>1, <1>2, <1>3

(* The steps whose target is fixed.                                        *)
LEMMA OtherMoves ==
    ASSUME TypeInv, NEW t \in Tasks
    PROVE  /\ CheckFriends(t) =>
                Moves(t, IF mode = "full" /\ known = {} THEN "fpage" ELSE "group?",
                      op[t].page, op[t].acc, op[t].next, op[t].result)
           /\ CheckFriend(t) =>
                Moves(t, IF op[t].who \in cachedFriends THEN "resolve" ELSE "fpage",
                      1, {}, "resolve", op[t].result)
           /\ CheckGroup(t) =>
                Moves(t, IF op[t].grp # NoGroup /\ cachedMembers[op[t].grp] = Absent THEN "gpage" ELSE "resolve",
                      1, {}, op[t].next, op[t].result)
           /\ PageFails(t) => Moves(t, "done", op[t].page, {}, op[t].next, "error")
           /\ ClearFriends(t) => Moves(t, "fill", op[t].page, op[t].acc, op[t].next, op[t].result)
           /\ StoreGroup(t) => Moves(t, op[t].next, 1, {}, op[t].next, op[t].result)
<1>0. op \in [Tasks -> Ops] /\ op[t].next \in PCs
  BY DEF TypeInv, Types, Ops, Nexts, PCs
<1>p. {"fpage", "group?", "resolve", "gpage", "fill"} \subseteq PCs
  BY DEF PCs
<1>1. ASSUME CheckFriends(t)
      PROVE  Moves(t, IF mode = "full" /\ known = {} THEN "fpage" ELSE "group?",
                   op[t].page, op[t].acc, op[t].next, op[t].result)
  BY <1>0, <1>p, <1>1, GotoMoves DEF CheckFriends
<1>2. ASSUME CheckFriend(t)
      PROVE  Moves(t, IF op[t].who \in cachedFriends THEN "resolve" ELSE "fpage", 1, {}, "resolve", op[t].result)
  BY <1>0, <1>p, <1>2, CheckMoves DEF CheckFriend
<1>3. ASSUME CheckGroup(t)
      PROVE  Moves(t, IF op[t].grp # NoGroup /\ cachedMembers[op[t].grp] = Absent THEN "gpage" ELSE "resolve",
                   1, {}, op[t].next, op[t].result)
  BY <1>0, <1>p, <1>3, EnterMoves DEF CheckGroup
<1>4. ASSUME PageFails(t) PROVE Moves(t, "done", op[t].page, {}, op[t].next, "error")
  BY <1>0, <1>4, EndMoves DEF PageFails
<1>5. ASSUME ClearFriends(t) PROVE Moves(t, "fill", op[t].page, op[t].acc, op[t].next, op[t].result)
  BY <1>0, <1>p, <1>5, GotoMoves DEF ClearFriends
<1>6. ASSUME StoreGroup(t) PROVE Moves(t, op[t].next, 1, {}, op[t].next, op[t].result)
  BY <1>0, <1>6, EnterMoves DEF StoreGroup
<1> QED BY <1>1, <1>2, <1>3, <1>4, <1>5, <1>6

LEMMA FillMoves ==
    ASSUME TypeInv, NEW t \in Tasks, FillFriends(t)
    PROVE  /\ op[t].pc = "fill"
           /\ \/ /\ op[t].acc = {} /\ loaded' = TRUE /\ UNCHANGED cachedFriends
                 /\ Moves(t, op[t].next, 1, {}, op[t].next, op[t].result)
              \/ \E p \in op[t].acc :
                    /\ cachedFriends' = cachedFriends \cup {p} /\ UNCHANGED loaded
                    /\ Moves(t, "fill", op[t].page, op[t].acc \ {p}, op[t].next, op[t].result)
<1>0. op \in [Tasks -> Ops] /\ op[t].next \in PCs /\ op[t].pc = "fill" /\ op[t].acc \in SUBSET People
  BY DEF TypeInv, Types, Ops, Nexts, PCs, FillFriends
<1>1. CASE op[t].acc = {}
  <2>1. Enter(t, op[t].next) /\ loaded' = TRUE /\ UNCHANGED cachedFriends
    BY <1>1 DEF FillFriends
  <2> QED BY <1>0, <1>1, <2>1, EnterMoves
<1>2. CASE op[t].acc # {}
  <2>1. PICK p \in op[t].acc :
           /\ cachedFriends' = cachedFriends \cup {p} /\ UNCHANGED loaded
           /\ op' = [op EXCEPT ![t].acc = @ \ {p}]
    BY <1>2 DEF FillFriends
  <2>2. Moves(t, "fill", op[t].page, op[t].acc \ {p}, op[t].next, op[t].result)
    BY <1>0, <2>1 DEF Moves, Ops
  <2> QED BY <1>0, <2>1, <2>2
<1> QED BY <1>1, <1>2

(* The call of an operation.                                               *)
LEMMA BeginMoves ==
    ASSUME TypeInv, NEW t \in Tasks, Begin(t)
    PROVE  /\ op' \in [Tasks -> Ops] /\ \A u \in Tasks \ {t} : op'[u] = op[u]
           /\ op[t].pc \in {"idle", "done"}
           /\ op'[t].page = 1 /\ op'[t].acc = {} /\ op'[t].result = "none" /\ Shape(op'[t])
           /\ op'[t].pc \in {"friends?", "group?", "friend?", "fpage", "gpage", "resolve", "done"}
           /\ op'[t].kind \in {"lookup", "event", "roster", "friends"}
           /\ op'[t].pc = "resolve" => op'[t].kind = "friends"
           /\ op'[t].pc = "done" => op'[t].kind = "event"
           /\ op'[t].kind = "event" /\ mode # "none" => op'[t].pc = "gpage"
           /\ IF op'[t].kind = "event"
              THEN op'[t].grp \in Groups /\ events[op'[t].grp] > 0
                   /\ events' = [events EXCEPT ![op'[t].grp] = @ - 1]
              ELSE events' = events
           /\ IF op'[t].pc = "gpage" THEN Mark(op'[t].grp, Overlaps(t, op'[t].grp)) ELSE UNCHANGED blemished
           /\ ops' \in 0 .. MaxOps
<1>0. op \in [Tasks -> Ops] /\ ops \in 0 .. MaxOps /\ mode \in {"full", "half", "none"} /\ MaxOps \in Nat
  BY CacheAssumption DEF TypeInv, Types, TypeOK
<1>1. PICK kind \in {"lookup", "event", "roster", "friends"}, who \in People,
           grp \in Groups \cup {NoGroup}, refresh \in BOOLEAN, named \in BOOLEAN :
        /\ kind \in {"lookup", "event"} => ~refresh
        /\ kind \in {"event", "roster"} => grp # NoGroup /\ who = Me
        /\ kind = "friends" => grp = NoGroup
        /\ kind # "friends" => ~named
        /\ kind = "friends" /\ ~named => who = Me
        /\ kind = "event" => events[grp] > 0
        /\ events' = IF kind = "event" THEN [events EXCEPT ![grp] = @ - 1] ELSE events
        /\ LET next == CASE kind = "event" -> "done"
                         [] kind \in {"lookup", "roster"} -> "group?"
                         [] kind = "friends" -> IF named THEN "friend?" ELSE "resolve"
               pc == Entry(kind, grp, refresh, next)
           IN  /\ op' = [op EXCEPT ![t] = [Idle EXCEPT !.kind = kind, !.who = who,
                                            !.grp = grp, !.pc = pc, !.next = next]]
               /\ IF pc = "gpage" THEN Mark(grp, Overlaps(t, grp)) ELSE UNCHANGED blemished
  BY Zenon DEF Begin
<1> DEFINE next == CASE kind = "event" -> "done"
                     [] kind \in {"lookup", "roster"} -> "group?"
                     [] kind = "friends" -> IF named THEN "friend?" ELSE "resolve"
           pc == Entry(kind, grp, refresh, next)
<1>2. /\ next \in Nexts
      /\ kind \in {"lookup", "roster"} => next = "group?"
      /\ kind = "event" => next = "done"
      /\ kind = "friends" => next \in {"friend?", "resolve"}
  BY DEF Nexts
<1>3. /\ pc \in {"friends?", "group?", "friend?", "fpage", "gpage", "resolve", "done"}
      /\ mode = "none" => pc \in {"fpage", "gpage", "done"}
      /\ pc = "fpage" => kind \in {"lookup", "friends"}
      /\ pc = "fpage" /\ mode = "none" => grp = NoGroup
      /\ pc = "friends?" => kind = "lookup"
      /\ pc = "friend?" => kind = "friends"
      /\ pc = "group?" => kind = "roster"
      /\ pc = "gpage" => grp # NoGroup /\ kind \in {"lookup", "roster", "event"}
      /\ pc = "gpage" /\ mode = "none" => kind # "event"
      /\ pc = "resolve" => kind = "friends"
      /\ pc = "done" => kind = "event"
      /\ kind = "event" /\ mode # "none" => pc = "gpage"
  BY <1>0, <1>1, <1>2 DEF Entry
<1> HIDE DEF next, pc
<1> DEFINE r == [Idle EXCEPT !.kind = kind, !.who = who, !.grp = grp, !.pc = pc, !.next = next]
<1>4. op' = [op EXCEPT ![t] = r]
  BY <1>1 DEF next, pc
<1>5. /\ r.kind = kind /\ r.who = who /\ r.grp = grp /\ r.pc = pc /\ r.next = next
      /\ r.page = 1 /\ r.acc = {} /\ r.result = "none"
  BY DEF Idle
<1>6. r \in Ops
  <2>1. 1 \in 1 .. Pages /\ pc \in PCs /\ kind \in Kinds
    BY <1>3, CacheAssumption DEF PCs, Kinds
  <2>2. Idle \in Ops
    BY <2>1, CacheAssumption DEF Idle, Ops, PCs, Kinds, Nexts
  <2> QED BY <1>2, <2>1, <2>2 DEF Ops
<1> HIDE DEF r
<1>7. op' \in [Tasks -> Ops] /\ op'[t] = r /\ \A u \in Tasks \ {t} : op'[u] = op[u]
  BY <1>0, <1>4, <1>6
<1>8. IF pc = "gpage" THEN Mark(grp, Overlaps(t, grp)) ELSE UNCHANGED blemished
  BY <1>1 DEF next, pc
<1>9. Shape(op'[t])
  BY <1>0, <1>1, <1>2, <1>3, <1>5, <1>7 DEF Shape
<1>10. op[t].pc \in {"idle", "done"} /\ ops' \in 0 .. MaxOps
  BY <1>0 DEF Begin
<1>11. IF kind = "event"
       THEN grp \in Groups /\ events[grp] > 0 /\ events' = [events EXCEPT ![grp] = @ - 1]
       ELSE events' = events
  <2>1. kind = "event" => grp # NoGroup /\ events[grp] > 0
    BY <1>1
  <2>2. events' = IF kind = "event" THEN [events EXCEPT ![grp] = @ - 1] ELSE events
    BY <1>1
  <2> QED BY <2>1, <2>2
<1> QED BY <1>3, <1>5, <1>7, <1>8, <1>9, <1>10, <1>11

-----------------------------------------------------------------------------
(* Type correctness.                                                       *)
LEMMA TypeInit == Init => TypeInv
<1> SUFFICES ASSUME Init PROVE TypeInv
  OBVIOUS
<1>1. Idle \in Ops /\ Idle.pc = "idle" /\ Idle.kind = "none" /\ Idle.result = "none"
  BY CacheAssumption DEF Idle, Ops, PCs, Kinds, Nexts
<1>2. op \in [Tasks -> Ops] /\ \A t \in Tasks : op[t] = Idle
  BY <1>1 DEF Init
<1>3. Types
  <2>1. \A t \in Tasks : Shape(op[t])
    BY <1>1, <1>2 DEF Shape
  <2> QED BY <1>2, <2>1 DEF Types, Init
<1>4. TypeOK
  BY <1>1, <1>2, CacheAssumption DEF TypeOK, Init, Ops, Kinds
<1> QED BY <1>3, <1>4 DEF TypeInv

(* A step leaves the type invariant if the new record has its shape, and   *)
(* what else it changes has its type.                                      *)
LEMMA TypeFromRecord ==
    ASSUME TypeInv, NEW t \in Tasks, UNCHANGED <<mode, friends, members, steadyFriends, steadyMembers>>,
           op' \in [Tasks -> Ops], \A u \in Tasks \ {t} : op'[u] = op[u], Shape(op'[t]),
           known' \subseteq People, cachedFriends' \subseteq People,
           cachedMembers' \in [Groups -> (SUBSET People) \cup {Absent}],
           events' \in [Groups -> Nat], ops' \in 0 .. MaxOps,
           blemished' \in [Groups -> BOOLEAN], loaded' \in BOOLEAN
    PROVE  TypeInv'
<1>1. Types'
  <2>1. \A u \in Tasks : Shape(op'[u])
    BY DEF TypeInv, Types
  <2>2. \A u \in Tasks : Shape(op[u])'
    BY <2>1 DEF Shape
  <2> QED BY <2>2 DEF TypeInv, Types
<1>2. TypeOK'
  BY DEF TypeInv, TypeOK, Ops, Kinds
<1> QED BY <1>1, <1>2 DEF TypeInv

LEMMA MarkType ==
    ASSUME TypeInv, NEW g \in Groups, NEW bad, Mark(g, bad)
    PROVE  /\ blemished' \in [Groups -> BOOLEAN]
           /\ bad => blemished'[g] = TRUE
           /\ ~bad => blemished' = blemished
           /\ \A h \in Groups : blemished[h] => blemished'[h]
BY DEF Mark, TypeInv, Types

LEMMA TaskType ==
    ASSUME TypeInv, NEW t \in Tasks, Begin(t) \/ TaskStep(t)
    PROVE  TypeInv'
<1>0. /\ op \in [Tasks -> Ops] /\ Shape(op[t]) /\ mode \in {"full", "half", "none"}
      /\ known \in SUBSET People /\ cachedFriends \in SUBSET People
      /\ friends \in SUBSET People /\ members \in [Groups -> SUBSET People]
      /\ cachedMembers \in [Groups -> (SUBSET People) \cup {Absent}] /\ events \in [Groups -> Nat]
      /\ ops \in 0 .. MaxOps /\ blemished \in [Groups -> BOOLEAN] /\ loaded \in BOOLEAN
  BY CacheAssumption DEF TypeInv, TypeOK, Types
<1>1. CASE Begin(t)
  <2>1. events' \in [Groups -> Nat]
    BY <1>0, <1>1, BeginMoves
  <2>2. blemished' \in [Groups -> BOOLEAN]
    <3>1. op'[t].pc = "gpage" => op'[t].grp \in Groups
      BY <1>1, BeginMoves DEF Shape
    <3> QED BY <1>0, <1>1, <3>1, BeginMoves, MarkType
  <2>3. UNCHANGED <<mode, friends, members, steadyFriends, steadyMembers, known, cachedFriends, cachedMembers, loaded>>
    BY <1>1 DEF Begin, cache
  <2> QED BY <1>0, <1>1, <2>1, <2>2, <2>3, BeginMoves, TypeFromRecord
<1>2. CASE CheckFriends(t)
  <2>1. /\ op[t].pc = "friends?"
        /\ UNCHANGED <<server, cache, ops, history>>
        /\ Moves(t, IF mode = "full" /\ known = {} THEN "fpage" ELSE "group?",
                 op[t].page, op[t].acc, op[t].next, op[t].result)
    BY <1>2, OtherMoves DEF CheckFriends
  <2>2. Shape(op'[t])
    BY <1>0, <2>1 DEF Shape, Moves
  <2> QED BY <1>0, <2>1, <2>2, TypeFromRecord DEF Moves, server, cache, history
<1>3. CASE CheckFriend(t)
  <2>1. /\ op[t].pc = "friend?"
        /\ UNCHANGED <<server, cache, ops, history>>
        /\ Moves(t, IF op[t].who \in cachedFriends THEN "resolve" ELSE "fpage", 1, {}, "resolve", op[t].result)
    BY <1>3, OtherMoves DEF CheckFriend
  <2>2. Shape(op'[t])
    BY <1>0, <2>1 DEF Shape, Moves
  <2> QED BY <1>0, <2>1, <2>2, TypeFromRecord DEF Moves, server, cache, history
<1>4. CASE CheckGroup(t)
  <2>1. /\ op[t].pc = "group?"
        /\ UNCHANGED <<server, cache, ops, steadyFriends, steadyMembers, loaded>>
        /\ Moves(t, IF op[t].grp # NoGroup /\ cachedMembers[op[t].grp] = Absent THEN "gpage" ELSE "resolve",
                 1, {}, op[t].next, op[t].result)
    BY <1>4, OtherMoves DEF CheckGroup
  <2>2. op[t].grp \in Groups \cup {NoGroup}
    BY <1>0 DEF Ops
  <2>3. Shape(op'[t])
    BY <1>0, <2>1, <2>2 DEF Shape, Moves
  <2>4. blemished' \in [Groups -> BOOLEAN]
    BY <1>0, <1>4, <2>2, MarkType DEF CheckGroup
  <2> QED BY <1>0, <2>1, <2>3, <2>4, TypeFromRecord DEF Moves, server, cache
<1>5. CASE FriendPage(t)
  <2>1. /\ UNCHANGED <<server, mode, cachedFriends, cachedMembers, ops, history>>
        /\ known' \in SUBSET People
    BY <1>0, <1>5 DEF FriendPage, Learn
  <2>2. op' \in [Tasks -> Ops] /\ (\A u \in Tasks \ {t} : op'[u] = op[u])
    BY <1>5, FriendPageMoves DEF Moves
  <2>3. Shape(op'[t])
    BY <1>0, <1>5, <2>1, FriendPageMoves DEF Shape, Moves
  <2> QED BY <1>0, <2>1, <2>2, <2>3, TypeFromRecord DEF server, history
<1>6. CASE GroupPage(t)
  <2>1. UNCHANGED <<server, cache, ops, history>>
    BY <1>6 DEF GroupPage
  <2>2. op' \in [Tasks -> Ops] /\ (\A u \in Tasks \ {t} : op'[u] = op[u])
    BY <1>6, GroupPageMoves DEF Moves
  <2>3. Shape(op'[t])
    BY <1>0, <1>6, <2>1, GroupPageMoves DEF Shape, Moves
  <2> QED BY <1>0, <2>1, <2>2, <2>3, TypeFromRecord DEF server, cache, history
<1>7. CASE PageFails(t)
  <2>1. /\ op[t].pc \in {"fpage", "gpage"}
        /\ UNCHANGED <<server, cache, ops, steadyFriends, steadyMembers, loaded>>
        /\ Moves(t, "done", op[t].page, {}, op[t].next, "error")
    BY <1>7, OtherMoves DEF PageFails
  <2>2. Shape(op'[t])
    BY <1>0, <2>1 DEF Shape, Moves
  <2>3. blemished' \in [Groups -> BOOLEAN]
    BY <1>0, <1>7, MarkType DEF PageFails, Shape
  <2> QED BY <1>0, <2>1, <2>2, <2>3, TypeFromRecord DEF Moves, server, cache
<1>8. CASE ClearFriends(t)
  <2>1. /\ op[t].pc = "clear" /\ cachedFriends' = {}
        /\ UNCHANGED <<server, mode, known, cachedMembers, ops, history>>
        /\ Moves(t, "fill", op[t].page, op[t].acc, op[t].next, op[t].result)
    BY <1>8, OtherMoves DEF ClearFriends
  <2>2. Shape(op'[t])
    BY <1>0, <2>1 DEF Shape, Moves
  <2> QED BY <1>0, <2>1, <2>2, TypeFromRecord DEF Moves, server, history
<1>9. CASE FillFriends(t)
  <2>1. UNCHANGED <<server, mode, known, cachedMembers, ops, steadyFriends, steadyMembers, blemished>>
    BY <1>9 DEF FillFriends
  <2>2. op[t].acc \in SUBSET People
    BY <1>0 DEF Ops
  <2>3. cachedFriends' \subseteq People /\ loaded' \in BOOLEAN
    BY <1>0, <1>9, <2>2, FillMoves
  <2>4. op' \in [Tasks -> Ops] /\ (\A u \in Tasks \ {t} : op'[u] = op[u])
    BY <1>9, FillMoves DEF Moves
  <2>5. Shape(op'[t])
    BY <1>0, <1>9, <2>1, FillMoves DEF Shape, Moves
  <2> QED BY <1>0, <2>1, <2>3, <2>4, <2>5, TypeFromRecord DEF server
<1>10. CASE StoreGroup(t)
  <2>1. /\ op[t].pc = "gstore" /\ UNCHANGED <<server, mode, cachedFriends, ops, history>>
        /\ Moves(t, op[t].next, 1, {}, op[t].next, op[t].result)
        /\ cachedMembers' = [cachedMembers EXCEPT ![op[t].grp] = op[t].acc]
    BY <1>10, OtherMoves DEF StoreGroup
  <2>2. op[t].acc \in SUBSET People
    BY <1>0 DEF Ops
  <2>3. known' \in SUBSET People /\ cachedMembers' \in [Groups -> (SUBSET People) \cup {Absent}]
    BY <1>0, <1>10, <2>1, <2>2 DEF StoreGroup, Learn
  <2>4. Shape(op'[t])
    BY <1>0, <2>1 DEF Shape, Moves
  <2> QED BY <1>0, <2>1, <2>3, <2>4, TypeFromRecord DEF Moves, server, history
<1>11. CASE Resolve(t)
  <2>1. UNCHANGED <<server, cache, ops, history>>
    BY <1>11 DEF Resolve
  <2>2. op' \in [Tasks -> Ops] /\ (\A u \in Tasks \ {t} : op'[u] = op[u])
    BY <1>11, ResolveMoves DEF Moves
  <2>3. Shape(op'[t])
    BY <1>0, <1>11, <2>1, ResolveMoves DEF Shape, Moves
  <2> QED BY <1>0, <2>1, <2>2, <2>3, TypeFromRecord DEF server, cache, history
<1> QED BY <1>1, <1>2, <1>3, <1>4, <1>5, <1>6, <1>7, <1>8, <1>9, <1>10, <1>11 DEF TaskStep

LEMMA ServerType ==
    ASSUME TypeInv,
           \/ \E g \in Groups, p \in People : MemberChange(g, p)
           \/ \E p \in People : FriendChange(p)
    PROVE  TypeInv'
<1>1. ASSUME NEW g \in Groups, NEW p \in People, MemberChange(g, p) PROVE TypeInv'
  <2>1. UNCHANGED <<friends, mode, known, cachedFriends, cachedMembers, op, ops, steadyFriends, loaded>>
    BY <1>1 DEF MemberChange, cache
  <2>2. /\ members' \in [Groups -> SUBSET People] /\ steadyMembers' \in [Groups -> SUBSET People]
        /\ \A h \in Groups : steadyMembers'[h] \subseteq members'[h]
    BY <1>1 DEF MemberChange, TypeInv, TypeOK, Types
  <2>3. events' \in [Groups -> Nat]
    BY <1>1 DEF MemberChange, TypeInv, TypeOK
  <2>4. blemished' \in [Groups -> BOOLEAN]
    BY <1>1, MarkType DEF MemberChange
  <2> QED BY <2>1, <2>2, <2>3, <2>4 DEF TypeInv, TypeOK, Types, Shape
<1>2. ASSUME NEW p \in People, FriendChange(p) PROVE TypeInv'
  <2>1. UNCHANGED <<members, events, mode, known, cachedFriends, cachedMembers, op, ops, steadyMembers, loaded, blemished>>
    BY <1>2 DEF FriendChange, cache
  <2>2. friends' \subseteq People /\ steadyFriends' \subseteq friends'
    BY <1>2 DEF FriendChange, TypeInv, TypeOK, Types
  <2> QED BY <2>1, <2>2 DEF TypeInv, TypeOK, Types, Shape
<1> QED BY <1>1, <1>2

LEMMA TypeStep == TypeInv /\ [Next]_vars => TypeInv'
<1>1. ASSUME TypeInv, UNCHANGED vars PROVE TypeInv'
  BY <1>1 DEF vars, server, cache, history, TypeInv, TypeOK, Types, Shape
<1> QED BY <1>1, TaskType, ServerType DEF Next

LEMMA TypeAlways == Spec => []TypeInv
BY TypeInit, TypeStep, PTL DEF Spec

(* Every reachable state is well typed, for any people, groups, tasks and  *)
(* pages.                                                                  *)
THEOREM TypeCorrect == Spec => []TypeOK
<1>1. TypeInv => TypeOK
  BY DEF TypeInv
<1> QED BY <1>1, TypeAlways, PTL

-----------------------------------------------------------------------------
(* Who is found.  A refresh collects, page by page, at least those who     *)
(* have been in the group all along; an entry of the cache holds at least  *)
(* them from the first refresh on; and a lookup without a cache has not    *)
(* yet come past the page of such a member.                                *)
GroupOp(o) ==
    LET S == steadyMembers[o.grp] IN
    /\ o.pc = "gpage" /\ mode # "none" => \A p \in S : PageOf[p] < o.page => p \in o.acc
    /\ o.pc = "gpage" /\ mode = "none" /\ o.kind = "lookup" /\ o.who \in S => PageOf[o.who] >= o.page
    /\ o.pc = "gstore" => S \subseteq o.acc
    /\ o.pc = "resolve" /\ o.grp # NoGroup => cachedMembers[o.grp] # Absent
    /\ o.pc = "done" /\ o.kind = "lookup" /\ o.grp # NoGroup /\ o.who \in S => o.result # "notfound"
    /\ o.pc = "done" /\ mode # "none" /\ o.kind = "roster" /\ o.result = "list" => S \subseteq o.acc

GroupInv ==
    /\ \A t \in Tasks : GroupOp(op[t])
    /\ \A g \in Groups : cachedMembers[g] = Absent \/ steadyMembers[g] \subseteq cachedMembers[g]

LEMMA GroupInit == Init => GroupInv
<1> SUFFICES ASSUME Init PROVE GroupInv
  OBVIOUS
<1>1. \A t \in Tasks : op[t] = Idle
  BY DEF Init
<1>2. Idle.pc = "idle"
  BY DEF Idle
<1>3. \A t \in Tasks : GroupOp(op[t])
  BY <1>1, <1>2 DEF GroupOp
<1> QED BY <1>3 DEF GroupInv, Init

(* A step of task t that only brings its own record into another form.     *)
LEMMA GroupFromRecord ==
    ASSUME GroupInv, NEW t \in Tasks, UNCHANGED <<mode, steadyMembers, cachedMembers>>,
           \A u \in Tasks \ {t} : op'[u] = op[u], GroupOp(op'[t])
    PROVE  GroupInv'
<1>1. \A u \in Tasks : GroupOp(op'[u])
  BY DEF GroupInv
<1>2. \A u \in Tasks : GroupOp(op[u])'
  BY <1>1 DEF GroupOp
<1> QED BY <1>2 DEF GroupInv

LEMMA GroupStep == TypeInv /\ GroupInv /\ [Next]_vars => GroupInv'
<1> SUFFICES ASSUME TypeInv, GroupInv, [Next]_vars PROVE GroupInv'
  OBVIOUS
<1>0. /\ op \in [Tasks -> Ops] /\ \A t \in Tasks : Shape(op[t]) /\ GroupOp(op[t])
      /\ members \in [Groups -> SUBSET People] /\ steadyMembers \in [Groups -> SUBSET People]
      /\ \A g \in Groups : steadyMembers[g] \subseteq members[g]
      /\ cachedMembers \in [Groups -> (SUBSET People) \cup {Absent}]
      /\ \A g \in Groups : cachedMembers[g] = Absent \/ steadyMembers[g] \subseteq cachedMembers[g]
  BY DEF TypeInv, TypeOK, Types, GroupInv
<1>p. /\ PageOf \in [People -> 1 .. Pages] /\ Pages \in Nat /\ NoGroup \notin Groups
      /\ Absent \notin SUBSET People
  BY CacheAssumption
<1>1. ASSUME NEW t \in Tasks, Begin(t) PROVE GroupInv'
  <2>1. /\ UNCHANGED <<mode, steadyMembers, cachedMembers>>
        /\ \A u \in Tasks \ {t} : op'[u] = op[u]
    BY <1>1, BeginMoves DEF Begin, cache
  <2>2. /\ op'[t].page = 1 /\ op'[t].acc = {} /\ op'[t].result = "none" /\ op'[t] \in Ops
        /\ op'[t].pc \in {"friends?", "group?", "friend?", "fpage", "gpage", "resolve", "done"}
        /\ op'[t].pc = "resolve" => op'[t].grp = NoGroup
        /\ op'[t].pc = "gpage" => op'[t].grp \in Groups
    BY <1>1, BeginMoves DEF Shape
  <2>3. GroupOp(op'[t])
    BY <1>0, <1>p, <2>2 DEF GroupOp, Ops
  <2> QED BY <2>1, <2>3, GroupFromRecord
<1>2. ASSUME NEW t \in Tasks, CheckFriends(t) PROVE GroupInv'
  <2>1. /\ UNCHANGED <<mode, steadyMembers, cachedMembers>>
        /\ Moves(t, IF mode = "full" /\ known = {} THEN "fpage" ELSE "group?",
                 op[t].page, op[t].acc, op[t].next, op[t].result)
    BY <1>2, OtherMoves DEF CheckFriends, cache, history
  <2>2. GroupOp(op'[t])
    BY <2>1 DEF GroupOp, Moves
  <2> QED BY <2>1, <2>2, GroupFromRecord DEF Moves
<1>3. ASSUME NEW t \in Tasks, CheckFriend(t) PROVE GroupInv'
  <2>1. /\ UNCHANGED <<mode, steadyMembers, cachedMembers>> /\ op[t].pc = "friend?"
        /\ Moves(t, IF op[t].who \in cachedFriends THEN "resolve" ELSE "fpage", 1, {}, "resolve", op[t].result)
    BY <1>3, OtherMoves DEF CheckFriend, cache, history
  <2>2. op[t].grp = NoGroup
    BY <1>0, <2>1 DEF Shape
  <2>3. GroupOp(op'[t])
    BY <2>1, <2>2 DEF GroupOp, Moves
  <2> QED BY <2>1, <2>3, GroupFromRecord DEF Moves
<1>4. ASSUME NEW t \in Tasks, CheckGroup(t) PROVE GroupInv'
  <2>1. /\ UNCHANGED <<mode, steadyMembers, cachedMembers>> /\ op[t].pc = "group?"
        /\ Moves(t, IF op[t].grp # NoGroup /\ cachedMembers[op[t].grp] = Absent THEN "gpage" ELSE "resolve",
                 1, {}, op[t].next, op[t].result)
    BY <1>4, OtherMoves DEF CheckGroup, cache
  <2>2. op[t].who \in People /\ op[t].grp \in Groups \cup {NoGroup}
    BY <1>0 DEF Ops
  <2>3. op[t].grp \in Groups => \A p \in steadyMembers[op[t].grp] : PageOf[p] \in Nat /\ PageOf[p] >= 1
    BY <1>0, <1>p
  <2>4. GroupOp(op'[t])
    BY <1>p, <2>1, <2>2, <2>3 DEF GroupOp, Moves
  <2> QED BY <2>1, <2>4, GroupFromRecord DEF Moves
<1>5. ASSUME NEW t \in Tasks, FriendPage(t) PROVE GroupInv'
  <2>1. UNCHANGED <<mode, steadyMembers, cachedMembers>>
    BY <1>5 DEF FriendPage, history
  <2>2. \A u \in Tasks \ {t} : op'[u] = op[u]
    BY <1>5, FriendPageMoves DEF Moves
  <2>3. /\ op'[t].pc \in {"done", "clear", "fpage"} /\ op'[t].grp = op[t].grp /\ op'[t].kind = op[t].kind
        /\ op'[t].pc = "done" => op[t].grp = NoGroup /\ op[t].kind # "roster"
    BY <1>0, <1>5, FriendPageMoves DEF Moves, Shape
  <2>4. GroupOp(op'[t])
    BY <2>3 DEF GroupOp
  <2> QED BY <2>1, <2>2, <2>4, GroupFromRecord
<1>6. ASSUME NEW t \in Tasks, GroupPage(t) PROVE GroupInv'
  <2>1. UNCHANGED <<mode, steadyMembers, cachedMembers>>
    BY <1>6 DEF GroupPage, cache, history
  <2>2. \A u \in Tasks \ {t} : op'[u] = op[u]
    BY <1>6, GroupPageMoves DEF Moves
  <2> DEFINE S == steadyMembers[op[t].grp]
             page == {p \in members[op[t].grp] : PageOf[p] = op[t].page}
             all == op[t].acc \cup page
  <2>3. /\ op[t].pc = "gpage" /\ op[t].grp \in Groups /\ op[t].page \in 1 .. Pages
        /\ op[t].kind \in {"lookup", "roster", "event"}
    BY <1>0, <1>6, GroupPageMoves DEF Ops
  <2>4. /\ S \subseteq members[op[t].grp]
        /\ \A p \in S : PageOf[p] \in 1 .. Pages
    BY <1>0, <1>p, <2>3
  <2>5. mode # "none" => \A p \in S : PageOf[p] <= op[t].page => p \in all
    BY <1>0, <1>p, <2>3, <2>4 DEF GroupOp
  <2>6. mode = "none" /\ op[t].kind = "lookup" /\ op[t].who \in S => PageOf[op[t].who] >= op[t].page
    BY <1>0, <2>3 DEF GroupOp
  <2>7. op[t].who \in S /\ op[t].who \notin page => PageOf[op[t].who] # op[t].page
    BY <2>4
  <2> HIDE DEF page, all
  <2>8. \/ Moves(t, "done", op[t].page, {}, op[t].next, "found")
        \/ /\ mode = "none" /\ op[t].kind = "lookup" /\ op[t].who \notin page /\ op[t].page = Pages
           /\ Moves(t, "done", op[t].page, {}, op[t].next, "notfound")
        \/ mode = "none" /\ op[t].kind = "roster" /\ Moves(t, "done", op[t].page, page, op[t].next, "list")
        \/ /\ mode # "none" /\ op[t].page = Pages
           /\ Moves(t, "gstore", op[t].page, all, op[t].next, op[t].result)
        \/ /\ op[t].page < Pages
           /\ ~(mode = "none" /\ op[t].kind = "lookup" /\ op[t].who \in page)
           /\ Moves(t, "gpage", op[t].page + 1, all, op[t].next, op[t].result)
    BY <1>6, GroupPageMoves DEF page, all
  <2>9. GroupOp(op'[t])
    <3>1. CASE Moves(t, "done", op[t].page, {}, op[t].next, "found")
      BY <3>1 DEF Moves, GroupOp
    <3>2. CASE /\ mode = "none" /\ op[t].kind = "lookup" /\ op[t].who \notin page /\ op[t].page = Pages
               /\ Moves(t, "done", op[t].page, {}, op[t].next, "notfound")
      <4>1. op[t].who \notin S
        BY <1>p, <2>3, <2>4, <2>6, <2>7, <3>2
      <4> QED BY <3>2, <4>1 DEF Moves, GroupOp
    <3>3. CASE mode = "none" /\ op[t].kind = "roster" /\ Moves(t, "done", op[t].page, page, op[t].next, "list")
      BY <3>3 DEF Moves, GroupOp
    <3>4. CASE /\ mode # "none" /\ op[t].page = Pages
               /\ Moves(t, "gstore", op[t].page, all, op[t].next, op[t].result)
      <4>1. S \subseteq all
        BY <1>p, <2>4, <2>5, <3>4
      <4> QED BY <3>4, <4>1 DEF Moves, GroupOp
    <3>5. CASE /\ op[t].page < Pages
               /\ ~(mode = "none" /\ op[t].kind = "lookup" /\ op[t].who \in page)
               /\ Moves(t, "gpage", op[t].page + 1, all, op[t].next, op[t].result)
      <4>1. mode # "none" => \A p \in S : PageOf[p] < op[t].page + 1 => p \in all
        BY <2>3, <2>4, <2>5
      <4>2. mode = "none" /\ op[t].kind = "lookup" /\ op[t].who \in S
                => PageOf[op[t].who] >= op[t].page + 1
        BY <2>3, <2>4, <2>6, <2>7, <3>5
      <4> QED BY <3>5, <4>1, <4>2 DEF Moves, GroupOp
    <3> QED BY <2>8, <3>1, <3>2, <3>3, <3>4, <3>5
  <2> QED BY <2>1, <2>2, <2>9, GroupFromRecord
<1>7. ASSUME NEW t \in Tasks, PageFails(t) PROVE GroupInv'
  <2>1. /\ UNCHANGED <<mode, steadyMembers, cachedMembers>>
        /\ Moves(t, "done", op[t].page, {}, op[t].next, "error")
    BY <1>7, OtherMoves DEF PageFails, cache
  <2>2. GroupOp(op'[t])
    BY <2>1 DEF GroupOp, Moves
  <2> QED BY <2>1, <2>2, GroupFromRecord DEF Moves
<1>8. ASSUME NEW t \in Tasks, ClearFriends(t) PROVE GroupInv'
  <2>1. /\ UNCHANGED <<mode, steadyMembers, cachedMembers>>
        /\ Moves(t, "fill", op[t].page, op[t].acc, op[t].next, op[t].result)
    BY <1>8, OtherMoves DEF ClearFriends, history
  <2>2. GroupOp(op'[t])
    BY <2>1 DEF GroupOp, Moves
  <2> QED BY <2>1, <2>2, GroupFromRecord DEF Moves
<1>9. ASSUME NEW t \in Tasks, FillFriends(t) PROVE GroupInv'
  <2>1. UNCHANGED <<mode, steadyMembers, cachedMembers>>
    BY <1>9 DEF FillFriends
  <2>2. op[t].pc = "fill" /\ \A u \in Tasks \ {t} : op'[u] = op[u]
    BY <1>9, FillMoves DEF Moves
  <2>3. op[t].next = "group?" \/ (op[t].next \in {"friend?", "resolve"} /\ op[t].grp = NoGroup)
    <3>1. op[t].kind \in {"lookup", "friends"} /\ Shape(op[t])
      BY <1>0, <2>2 DEF Shape
    <3>2. CASE op[t].kind = "lookup"
      BY <3>1, <3>2 DEF Shape
    <3>3. CASE op[t].kind = "friends"
      BY <3>1, <3>3 DEF Shape
    <3> QED BY <3>1, <3>2, <3>3
  <2>4. op'[t].grp = op[t].grp /\ op'[t].pc \in {"fill", op[t].next}
    BY <1>9, FillMoves DEF Moves
  <2>5. GroupOp(op'[t])
    BY <2>3, <2>4 DEF GroupOp
  <2> QED BY <2>1, <2>2, <2>5, GroupFromRecord
<1>10. ASSUME NEW t \in Tasks, StoreGroup(t) PROVE GroupInv'
  <2>1. /\ op[t].pc = "gstore" /\ UNCHANGED <<mode, steadyMembers>>
        /\ Moves(t, op[t].next, 1, {}, op[t].next, op[t].result)
        /\ cachedMembers' = [cachedMembers EXCEPT ![op[t].grp] = op[t].acc]
    BY <1>10, OtherMoves DEF StoreGroup, history
  <2>2. /\ op[t].grp \in Groups /\ op[t].kind \in {"lookup", "roster", "event"}
        /\ op[t].next \in {"group?", "done"} /\ (op[t].next = "done" => op[t].kind = "event")
        /\ op[t].acc \in SUBSET People /\ steadyMembers[op[t].grp] \subseteq op[t].acc
    BY <1>0, <2>1 DEF Shape, Ops, GroupOp
  <2>3. /\ \A g \in Groups : cachedMembers'[g] = Absent \/ steadyMembers[g] \subseteq cachedMembers'[g]
        /\ \A g \in Groups : cachedMembers[g] # Absent => cachedMembers'[g] # Absent
    BY <1>0, <1>p, <2>1, <2>2
  <2>4. ASSUME NEW u \in Tasks PROVE GroupOp(op[u])'
    <3>1. CASE u = t
      BY <2>1, <2>2, <3>1 DEF GroupOp, Moves
    <3>2. CASE u # t
      <4>1. op'[u] = op[u] /\ op[u].grp \in Groups \cup {NoGroup} /\ GroupOp(op[u])
        BY <1>0, <2>1, <3>2 DEF Moves, Ops
      <4> QED BY <2>1, <2>3, <4>1 DEF GroupOp
    <3> QED BY <3>1, <3>2
  <2> QED BY <2>1, <2>3, <2>4 DEF GroupInv
<1>11. ASSUME NEW t \in Tasks, Resolve(t) PROVE GroupInv'
  <2>1. UNCHANGED <<mode, steadyMembers, cachedMembers>>
    BY <1>11 DEF Resolve, cache, history
  <2>2. \A u \in Tasks \ {t} : op'[u] = op[u]
    BY <1>11, ResolveMoves DEF Moves
  <2>3. op[t].pc = "resolve" /\ op[t].grp \in Groups \cup {NoGroup}
    BY <1>0, <1>11, ResolveMoves DEF Ops
  <2>4. op[t].grp # NoGroup => steadyMembers[op[t].grp] \subseteq Cached(op[t].grp)
    BY <1>0, <2>3 DEF GroupOp, Cached
  <2>5. CASE op[t].kind = "lookup" /\ Moves(t, "done", op[t].page, {}, op[t].next, IF Found(t) THEN "found" ELSE "notfound")
    <3>1. op[t].grp # NoGroup /\ op[t].who \in steadyMembers[op[t].grp] => Found(t)
      BY <2>4 DEF Found
    <3> QED BY <2>1, <2>2, <2>5, <3>1, GroupFromRecord DEF GroupOp, Moves
  <2>6. CASE /\ op[t].kind = "roster" /\ op[t].grp \in Groups
             /\ Moves(t, "done", op[t].page, Cached(op[t].grp), op[t].next, "list")
    BY <1>p, <2>1, <2>2, <2>4, <2>6, GroupFromRecord DEF GroupOp, Moves
  <2>7. CASE op[t].kind = "friends" /\ Moves(t, "done", op[t].page, cachedFriends, op[t].next, "list")
    BY <2>1, <2>2, <2>7, GroupFromRecord DEF GroupOp, Moves
  <2> QED BY <1>11, <2>5, <2>6, <2>7, ResolveMoves
<1>12. ASSUME NEW g \in Groups, NEW p \in People, MemberChange(g, p) PROVE GroupInv'
  <2>1. UNCHANGED <<mode, cachedMembers, op>> /\ \A h \in Groups : steadyMembers'[h] \subseteq steadyMembers[h]
    BY <1>0, <1>12 DEF MemberChange, cache
  <2>2. ASSUME NEW u \in Tasks PROVE GroupOp(op[u])'
    <3>1. op[u].grp \in Groups => GroupOp(op[u])'
      BY <1>0, <2>1 DEF GroupOp
    <3>2. op[u].grp = NoGroup => GroupOp(op[u])'
      BY <1>0, <1>p, <2>1 DEF GroupOp, Shape
    <3> QED BY <1>0, <3>1, <3>2 DEF Ops
  <2> QED BY <1>0, <2>1, <2>2 DEF GroupInv
<1>13. ASSUME UNCHANGED vars \/ \E p \in People : FriendChange(p) PROVE GroupInv'
  <2>1. UNCHANGED <<mode, steadyMembers, cachedMembers, op>>
    BY <1>13 DEF vars, cache, history, FriendChange
  <2> QED BY <2>1 DEF GroupInv, GroupOp
<1> QED BY <1>1, <1>2, <1>3, <1>4, <1>5, <1>6, <1>7, <1>8, <1>9, <1>10, <1>11, <1>12, <1>13
        DEF Next, TaskStep

LEMMA GroupAlways == Spec => []GroupInv
BY GroupInit, GroupStep, TypeAlways, PTL DEF Spec

(* Whoever has been in the group all along is found by a lookup in it.     *)
THEOREM SteadyFound == Spec => []SteadyMemberFound
<1>1. GroupInv => SteadyMemberFound
  BY DEF GroupInv, GroupOp, SteadyMemberFound
<1> QED BY <1>1, GroupAlways, PTL

(* With a cache, the list of members lacks nobody who has been in the      *)
(* group all along, although refreshes overlap and fail.                   *)
THEOREM RosterWhole == Spec => []CachedRosterComplete
<1>1. GroupInv => CachedRosterComplete
  BY DEF GroupInv, GroupOp, CachedRosterComplete, RosterComplete
<1> QED BY <1>1, GroupAlways, PTL

-----------------------------------------------------------------------------
(* When the cached members are the server's.  As long as a group is not    *)
(* blemished, one task at a time refreshes it; and once its events are     *)
(* handled, what that task has collected is what the server has on the     *)
(* pages so far, and otherwise so is what is cached.                       *)
Exact(o, g) ==
    /\ o.pc = "gpage" /\ o.grp = g =>
          \A p \in People : p \in o.acc <=> p \in members[g] /\ PageOf[p] < o.page
    /\ o.pc = "gstore" /\ o.grp = g => o.acc = members[g]

InRefresh(o, g) == o.pc \in {"gpage", "gstore"} /\ o.grp = g

FreshInv ==
    mode # "none" =>
        \A g \in Groups : ~blemished[g] =>
            /\ \A t, u \in Tasks : InRefresh(op[t], g) /\ InRefresh(op[u], g) => t = u
            /\ events[g] = 0 =>
                  /\ \A t \in Tasks : Exact(op[t], g)
                  /\ (\A t \in Tasks : ~InRefresh(op[t], g))
                        => cachedMembers[g] = Absent \/ cachedMembers[g] = members[g]

LEMMA FreshInit == Init => FreshInv
<1> SUFFICES ASSUME Init PROVE FreshInv
  OBVIOUS
<1>1. \A t \in Tasks : op[t].pc = "idle"
  BY DEF Init, Idle
<1>2. \A g \in Groups : cachedMembers[g] = Absent
  BY DEF Init
<1> QED BY <1>1, <1>2 DEF FreshInv, Exact, InRefresh

(* A step of a task that does not touch a refresh.                         *)
LEMMA FreshElsewhere ==
    ASSUME TypeInv, FreshInv, NEW t \in Tasks, UNCHANGED <<mode, members, cachedMembers, blemished, events>>,
           \A u \in Tasks \ {t} : op'[u] = op[u],
           op[t].pc \notin {"gpage", "gstore"}, op'[t].pc \notin {"gpage", "gstore"}
    PROVE  FreshInv'
<1>1. \A u \in Tasks, g \in Groups :
          /\ InRefresh(op'[u], g) <=> InRefresh(op[u], g)
          /\ Exact(op[u], g) => Exact(op[u], g)'
  BY DEF InRefresh, Exact
<1>2. \A u \in Tasks, g \in Groups : InRefresh(op[u], g)' <=> InRefresh(op[u], g)
  BY <1>1 DEF InRefresh
<1> QED BY <1>1, <1>2 DEF FreshInv

(* A task enters a refresh of group g.                                     *)
LEMMA FreshEntered ==
    ASSUME TypeInv, FreshInv, NEW t \in Tasks, NEW g \in Groups, mode # "none",
           UNCHANGED <<mode, members, cachedMembers>>, Mark(g, Overlaps(t, g)),
           \A u \in Tasks \ {t} : op'[u] = op[u], op[t].pc \notin {"gpage", "gstore"},
           op'[t].pc = "gpage", op'[t].grp = g, op'[t].page = 1, op'[t].acc = {},
           \A h \in Groups \ {g} : events'[h] = events[h]
    PROVE  FreshInv'
<1>0. PageOf \in [People -> 1 .. Pages] /\ Pages \in Nat
  BY CacheAssumption
<1>1. Overlaps(t, g) <=> \E u \in Tasks \ {t} : InRefresh(op[u], g)
  BY DEF Overlaps, Refreshing, InRefresh
<1>2. Overlaps(t, g) => blemished'[g]
  BY MarkType
<1>3. \A h \in Groups : blemished[h] => blemished'[h]
  BY MarkType
<1>4. SUFFICES ASSUME NEW h \in Groups, ~blemished'[h]
      PROVE  /\ \A a, b \in Tasks : InRefresh(op'[a], h) /\ InRefresh(op'[b], h) => a = b
             /\ events'[h] = 0 =>
                  /\ \A a \in Tasks : Exact(op[a], h)'
                  /\ (\A a \in Tasks : ~InRefresh(op'[a], h))
                        => cachedMembers'[h] = Absent \/ cachedMembers'[h] = members'[h]
  BY DEF FreshInv, InRefresh
<1>5. CASE h = g
  <2>1. \A u \in Tasks \ {t} : ~InRefresh(op[u], g)
    BY <1>1, <1>2, <1>4, <1>5
  <2>2. InRefresh(op'[t], g) /\ \A u \in Tasks \ {t} : ~InRefresh(op'[u], g)
    BY <2>1 DEF InRefresh
  <2>3. Exact(op[t], g)'
    BY <1>0 DEF Exact
  <2>4. \A u \in Tasks \ {t} : Exact(op[u], g)'
    BY <2>2 DEF Exact, InRefresh
  <2> QED BY <1>5, <2>2, <2>3, <2>4
<1>6. CASE h # g
  <2>1. ~InRefresh(op'[t], h) /\ ~InRefresh(op[t], h) /\ Exact(op[t], h)'
    BY <1>6 DEF InRefresh, Exact
  <2>2. \A u \in Tasks \ {t} : (InRefresh(op'[u], h) <=> InRefresh(op[u], h)) /\ (Exact(op[u], h) => Exact(op[u], h)')
    BY DEF InRefresh, Exact
  <2> QED BY <1>3, <1>4, <1>6, <2>1, <2>2 DEF FreshInv
<1> QED BY <1>5, <1>6

LEMMA FreshStep == TypeInv /\ FreshInv /\ [Next]_vars => FreshInv'
<1> SUFFICES ASSUME TypeInv, FreshInv, [Next]_vars PROVE FreshInv'
  OBVIOUS
<1>0. /\ op \in [Tasks -> Ops] /\ \A t \in Tasks : Shape(op[t])
      /\ members \in [Groups -> SUBSET People] /\ events \in [Groups -> Nat]
      /\ cachedMembers \in [Groups -> (SUBSET People) \cup {Absent}]
      /\ blemished \in [Groups -> BOOLEAN]
  BY DEF TypeInv, TypeOK, Types
<1>p. PageOf \in [People -> 1 .. Pages] /\ Pages \in Nat
  BY CacheAssumption
<1>1. ASSUME NEW t \in Tasks, Begin(t) PROVE FreshInv'
  <2>1. /\ UNCHANGED <<mode, members, cachedMembers>>
        /\ \A u \in Tasks \ {t} : op'[u] = op[u]
    BY <1>1, BeginMoves DEF Begin, cache
  <2>2. CASE mode = "none"
    BY <2>1, <2>2 DEF FreshInv
  <2>3. CASE mode # "none" /\ op'[t].pc = "gpage"
    <3>1. op'[t].grp \in Groups /\ Mark(op'[t].grp, Overlaps(t, op'[t].grp))
          /\ op[t].pc \in {"idle", "done"} /\ op'[t].page = 1 /\ op'[t].acc = {}
      BY <1>1, <2>3, BeginMoves DEF Shape
    <3>2. \A h \in Groups \ {op'[t].grp} : events'[h] = events[h]
      BY <1>0, <1>1, BeginMoves
    <3> QED BY <2>1, <2>3, <3>1, <3>2, FreshEntered
  <2>4. CASE mode # "none" /\ op'[t].pc # "gpage"
    <3>1. UNCHANGED <<blemished, events>> /\ op[t].pc \notin {"gpage", "gstore"}
          /\ op'[t].pc \notin {"gpage", "gstore"}
      BY <1>1, <2>4, BeginMoves
    <3> QED BY <2>1, <3>1, FreshElsewhere
  <2> QED BY <2>2, <2>3, <2>4
<1>2. ASSUME NEW t \in Tasks, CheckFriends(t) \/ CheckFriend(t) \/ ClearFriends(t) PROVE FreshInv'
  <2>1. /\ UNCHANGED <<mode, members, cachedMembers, blemished, events>>
        /\ op[t].pc \notin {"gpage", "gstore"}
    BY <1>2 DEF CheckFriends, CheckFriend, ClearFriends, server, cache, history
  <2>2. /\ \A u \in Tasks \ {t} : op'[u] = op[u]
        /\ op'[t].pc \notin {"gpage", "gstore"}
    BY <1>2, OtherMoves DEF Moves
  <2> QED BY <2>1, <2>2, FreshElsewhere
<1>3. ASSUME NEW t \in Tasks, CheckGroup(t) PROVE FreshInv'
  <2>1. /\ UNCHANGED <<mode, members, cachedMembers, events>> /\ op[t].pc = "group?"
        /\ Moves(t, IF op[t].grp # NoGroup /\ cachedMembers[op[t].grp] = Absent THEN "gpage" ELSE "resolve",
                 1, {}, op[t].next, op[t].result)
    BY <1>3, OtherMoves DEF CheckGroup, cache, server
  <2>2. op[t].grp \in Groups \cup {NoGroup} /\ mode # "none"
    BY <1>0, <2>1 DEF Ops, Shape
  <2>3. CASE op[t].grp # NoGroup /\ cachedMembers[op[t].grp] = Absent
    <3>1. Mark(op[t].grp, Overlaps(t, op[t].grp))
      BY <1>3, <2>3 DEF CheckGroup
    <3> QED BY <2>1, <2>2, <2>3, <3>1, FreshEntered DEF Moves
  <2>4. CASE ~(op[t].grp # NoGroup /\ cachedMembers[op[t].grp] = Absent)
    <3>1. UNCHANGED blemished
      BY <1>3, <2>4 DEF CheckGroup
    <3> QED BY <2>1, <2>4, <3>1, FreshElsewhere DEF Moves
  <2> QED BY <2>3, <2>4
<1>4. ASSUME NEW t \in Tasks, FriendPage(t) \/ FillFriends(t) \/ Resolve(t) PROVE FreshInv'
  <2>1. UNCHANGED <<mode, members, cachedMembers, blemished, events>>
    BY <1>4 DEF FriendPage, FillFriends, Resolve, server, cache, history
  <2>2. op[t].pc \in {"fpage", "fill", "resolve"}
    BY <1>4, FriendPageMoves, FillMoves, ResolveMoves
  <2>3. op[t].pc = "fill" => op[t].next \in {"group?", "friend?", "resolve"}
    BY <1>0 DEF Shape
  <2>4. /\ \A u \in Tasks \ {t} : op'[u] = op[u]
        /\ op'[t].pc \notin {"gpage", "gstore"}
    <3>1. CASE FriendPage(t)
      BY <3>1, FriendPageMoves DEF Moves
    <3>2. CASE FillFriends(t)
      BY <2>3, <3>2, FillMoves DEF Moves
    <3>3. CASE Resolve(t)
      BY <3>3, ResolveMoves DEF Moves
    <3> QED BY <1>4, <3>1, <3>2, <3>3
  <2> QED BY <2>1, <2>2, <2>4, FreshElsewhere
<1>5. ASSUME NEW t \in Tasks, PageFails(t) PROVE FreshInv'
  <2>1. /\ UNCHANGED <<mode, members, cachedMembers, events>> /\ op[t].pc \in {"fpage", "gpage"}
        /\ Moves(t, "done", op[t].page, {}, op[t].next, "error")
    BY <1>5, OtherMoves DEF PageFails, cache, server
  <2>2. CASE op[t].pc = "fpage"
    <3>1. UNCHANGED blemished
      BY <1>5, <2>2 DEF PageFails
    <3> QED BY <2>1, <2>2, <3>1, FreshElsewhere DEF Moves
  <2>3. CASE op[t].pc = "gpage"
    <3> DEFINE g == op[t].grp
    <3>1. g \in Groups /\ Mark(g, TRUE)
      BY <1>0, <1>5, <2>3 DEF PageFails, Shape
    <3>2. blemished'[g] /\ \A h \in Groups : blemished[h] => blemished'[h]
      BY <3>1, MarkType
    <3>3. \A h \in Groups \ {g} : ~InRefresh(op[t], h) /\ ~InRefresh(op'[t], h) /\ Exact(op[t], h)'
      BY <2>1 DEF InRefresh, Exact, Moves
    <3>4. \A u \in Tasks \ {t}, h \in Groups :
              /\ InRefresh(op[u], h)' <=> InRefresh(op[u], h)
              /\ Exact(op[u], h) => Exact(op[u], h)'
      BY <2>1 DEF InRefresh, Exact, Moves
    <3>5. \A h \in Groups \ {g} : ~InRefresh(op[t], h)'
      BY <3>3 DEF InRefresh
    <3> HIDE DEF g
    <3> QED BY <2>1, <3>2, <3>3, <3>4, <3>5 DEF FreshInv
  <2> QED BY <2>1, <2>2, <2>3
<1>6. ASSUME NEW t \in Tasks, GroupPage(t) PROVE FreshInv'
  <2>1. UNCHANGED <<mode, members, cachedMembers, blemished, events>>
    BY <1>6 DEF GroupPage, server, cache, history
  <2>2. CASE mode = "none"
    BY <2>1, <2>2 DEF FreshInv
  <2>3. CASE mode # "none"
    <3>0. op[t].pc = "gpage" /\ op[t].grp \in Groups
      BY <1>0, <1>6, GroupPageMoves
    <3>g. PICK g \in Groups : op[t].grp = g
      BY <3>0
    <3> DEFINE page == {p \in members[g] : PageOf[p] = op[t].page}
               all == op[t].acc \cup page
    <3>1. op[t].page \in 1 .. Pages /\ op[t].acc \in SUBSET People
      BY <1>0 DEF Ops
    <3>2. \/ /\ op[t].page = Pages
             /\ Moves(t, "gstore", op[t].page, all, op[t].next, op[t].result)
          \/ /\ op[t].page < Pages
             /\ Moves(t, "gpage", op[t].page + 1, all, op[t].next, op[t].result)
      BY <1>6, <2>3, <3>g, GroupPageMoves
    <3>3. \A p \in People : p \in page <=> p \in members[g] /\ PageOf[p] = op[t].page
      BY <1>0
    <3>4. page \subseteq People /\ members[g] \subseteq People
      BY <1>0
    <3>5. all \subseteq People /\ \A p \in People : p \in all <=> p \in op[t].acc \/ p \in page
      BY <3>1, <3>4
    <3> HIDE DEF page, all
    <3>6. Exact(op[t], g) => Exact(op'[t], g)
      <4> SUFFICES ASSUME Exact(op[t], g) PROVE Exact(op'[t], g)
        OBVIOUS
      <4>0. \A p \in People : p \in op[t].acc <=> p \in members[g] /\ PageOf[p] < op[t].page
        BY <3>0, <3>g DEF Exact
      <4>1. \A p \in People : p \in all <=> p \in members[g] /\ PageOf[p] <= op[t].page
        <5>1. \A p \in People : PageOf[p] \in Nat /\ op[t].page \in Nat
          BY <1>p, <3>1
        <5> QED BY <3>3, <3>5, <4>0, <5>1
      <4>2. CASE op'[t].pc = "gstore" /\ op[t].page = Pages /\ op'[t].acc = all
        <5>1. \A p \in People : PageOf[p] <= Pages
          BY <1>p
        <5>2. \A p \in People : p \in all <=> p \in members[g]
          BY <4>1, <4>2, <5>1
        <5>3. all = members[g]
          BY <3>4, <3>5, <5>2
        <5> QED BY <4>2, <5>3 DEF Exact
      <4>3. CASE op'[t].pc = "gpage" /\ op'[t].page = op[t].page + 1 /\ op'[t].acc = all
        <5>1. \A p \in People : p \in all <=> p \in members[g] /\ PageOf[p] < op[t].page + 1
          BY <1>p, <3>1, <4>1
        <5> QED BY <4>3, <5>1 DEF Exact
      <4> QED BY <3>2, <4>2, <4>3 DEF Moves
    <3>7. \A h \in Groups \ {g} : ~InRefresh(op[t], h) /\ Exact(op'[t], h)
      BY <3>2, <3>g DEF InRefresh, Exact, Moves
    <3>8. \A u \in Tasks, h \in Groups : InRefresh(op'[u], h) <=> InRefresh(op[u], h)
      BY <3>0, <3>2 DEF InRefresh, Moves
    <3>9. \A u \in Tasks, h \in Groups : Exact(op[u], h) => Exact(op'[u], h)
      <4>1. \A u \in Tasks \ {t} : op'[u] = op[u]
        BY <3>2 DEF Moves
      <4> QED BY <3>6, <3>7, <4>1
    <3>10. \A u \in Tasks, h \in Groups :
              /\ InRefresh(op[u], h)' <=> InRefresh(op[u], h)
              /\ Exact(op[u], h) => Exact(op[u], h)'
      BY <2>1, <3>8, <3>9 DEF InRefresh, Exact
    <3> QED BY <2>1, <3>10 DEF FreshInv
  <2> QED BY <2>2, <2>3
<1>7. ASSUME NEW t \in Tasks, StoreGroup(t) PROVE FreshInv'
  <2> DEFINE g == op[t].grp
  <2>1. /\ op[t].pc = "gstore" /\ UNCHANGED <<mode, members, blemished, events>>
        /\ Moves(t, op[t].next, 1, {}, op[t].next, op[t].result)
        /\ cachedMembers' = [cachedMembers EXCEPT ![g] = op[t].acc]
    BY <1>7, OtherMoves DEF StoreGroup, server, history
  <2>2. g \in Groups /\ op[t].next \in {"group?", "done"}
    BY <1>0, <2>1 DEF Shape
  <2>3. cachedMembers'[g] = op[t].acc /\ \A h \in Groups \ {g} : cachedMembers'[h] = cachedMembers[h]
    BY <1>0, <2>1, <2>2
  <2>4. \A h \in Groups : ~InRefresh(op[t], h)' /\ Exact(op[t], h)'
    BY <2>1, <2>2 DEF InRefresh, Exact, Moves
  <2>5. \A u \in Tasks \ {t}, h \in Groups :
            /\ InRefresh(op[u], h)' <=> InRefresh(op[u], h)
            /\ Exact(op[u], h) => Exact(op[u], h)'
    BY <2>1 DEF InRefresh, Exact, Moves
  <2>6. InRefresh(op[t], g) /\ \A h \in Groups \ {g} : ~InRefresh(op[t], h)
    BY <2>1 DEF InRefresh
  <2>7. Exact(op[t], g) => op[t].acc = members[g]
    BY <2>1 DEF Exact
  <2> HIDE DEF g
  <2> QED BY <2>1, <2>2, <2>3, <2>4, <2>5, <2>6, <2>7 DEF FreshInv
<1>8. ASSUME NEW g \in Groups, NEW p \in People, MemberChange(g, p) PROVE FreshInv'
  <2>1. UNCHANGED <<mode, cachedMembers, op>>
    BY <1>8 DEF MemberChange, cache
  <2>2. \A h \in Groups \ {g} : members'[h] = members[h] /\ events'[h] = events[h]
    BY <1>0, <1>8 DEF MemberChange
  <2>3. \A h \in Groups : blemished[h] => blemished'[h]
    BY <1>8, MarkType DEF MemberChange
  <2>4. blemished'[g] \/ events'[g] # 0
    <3>1. CASE p = Me /\ Me \in members[g]
      <4>1. Mark(g, p = Me /\ Me \in members[g])
        BY <1>8 DEF MemberChange
      <4> QED BY <3>1, <4>1, MarkType
    <3>2. CASE ~(p = Me /\ Me \in members[g])
      <4>1. events' = [events EXCEPT ![g] = @ + 1]
        BY <1>8, <3>2 DEF MemberChange
      <4> QED BY <1>0, <4>1
    <3> QED BY <3>1, <3>2
  <2>5. \A u \in Tasks, h \in Groups : InRefresh(op[u], h)' <=> InRefresh(op[u], h)
    BY <2>1 DEF InRefresh
  <2>6. \A u \in Tasks, h \in Groups \ {g} : Exact(op[u], h)' <=> Exact(op[u], h)
    BY <2>1, <2>2 DEF Exact
  <2> QED BY <2>1, <2>2, <2>3, <2>4, <2>5, <2>6 DEF FreshInv
<1>9. ASSUME UNCHANGED vars \/ \E p \in People : FriendChange(p) PROVE FreshInv'
  <2>1. UNCHANGED <<mode, members, events, blemished, cachedMembers, op>>
    BY <1>9 DEF vars, server, cache, history, FriendChange
  <2> QED BY <2>1 DEF FreshInv, Exact, InRefresh
<1> QED BY <1>1, <1>2, <1>3, <1>4, <1>5, <1>6, <1>7, <1>8, <1>9 DEF Next, TaskStep

LEMMA FreshAlways == Spec => []FreshInv
BY FreshInit, FreshStep, TypeAlways, PTL DEF Spec

(* Once every event of an unblemished group is handled and no refresh of   *)
(* it runs, its cached members are the server's.                           *)
THEOREM FreshWhenQuiet == Spec => []FreshUnlessBlemished
<1>1. FreshInv => FreshUnlessBlemished
  BY DEF FreshInv, FreshUnlessBlemished, InRefresh, Refreshing
<1> QED BY <1>1, FreshAlways, PTL


-----------------------------------------------------------------------------
(* Who has been a friend all along.  A refresh has collected those of the  *)
(* pages so far, and in full mode put them into the lookup maps; once a    *)
(* refresh is complete the cached friends have all of them, or some task   *)
(* that refills the map still holds those it lacks.                        *)
Behind(o) == {p \in steadyFriends : PageOf[p] < o.page}

FriendOp(o) ==
    /\ o.pc = "fpage" => Behind(o) \subseteq o.acc
    /\ o.pc = "fpage" /\ mode = "full" => Behind(o) \subseteq known
    /\ o.pc = "clear" => steadyFriends \subseteq o.acc
    /\ o.pc \in {"clear", "fill"} /\ mode = "full" => steadyFriends \subseteq known

Refilled == \/ steadyFriends \subseteq cachedFriends
            \/ \E u \in Tasks : op[u].pc = "fill" /\ steadyFriends \subseteq cachedFriends \cup op[u].acc

FriendInv ==
    mode # "none" =>
        /\ \A t \in Tasks : FriendOp(op[t])
        /\ mode = "full" /\ loaded => steadyFriends \subseteq known
        /\ loaded \/ (\E u \in Tasks : op[u].pc = "fill") => Refilled

LEMMA FriendInit == Init => FriendInv
<1> SUFFICES ASSUME Init PROVE FriendInv
  OBVIOUS
<1>1. \A t \in Tasks : op[t].pc = "idle"
  BY DEF Init, Idle
<1>2. ~loaded
  BY DEF Init
<1> QED BY <1>1, <1>2 DEF FriendInv, FriendOp

(* A step of a task neither in nor into the filling of the friends.        *)
LEMMA FriendElsewhere ==
    ASSUME TypeInv, FriendInv, NEW t \in Tasks, UNCHANGED <<mode, steadyFriends, loaded, cachedFriends>>,
           known \subseteq known', \A u \in Tasks \ {t} : op'[u] = op[u],
           op[t].pc # "fill", op'[t].pc # "fill",
           mode # "none" => FriendOp(op[t])'
    PROVE  FriendInv'
<1> SUFFICES ASSUME mode # "none" PROVE FriendInv'
  BY DEF FriendInv
<1>1. \A u \in Tasks : FriendOp(op[u])'
  <2>1. \A u \in Tasks \ {t} : FriendOp(op[u])'
    BY DEF FriendInv, FriendOp, Behind
  <2> QED BY <2>1
<1>2. mode = "full" /\ loaded => steadyFriends \subseteq known'
  BY DEF FriendInv
<1>3. loaded \/ (\E u \in Tasks : op'[u].pc = "fill") => Refilled
  BY DEF FriendInv
<1>4. Refilled => Refilled'
  BY DEF Refilled
<1> QED BY <1>1, <1>2, <1>3, <1>4 DEF FriendInv

(* A record at the first page, or outside a refresh of the friends.        *)
LEMMA FriendElsewhereOp ==
    ASSUME TypeInv', UNCHANGED steadyFriends, NEW t \in Tasks, op'[t].pc \notin {"clear", "fill"},
           op'[t].pc = "fpage" => op'[t].page = 1
    PROVE  FriendOp(op[t])'
<1>1. op'[t].page = 1 => Behind(op[t])' = {}
  <2>1. steadyFriends' \subseteq People /\ PageOf \in [People -> 1 .. Pages] /\ Pages \in Nat
    BY CacheAssumption DEF TypeInv, TypeOK, Types
  <2> QED BY <2>1 DEF Behind
<1> QED BY <1>1 DEF FriendOp

LEMMA FriendStep == TypeInv /\ TypeInv' /\ FriendInv /\ [Next]_vars => FriendInv'
<1> SUFFICES ASSUME TypeInv, TypeInv', FriendInv, [Next]_vars PROVE FriendInv'
  OBVIOUS
<1>0. /\ op \in [Tasks -> Ops] /\ \A t \in Tasks : Shape(op[t])
      /\ steadyFriends \subseteq friends /\ friends \in SUBSET People
  BY DEF TypeInv, TypeOK, Types
<1>p. Pages \in Nat /\ \A p \in People : PageOf[p] \in 1 .. Pages
  BY CacheAssumption
<1>1. ASSUME NEW t \in Tasks, Begin(t) PROVE FriendInv'
  <2>1. UNCHANGED <<mode, known, cachedFriends, steadyFriends, loaded>>
    BY <1>1 DEF Begin, cache
  <2>2. /\ \A u \in Tasks \ {t} : op'[u] = op[u]
        /\ op[t].pc # "fill" /\ op'[t].pc \notin {"clear", "fill"} /\ op'[t].page = 1
    BY <1>1, BeginMoves
  <2>3. FriendOp(op[t])'
    BY <2>1, <2>2, FriendElsewhereOp
  <2> QED BY <2>1, <2>2, <2>3, FriendElsewhere
<1>2. ASSUME NEW t \in Tasks, CheckFriends(t) \/ CheckFriend(t) \/ CheckGroup(t) PROVE FriendInv'
  <2>1. UNCHANGED <<mode, known, cachedFriends, steadyFriends, loaded>>
    BY <1>2 DEF CheckFriends, CheckFriend, CheckGroup, cache, history
  <2>2. op[t].pc \in {"friends?", "friend?", "group?"}
    BY <1>2 DEF CheckFriends, CheckFriend, CheckGroup
  <2>3. /\ \A u \in Tasks \ {t} : op'[u] = op[u]
        /\ op'[t].pc \notin {"clear", "fill"} /\ (op'[t].pc = "fpage" => op'[t].page = 1)
    <3>1. CASE CheckFriends(t)
      <4>1. op[t].pc = "friends?" /\ op[t].page = 1
        BY <1>0, <3>1 DEF CheckFriends, Shape
      <4> QED BY <3>1, <4>1, OtherMoves DEF Moves
    <3>2. CASE CheckFriend(t)
      BY <3>2, OtherMoves DEF Moves
    <3>3. CASE CheckGroup(t)
      BY <3>3, OtherMoves DEF Moves
    <3> QED BY <1>2, <3>1, <3>2, <3>3
  <2>4. FriendOp(op[t])'
    BY <2>1, <2>3, FriendElsewhereOp
  <2> QED BY <2>1, <2>2, <2>3, <2>4, FriendElsewhere
<1>3. ASSUME NEW t \in Tasks, GroupPage(t) \/ PageFails(t) \/ StoreGroup(t) \/ Resolve(t) PROVE FriendInv'
  <2>1. UNCHANGED <<mode, cachedFriends, steadyFriends, loaded>> /\ known \subseteq known'
    BY <1>3 DEF GroupPage, PageFails, StoreGroup, Resolve, Learn, cache, history
  <2>2. op[t].pc # "fill"
    BY <1>3 DEF GroupPage, PageFails, StoreGroup, Resolve
  <2>3. /\ \A u \in Tasks \ {t} : op'[u] = op[u]
        /\ op'[t].pc \notin {"fpage", "clear", "fill"}
    <3>1. CASE GroupPage(t)
      BY <3>1, GroupPageMoves DEF Moves
    <3>2. CASE PageFails(t)
      BY <3>2, OtherMoves DEF Moves
    <3>3. CASE StoreGroup(t)
      <4>1. op[t].next \in {"group?", "done"}
        BY <1>0, <3>3 DEF StoreGroup, Shape
      <4> QED BY <3>3, <4>1, OtherMoves DEF Moves
    <3>4. CASE Resolve(t)
      BY <3>4, ResolveMoves DEF Moves
    <3> QED BY <1>3, <3>1, <3>2, <3>3, <3>4
  <2>4. FriendOp(op[t])'
    BY <2>1, <2>3, FriendElsewhereOp
  <2> QED BY <2>1, <2>2, <2>3, <2>4, FriendElsewhere
<1>4. ASSUME NEW t \in Tasks, FriendPage(t) PROVE FriendInv'
  <2> DEFINE page == {p \in friends : PageOf[p] = op[t].page}
             all == op[t].acc \cup page
  <2>1. /\ UNCHANGED <<mode, cachedFriends, steadyFriends, loaded>>
        /\ known' = IF mode = "full" THEN known \cup page ELSE known
    BY <1>4 DEF FriendPage, Learn, history
  <2>2. op[t].pc = "fpage" /\ op[t].page \in 1 .. Pages
    BY <1>0, <1>4 DEF FriendPage, Ops
  <2>3. mode # "none" =>
            \/ /\ op[t].page = Pages
               /\ Moves(t, "clear", op[t].page, all, op[t].next, op[t].result)
            \/ /\ op[t].page < Pages
               /\ Moves(t, "fpage", op[t].page + 1, all, op[t].next, op[t].result)
    BY <1>4, FriendPageMoves
  <2>4. /\ \A u \in Tasks \ {t} : op'[u] = op[u]
        /\ op'[t].pc # "fill"
    BY <1>4, FriendPageMoves DEF Moves
  <2>5. \A p \in steadyFriends : p \in page <=> PageOf[p] = op[t].page
    BY <1>0
  <2> HIDE DEF page
  <2>6. ASSUME mode # "none" PROVE FriendOp(op[t])'
    <3>1. \A p \in steadyFriends : PageOf[p] <= op[t].page => p \in all
      <4>1. \A p \in steadyFriends : PageOf[p] < op[t].page => p \in op[t].acc
        BY <2>2, <2>6 DEF FriendInv, FriendOp, Behind
      <4> QED BY <1>0, <1>p, <2>2, <2>5, <4>1
    <3>2. mode = "full" => \A p \in steadyFriends : PageOf[p] <= op[t].page => p \in known'
      <4>1. mode = "full" => \A p \in steadyFriends : PageOf[p] < op[t].page => p \in known
        BY <2>2, <2>6 DEF FriendInv, FriendOp, Behind
      <4> QED BY <1>0, <1>p, <2>1, <2>2, <2>5, <4>1
    <3>3. CASE op[t].page = Pages /\ op'[t].pc = "clear" /\ op'[t].acc = all
      <4>1. \A p \in steadyFriends : PageOf[p] <= op[t].page
        BY <1>0, <1>p, <3>3
      <4> QED BY <2>1, <3>1, <3>2, <3>3, <4>1 DEF FriendOp
    <3>4. CASE op'[t].pc = "fpage" /\ op'[t].acc = all /\ op'[t].page = op[t].page + 1
      <4>1. \A p \in steadyFriends : PageOf[p] < op[t].page + 1 => PageOf[p] <= op[t].page
        BY <1>0, <1>p, <2>2
      <4>2. \A p \in Behind(op[t])' : p \in all /\ (mode = "full" => p \in known')
        BY <2>1, <3>1, <3>2, <3>4, <4>1 DEF Behind
      <4> QED BY <2>1, <3>4, <4>2 DEF FriendOp
    <3> QED BY <2>3, <2>6, <3>3, <3>4 DEF Moves
  <2> QED BY <2>1, <2>2, <2>4, <2>6, FriendElsewhere
<1>5. ASSUME NEW t \in Tasks, ClearFriends(t) PROVE FriendInv'
  <2>1. /\ op[t].pc = "clear" /\ cachedFriends' = {}
        /\ UNCHANGED <<mode, known, steadyFriends, loaded>>
        /\ Moves(t, "fill", op[t].page, op[t].acc, op[t].next, op[t].result)
    BY <1>5, OtherMoves DEF ClearFriends, history
  <2> SUFFICES ASSUME mode # "none" PROVE FriendInv'
    BY <2>1 DEF FriendInv
  <2>2. \A u \in Tasks : FriendOp(op[u])'
    <3>1. \A u \in Tasks \ {t} : FriendOp(op[u])'
      BY <2>1 DEF FriendInv, FriendOp, Behind, Moves
    <3>2. FriendOp(op[t])'
      BY <2>1 DEF FriendInv, FriendOp, Moves
    <3> QED BY <3>1, <3>2
  <2>3. op'[t].pc = "fill" /\ steadyFriends \subseteq op'[t].acc
    BY <2>1 DEF FriendInv, FriendOp, Moves
  <2>4. Refilled'
    BY <2>1, <2>3 DEF Refilled
  <2> QED BY <2>1, <2>2, <2>4 DEF FriendInv
<1>6. ASSUME NEW t \in Tasks, FillFriends(t) PROVE FriendInv'
  <2>1. UNCHANGED <<mode, known, steadyFriends>> /\ op[t].pc = "fill"
    BY <1>6 DEF FillFriends
  <2> SUFFICES ASSUME mode # "none" PROVE FriendInv'
    BY <2>1 DEF FriendInv
  <2>2. Refilled /\ FriendOp(op[t])
    BY <2>1 DEF FriendInv
  <2>3. /\ \A u \in Tasks \ {t} : op'[u] = op[u]
        /\ op'[t].pc \in {"fill", op[t].next} /\ op[t].next \in {"group?", "friend?", "resolve"}
    BY <1>0, <1>6, FillMoves DEF Moves, Shape
  <2>4. \A u \in Tasks : FriendOp(op[u])'
    <3>1. \A u \in Tasks \ {t} : FriendOp(op[u])'
      BY <2>1, <2>3 DEF FriendInv, FriendOp, Behind
    <3>2. FriendOp(op[t])'
      BY <2>1, <2>2, <2>3 DEF FriendOp
    <3> QED BY <3>1, <3>2
  <2>5. mode = "full" => steadyFriends \subseteq known
    BY <2>1, <2>2 DEF FriendOp
  <2>6. CASE op[t].acc = {} /\ UNCHANGED cachedFriends
    <3>1. Refilled'
      BY <2>1, <2>2, <2>3, <2>6 DEF Refilled
    <3> QED BY <2>1, <2>4, <2>5, <3>1 DEF FriendInv
  <2>7. ASSUME NEW p \in op[t].acc, cachedFriends' = cachedFriends \cup {p},
               op'[t].pc = "fill", op'[t].acc = op[t].acc \ {p}
        PROVE  FriendInv'
    <3>1. Refilled'
      <4>1. CASE steadyFriends \subseteq cachedFriends
        BY <2>1, <2>7, <4>1 DEF Refilled
      <4>2. ASSUME NEW u \in Tasks, op[u].pc = "fill", steadyFriends \subseteq cachedFriends \cup op[u].acc
            PROVE  Refilled'
        <5>1. steadyFriends \subseteq cachedFriends' \cup op'[u].acc /\ op'[u].pc = "fill"
          BY <2>3, <2>7, <4>2
        <5> QED BY <2>1, <5>1 DEF Refilled
      <4> QED BY <2>2, <4>1, <4>2 DEF Refilled
    <3> QED BY <2>1, <2>4, <2>5, <3>1 DEF FriendInv
  <2> QED BY <1>6, <2>6, <2>7, FillMoves DEF Moves
<1>7. ASSUME NEW p \in People, FriendChange(p) PROVE FriendInv'
  <2>1. /\ UNCHANGED <<mode, known, cachedFriends, op, loaded>>
        /\ steadyFriends' \subseteq steadyFriends
    BY <1>7 DEF FriendChange, cache
  <2>2. \A t \in Tasks : FriendOp(op[t]) => FriendOp(op[t])'
    BY <2>1 DEF FriendOp, Behind
  <2>3. Refilled => Refilled'
    BY <2>1 DEF Refilled
  <2> QED BY <2>1, <2>2, <2>3 DEF FriendInv
<1>8. ASSUME UNCHANGED vars \/ \E g \in Groups, p \in People : MemberChange(g, p) PROVE FriendInv'
  <2>1. UNCHANGED <<mode, known, cachedFriends, op, loaded, steadyFriends>>
    BY <1>8 DEF vars, cache, history, MemberChange
  <2> QED BY <2>1 DEF FriendInv, FriendOp, Behind, Refilled
<1> QED BY <1>1, <1>2, <1>3, <1>4, <1>5, <1>6, <1>7, <1>8 DEF Next, TaskStep

LEMMA FriendAlways == Spec => []FriendInv
BY FriendInit, FriendStep, TypeAlways, PTL DEF Spec

(* What a lookup that misses needs: the step is the task's own Resolve.    *)
LEMMA MissedLookup ==
    ASSUME TypeInv, [Next]_vars, NEW t \in Tasks, op[t].pc = "resolve", op'[t].result = "notfound"
    PROVE  ~Found(t)
<1>0. op[t].result = "none" /\ Shape(op[t])
  BY DEF TypeInv, Types, Shape
<1>1. ASSUME op'[t] = op[t] PROVE FALSE
  BY <1>0, <1>1
<1>2. ASSUME NEW u \in Tasks, u # t, Begin(u) \/ TaskStep(u) PROVE FALSE
  <2>1. op'[t] = op[t]
    <3>1. CASE Begin(u)
      BY <1>2, <3>1, BeginMoves
    <3>2. CASE FriendPage(u)
      BY <1>2, <3>2, FriendPageMoves DEF Moves
    <3>3. CASE GroupPage(u)
      BY <1>2, <3>3, GroupPageMoves DEF Moves
    <3>4. CASE FillFriends(u)
      BY <1>2, <3>4, FillMoves DEF Moves
    <3>5. CASE Resolve(u)
      BY <1>2, <3>5, ResolveMoves DEF Moves
    <3>6. CASE CheckFriends(u) \/ CheckFriend(u) \/ CheckGroup(u) \/ PageFails(u) \/ ClearFriends(u) \/ StoreGroup(u)
      BY <1>2, <3>6, OtherMoves DEF Moves
    <3> QED BY <1>2, <3>1, <3>2, <3>3, <3>4, <3>5, <3>6 DEF TaskStep
  <2> QED BY <1>1, <2>1
<1>3. ASSUME \/ UNCHANGED vars
             \/ \E g \in Groups, p \in People : MemberChange(g, p)
             \/ \E p \in People : FriendChange(p)
      PROVE FALSE
  <2>1. op' = op
    BY <1>3 DEF vars, MemberChange, FriendChange
  <2> QED BY <1>1, <2>1
<1>4. Begin(t) \/ TaskStep(t)
  BY <1>2, <1>3 DEF Next
<1>5. Resolve(t)
  <2>1. ~Begin(t)
    BY BeginMoves
  <2> QED BY <1>4, <2>1 DEF TaskStep, CheckFriends, CheckFriend, CheckGroup, FriendPage, GroupPage,
            PageFails, ClearFriends, FillFriends, StoreGroup
<1> QED BY <1>5, ResolveMoves DEF Moves

(* Once the friends have been refreshed, a lookup misses one who has been  *)
(* a friend all along only in half mode and while another task refills.    *)
THEOREM FriendFound == Spec => LoadedFriendFound
<1>1. ASSUME TypeInv, FriendInv, [Next]_vars
      PROVE  \A t \in Tasks :
                /\ loaded /\ mode # "none"
                /\ op[t].kind = "lookup" /\ op[t].grp = NoGroup /\ op[t].who \in steadyFriends
                /\ op[t].pc = "resolve" /\ op'[t].result = "notfound"
                => mode = "half" /\ \E u \in Tasks \ {t} : op[u].pc = "fill"
  <2> SUFFICES ASSUME NEW t \in Tasks, loaded, mode # "none",
                      op[t].grp = NoGroup, op[t].who \in steadyFriends,
                      op[t].pc = "resolve", op'[t].result = "notfound"
               PROVE  mode = "half" /\ \E u \in Tasks \ {t} : op[u].pc = "fill"
    OBVIOUS
  <2>1. op[t].who \notin known /\ op[t].who \notin cachedFriends
    BY <1>1, MissedLookup DEF Found
  <2>2. mode \in {"full", "half"}
    BY <1>1, CacheAssumption DEF TypeInv, TypeOK
  <2>3. mode # "full"
    BY <1>1, <2>1 DEF FriendInv
  <2>4. Refilled
    BY <1>1 DEF FriendInv
  <2> QED BY <2>1, <2>2, <2>3, <2>4 DEF Refilled
<1> QED BY <1>1, TypeAlways, FriendAlways, PTL DEF Spec, LoadedFriendFound
=============================================================================
