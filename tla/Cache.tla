------------------------------- MODULE Cache -------------------------------
(***************************************************************************)
(* The cache of friends and group members (src/mania/src/core/cache.rs)    *)
(* and the operations on it (core/operation/cache_op.rs): uin/uid lookups, *)
(* the two fetch_maybe_cached functions, and the refresh of a group that   *)
(* caching_logic makes when a member joins or leaves.                      *)
(*                                                                         *)
(* A person stands for a uin and its uid, which determine each other, so   *)
(* that uin2uid and uid2uin are one set of people.  Operations run in      *)
(* tasks and interleave at every request, map access and loop round.       *)
(***************************************************************************)
EXTENDS Integers, FiniteSets

CONSTANTS
    People, Me,   \* Me: the account of the bot itself
    Groups, NoGroup,
    Absent,       \* no entry for a group in cached_group_members
    Modes,        \* the values of CacheMode tried: "full", "half", "none"
    Pages,        \* how many pages an answer of the server has
    PageOf,       \* the page on which a person is listed
    Tasks,
    MaxOps,       \* bound on the operations begun
    MaxChanges    \* bound on the changes at the server

ASSUME CacheAssumption ==
    /\ Me \in People /\ NoGroup \notin Groups /\ \A S \in SUBSET People : Absent # S
    /\ MaxOps \in Nat
    /\ Modes \subseteq {"full", "half", "none"}
    /\ Pages \in Nat \ {0} /\ PageOf \in [People -> 1 .. Pages]

VARIABLES
    mode,      \* cache_mode: chosen when the cache is made
    friends, members,   \* at the server
    events,    \* joins and leaves of each group not handled yet
    changes,   \* changes made so far
    known,     \* the people in uin2uid and uid2uin
    cachedFriends, cachedMembers,
    op,        \* the operation of each task
    ops        \* how many operations have begun

server == <<friends, members, events, changes>>
cache  == <<mode, known, cachedFriends, cachedMembers>>

(* History: who has always been a friend or member; whether a refresh of   *)
(* the friends has been completed; whether two refreshes of a group        *)
(* overlapped, one failed, or the bot left the group.                      *)
VARIABLES steadyFriends, steadyMembers, loaded, blemished

history == <<steadyFriends, steadyMembers, loaded, blemished>>
vars == <<server, cache, op, ops, history>>

Idle == [pc |-> "idle", kind |-> "none", who |-> Me, grp |-> NoGroup, page |-> 1,
         acc |-> {}, next |-> "done", result |-> "none"]

PCs == {"idle", "friends?", "friend?", "group?", "fpage", "clear", "fill",
        "gpage", "gstore", "resolve", "done"}

TypeOK ==
    /\ mode \in Modes /\ friends \subseteq People /\ known \subseteq People /\ cachedFriends \subseteq People
    /\ members \in [Groups -> SUBSET People]
    /\ cachedMembers \in [Groups -> {Absent} \cup SUBSET People]
    /\ events \in [Groups -> Nat] /\ ops \in 0 .. MaxOps
    /\ \A t \in Tasks :
        /\ op[t].pc \in PCs
        /\ op[t].kind \in {"none", "lookup", "event", "roster", "friends"}
        /\ op[t].grp \in Groups \cup {NoGroup}
        /\ op[t].acc \subseteq People /\ op[t].page \in 1 .. Pages

Init ==
    /\ mode \in Modes
    /\ friends \in SUBSET (People \ {Me})
    /\ members \in [Groups -> {People}]
    /\ events = [g \in Groups |-> 0] /\ changes = 0
    /\ known = {} /\ cachedFriends = {}
    /\ cachedMembers = [g \in Groups |-> Absent]
    /\ op = [t \in Tasks |-> Idle]
    /\ ops = 0
    /\ steadyFriends = friends /\ steadyMembers = members
    /\ loaded = FALSE /\ blemished = [g \in Groups |-> FALSE]

-----------------------------------------------------------------------------
Goto(t, pc) == op' = [op EXCEPT ![t].pc = pc]
Enter(t, pc) == op' = [op EXCEPT ![t].pc = pc, ![t].page = 1, ![t].acc = {}]
End(t, result, list) ==
    op' = [op EXCEPT ![t].pc = "done", ![t].result = result, ![t].acc = list]

Refreshing(t, g) == op[t].pc \in {"gpage", "gstore"} /\ op[t].grp = g
(* A task that comes to refresh group g while another one does.            *)
Overlaps(t, g) == \E u \in Tasks \ {t} : Refreshing(u, g)
Mark(g, bad) == blemished' = IF bad THEN [blemished EXCEPT ![g] = TRUE] ELSE blemished

(* Where an operation begins.                                              *)
Entry(kind, grp, refresh, next) ==
    CASE mode = "none" /\ kind = "event" -> "done"   \* a warning, no request
      [] mode = "none" /\ kind # "event" -> IF grp = NoGroup THEN "fpage" ELSE "gpage"
      [] mode # "none" /\ kind = "lookup" -> "friends?"
      [] mode # "none" /\ kind = "event" -> "gpage"
      [] mode # "none" /\ kind = "roster" -> IF refresh THEN "gpage" ELSE "group?"
      [] mode # "none" /\ kind = "friends" -> IF refresh THEN "fpage" ELSE next

(* uin2uid, uid2uin, the refresh by caching_logic and the two              *)
(* fetch_maybe_cached functions are called.  Only a call that names a      *)
(* friend looks whether that friend is cached.                             *)
Begin(t) ==
    /\ op[t].pc \in {"idle", "done"} /\ ops < MaxOps /\ ops' = ops + 1
    /\ \E kind \in {"lookup", "event", "roster", "friends"}, who \in People,
          grp \in Groups \cup {NoGroup}, refresh, named \in BOOLEAN :
        /\ kind \in {"lookup", "event"} => ~refresh
        /\ kind \in {"event", "roster"} => grp # NoGroup /\ who = Me
        /\ kind = "friends" => grp = NoGroup
        /\ kind # "friends" => ~named
        /\ kind = "friends" /\ ~named => who = Me
        /\ kind = "event" => events[grp] > 0
        /\ events' = IF kind = "event" THEN [events EXCEPT ![grp] = @ - 1] ELSE events
        /\ LET next == CASE kind = "event" -> "done"
                         [] kind \in {"lookup", "roster"} -> "group?"
                         [] kind = "friends" -> IF named THEN "friend?" ELSE "resolve"
               pc == Entry(kind, grp, refresh, next)
           IN  /\ op' = [op EXCEPT ![t] = [Idle EXCEPT !.kind = kind, !.who = who,
                                            !.grp = grp, !.pc = pc, !.next = next]]
               /\ IF pc = "gpage" THEN Mark(grp, Overlaps(t, grp)) ELSE UNCHANGED blemished
    /\ UNCHANGED <<friends, members, changes, cache, steadyFriends, steadyMembers, loaded>>

(* The friends are fetched only if the lookup maps are empty.              *)
CheckFriends(t) ==
    /\ op[t].pc = "friends?"
    /\ Goto(t, IF mode = "full" /\ known = {} THEN "fpage" ELSE "group?")
    /\ UNCHANGED <<server, cache, ops, history>>

(* Mutant of CheckGroup: the group is never fetched.                       *)
CheckGroupNever(t) ==
    /\ op[t].pc = "group?"
    /\ Goto(t, "resolve")
    /\ UNCHANGED <<server, cache, ops, history>>

CheckGroup(t) ==
    /\ op[t].pc = "group?"
    /\ LET g == op[t].grp
           fetch == g # NoGroup /\ cachedMembers[g] = Absent
       IN  /\ Enter(t, IF fetch THEN "gpage" ELSE "resolve")
           /\ IF fetch THEN Mark(g, Overlaps(t, g)) ELSE UNCHANGED blemished
    /\ UNCHANGED <<server, cache, ops, steadyFriends, steadyMembers, loaded>>

(* fetch_maybe_cached_friends: refresh once if the friend is not cached.   *)
CheckFriend(t) ==
    /\ op[t].pc = "friend?"
    /\ op' = [op EXCEPT ![t].pc = IF op[t].who \in cachedFriends THEN "resolve" ELSE "fpage",
                        ![t].next = "resolve", ![t].page = 1, ![t].acc = {}]
    /\ UNCHANGED <<server, cache, ops, history>>

-----------------------------------------------------------------------------
(* Mutant of LastPage: one page too many.                                  *)
LastPageNever(t) == op[t].page > Pages

(* The answer has no token for a next page.                                *)
LastPage(t) == op[t].page = Pages

(* Mutant of Collected: a page replaces the ones before it.                *)
CollectedLast(t, page) == page

Collected(t, page) == op[t].acc \cup page

(* Mutant of Learn: the maps are left to the refresh of groups.            *)
LearnNothing(people) == known' = known

(* insert_uin_uid: only full mode has the lookup maps.                     *)
Learn(people) == known' = IF mode = "full" THEN known \cup people ELSE known

(* iter_fetch_friends and refresh_friends_cache.                           *)

(* One page.  In full mode the maps grow page by page; without a cache a   *)
(* lookup stops at the page that lists the person.                         *)
FriendPage(t) ==
    /\ op[t].pc = "fpage"
    /\ LET page == {p \in friends : PageOf[p] = op[t].page}
           last == LastPage(t)
           all  == Collected(t, page)
       IN
       /\ Learn(page)
       /\ CASE mode = "none" /\ op[t].kind = "lookup" /\ op[t].who \in page -> End(t, "found", {})
            [] mode = "none" /\ op[t].kind = "lookup" /\ op[t].who \notin page /\ last ->
                 End(t, "notfound", {})
            [] mode = "none" /\ op[t].kind = "friends" /\ last -> End(t, "list", all)
            [] mode # "none" /\ last -> op' = [op EXCEPT ![t].pc = "clear", ![t].acc = all]
            [] OTHER -> op' = [op EXCEPT ![t].page = @ + 1, ![t].acc = all]
    /\ UNCHANGED <<server, mode, cachedFriends, cachedMembers, ops, history>>

(* The request fails; uin2uid and the rest return the error.               *)
PageFails(t) ==
    /\ op[t].pc \in {"fpage", "gpage"}
    /\ End(t, "error", {})
    /\ IF op[t].pc = "gpage" THEN Mark(op[t].grp, TRUE) ELSE UNCHANGED blemished
    /\ UNCHANGED <<server, cache, ops, steadyFriends, steadyMembers, loaded>>

ClearFriends(t) ==
    /\ op[t].pc = "clear"
    /\ cachedFriends' = {}
    /\ Goto(t, "fill")
    /\ UNCHANGED <<server, mode, known, cachedMembers, ops, history>>

(* The friends collected are inserted one by one.                          *)
FillFriends(t) ==
    /\ op[t].pc = "fill"
    /\ IF op[t].acc = {}
         THEN /\ Enter(t, op[t].next)
              /\ loaded' = TRUE
              /\ UNCHANGED cachedFriends
         ELSE /\ \E p \in op[t].acc :
                   /\ cachedFriends' = cachedFriends \cup {p}
                   /\ op' = [op EXCEPT ![t].acc = @ \ {p}]
              /\ UNCHANGED loaded
    /\ UNCHANGED <<server, mode, known, cachedMembers, ops, steadyFriends, steadyMembers, blemished>>

-----------------------------------------------------------------------------
(* iter_fetch_group and refresh_group_members_cache.                       *)

(* One page.  Without a cache, fetch_maybe_cached_group_members inserts    *)
(* each page under the group's key in place of the one before.             *)
GroupPage(t) ==
    /\ op[t].pc = "gpage"
    /\ LET page == {p \in members[op[t].grp] : PageOf[p] = op[t].page}
           last == LastPage(t)
           all  == Collected(t, page)
       IN
       CASE mode = "none" /\ op[t].kind = "lookup" /\ op[t].who \in page -> End(t, "found", {})
         [] mode = "none" /\ op[t].kind = "lookup" /\ op[t].who \notin page /\ last ->
              End(t, "notfound", {})
         [] mode = "none" /\ op[t].kind = "roster" /\ last -> End(t, "list", page)
         [] mode # "none" /\ last -> op' = [op EXCEPT ![t].pc = "gstore", ![t].acc = all]
         [] OTHER -> op' = [op EXCEPT ![t].page = @ + 1, ![t].acc = all]
    /\ UNCHANGED <<server, cache, ops, history>>

(* An absent entry reads as no members.                                    *)
Cached(g) == IF cachedMembers[g] = Absent THEN {} ELSE cachedMembers[g]

(* Mutant of StoreGroup: members are added to those already cached.        *)
StoreGroupMerged(t) ==
    LET g == op[t].grp IN
    /\ op[t].pc = "gstore"
    /\ Learn(op[t].acc)
    /\ cachedMembers' = [cachedMembers EXCEPT ![g] =
                           op[t].acc \cup Cached(g)]
    /\ Enter(t, op[t].next)
    /\ UNCHANGED <<server, mode, cachedFriends, ops, history>>

(* The collected members replace the entry of the group.                   *)
StoreGroup(t) ==
    /\ op[t].pc = "gstore"
    /\ Learn(op[t].acc)
    /\ cachedMembers' = [cachedMembers EXCEPT ![op[t].grp] = op[t].acc]
    /\ Enter(t, op[t].next)
    /\ UNCHANGED <<server, mode, cachedFriends, ops, history>>

(* resolve_*_within_cache, or the closure run on the cached map.           *)
Found(t) ==
    \/ op[t].who \in known
    \/ op[t].grp # NoGroup /\ op[t].who \in Cached(op[t].grp)
    \/ op[t].grp = NoGroup /\ op[t].who \in cachedFriends

Resolve(t) ==
    /\ op[t].pc = "resolve"
    /\ CASE op[t].kind = "lookup" -> End(t, IF Found(t) THEN "found" ELSE "notfound", {})
         [] op[t].kind = "roster" -> End(t, "list", Cached(op[t].grp))
         [] op[t].kind = "friends" -> End(t, "list", cachedFriends)
    /\ UNCHANGED <<server, cache, ops, history>>

-----------------------------------------------------------------------------
(* The server: people come and go.  A join or leave of a group makes an    *)
(* event, which caching_logic turns into a refresh, except that it does    *)
(* nothing when it is the bot that leaves.                                 *)
MemberChange(g, p) ==
    /\ changes < MaxChanges
    /\ changes' = changes + 1
    /\ members' = [members EXCEPT ![g] =
                     IF p \in @ THEN @ \ {p} ELSE @ \cup {p}]
    /\ LET ignored == p = Me /\ Me \in members[g] IN
       /\ events' = IF ignored THEN events ELSE [events EXCEPT ![g] = @ + 1]
       /\ Mark(g, ignored)
    /\ steadyMembers' = [steadyMembers EXCEPT ![g] = @ \ {p}]
    /\ UNCHANGED <<friends, cache, op, ops, steadyFriends, loaded>>

FriendChange(p) ==
    /\ changes < MaxChanges /\ p # Me
    /\ changes' = changes + 1
    /\ friends' = IF p \in friends THEN friends \ {p} ELSE friends \cup {p}
    /\ steadyFriends' = steadyFriends \ {p}
    /\ UNCHANGED <<members, events, cache, op, ops, steadyMembers, loaded, blemished>>

-----------------------------------------------------------------------------
TaskStep(t) ==
    \/ CheckFriends(t) \/ CheckFriend(t) \/ CheckGroup(t)
    \/ FriendPage(t) \/ GroupPage(t) \/ PageFails(t)
    \/ ClearFriends(t) \/ FillFriends(t) \/ StoreGroup(t) \/ Resolve(t)

Next ==
    \/ \E t \in Tasks : Begin(t) \/ TaskStep(t)
    \/ \E g \in Groups, p \in People : MemberChange(g, p)
    \/ \E p \in People : FriendChange(p)

Spec == Init /\ [][Next]_vars

-----------------------------------------------------------------------------
(* Whoever has been in the group all along is found by a lookup in that    *)
(* group, in every mode, whatever refreshes run at the same time (uin2uid, *)
(* uid2uin).                                                               *)
SteadyMemberFound ==
    \A t \in Tasks :
        op[t].pc = "done" /\ op[t].kind = "lookup" /\ op[t].grp # NoGroup
          /\ op[t].who \in steadyMembers[op[t].grp]
        => op[t].result # "notfound"

(* The list of members lacks nobody who has been in the group all along    *)
(* (fetch_maybe_cached_group_members).                                     *)
RosterComplete ==
    \A t \in Tasks :
        op[t].pc = "done" /\ op[t].kind = "roster" /\ op[t].result = "list"
        => steadyMembers[op[t].grp] \subseteq op[t].acc

(* With a cache it does, although refreshes of the group fail or overlap.  *)
CachedRosterComplete == mode # "none" => RosterComplete

(* The refresh that follows every join and leave keeps the cached members  *)
(* equal to the server's: once no event is left to handle and no refresh   *)
(* runs, they are, unless refreshes of the group overlapped (an older      *)
(* answer is then stored last), one failed, or the bot left (caching_logic,*)
(* refresh_group_members_cache).                                           *)
FreshUnlessBlemished ==
    \A g \in Groups :
        /\ mode # "none" /\ events[g] = 0 /\ ~blemished[g]
        /\ \A t \in Tasks : ~Refreshing(t, g)
        /\ cachedMembers[g] # Absent
        => cachedMembers[g] = members[g]

(* After a complete refresh of the friends, a lookup misses somebody who   *)
(* has been a friend all along only in half mode and while a refresh is    *)
(* refilling the map it has cleared: in full mode the lookup maps hide the *)
(* gap (resolve_uin2uid_within_cache, refresh_friends_cache).              *)
LoadedFriendFound ==
    [][\A t \in Tasks :
          /\ loaded /\ mode # "none"
          /\ op[t].kind = "lookup" /\ op[t].grp = NoGroup /\ op[t].who \in steadyFriends
          /\ op[t].pc = "resolve" /\ op'[t].result = "notfound"
          => mode = "half" /\ \E u \in Tasks \ {t} : op[u].pc = "fill"]_vars

=============================================================================
