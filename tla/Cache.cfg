SPECIFICATION Spec
CONSTANTS
    me = me
    ann = ann
    bob = bob
    Me = me
    People = {me, ann, bob}
    Groups = {g}
    NoGroup = NoGroup
    Absent = Absent
    Modes = {"full", "half", "none"}
    Pages = 2
    PageOf <- PageOfPeople
    Tasks = {t1, t2}
    MaxOps = 3
    MaxChanges = 1
SYMMETRY TaskSymmetry
INVARIANTS TypeOK SteadyMemberFound CachedRosterComplete FreshUnlessBlemished
PROPERTY LoadedFriendFound
\* every task has made its operations
CHECK_DEADLOCK FALSE
