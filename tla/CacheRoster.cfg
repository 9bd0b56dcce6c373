SPECIFICATION Spec
CONSTANTS
    me = me
    ann = ann
    bob = bob
    Me = me
    People = {me, ann, bob}
    Groups = {g}
    NoGroup = NoGroup
    Absent = Absent
    Modes = {"none"}
    Pages = 2
    PageOf <- PageOfPeople
    Tasks = {t1}
    MaxOps = 1
    MaxChanges = 0
INVARIANT RosterComplete
\* every task has made its operations
CHECK_DEADLOCK FALSE
