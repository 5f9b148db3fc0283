CONSTANTS
    Lsof = {p1, p2}
    DCstates = {2, 3}
    Names = {a, x}
    Pseudos = {x}
    a = a
    x = x
    i0 = i0
    i1 = i1
    Ids = {i0, i1}
    Numbers <- MCNumbers
    MinorZero = {i0}
    Sought = {i0, i2}
    None = None
    MaxChanges = 1
    MaxTime = 1
    Lookers = {p1}
    MaxLooks = 1
    MaxKills = 1
SPECIFICATION Spec
INVARIANTS TypeOK VerifiedNames NotMissed WritersApart NoPartialLeft
PROPERTY RereadOnce
CHECK_DEADLOCK FALSE
