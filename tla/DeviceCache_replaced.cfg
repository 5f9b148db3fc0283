CONSTANTS
    Lsof = {p1, p2}
    DCstates = {1, 3}
    Names = {a, x}
    Pseudos = {x}
    a = a
    x = x
    i0 = i0
    i1 = i1
    Ids = {i0, i1}
    Numbers <- MCNumbers
    MinorZero = {i0}
    Sought = {i0, i2}
    None = None
    MaxChanges = 1
    MaxTime = 1
    Lookers = {}
    MaxLooks = 0
    MaxKills = 0
SPECIFICATION Spec
PROPERTY OpenFileIsNewer
CHECK_DEADLOCK FALSE
