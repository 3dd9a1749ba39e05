SPECIFICATION Spec
CONSTANTS
    Users = {u1, u2}
    Keys = {k1, k2}
    Metakeys = metakeys
    Entries = {e1, e2}
    NoTmp = no_tmp
    Torn = torn
    MaxCalls = 3
    MaxKills = 1
    MaxDebris = 1
SYMMETRY DbSymmetry
INVARIANT TraitKept
INVARIANT MoveKeepsValue
INVARIANT WritesAreAtomic
CHECK_DEADLOCK FALSE
