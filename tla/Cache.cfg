SPECIFICATION FairSpec
CONSTANTS
    Pools = {p1}
    Readers = {r1}
    Writers = {w1, w2}
    Miss = Miss
    MaxVersion = 3
    MaxLost = 1
INVARIANTS
    TypeOK
    StaleOnlyIfDamaged
PROPERTIES
    StaleGoesAway
