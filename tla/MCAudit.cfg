SPECIFICATION Spec
CONSTANTS
    t1 = t1
    t2 = t2
    t3 = t3
    ann = ann
    nobody = nobody
    Writers <- ThreeWriters
    Users <- OneUser
    Nobody = nobody
    MaxId = 4
SYMMETRY Symmetry
INVARIANTS
    ChainIsSound
    NoFalseAlarm
    CleanScanIsOneChain
