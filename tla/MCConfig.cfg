SPECIFICATION ConfigSpec
CONSTANTS
    Objects = {rule}
    Bodies = {b1, b2, broken}
    Broken = {broken}
    Admins = {ann, bob}
    MaxVersion = 3
    MaxIds = 1
    Nil = Nil
SYMMETRY Symmetric
INVARIANTS
    HistoryIsSound
    ExactUnlessRaced
CHECK_DEADLOCK FALSE
