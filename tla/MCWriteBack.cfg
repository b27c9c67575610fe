SPECIFICATION Spec
CONSTANTS
    b0 = b0
    b1 = b1
    Status2 = Status2
    Outside = Outside
    Reg = {Status2}
    Raw = {Outside}
    Volatile = {Status2}
    Bit = {b0, b1}
SYMMETRY BitSymmetry
INVARIANT CacheInv
PROPERTY ImplementsRegisterFile
