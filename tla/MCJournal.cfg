SPECIFICATION Spec
CONSTANTS
    Writers = {w1, w2}
    Syncer = syncer
    Ckpt = ckpt
    Inodes = {i1}
    Indirect = {b1}
    Owner <- MCOwner
    Map = m
    NULL = NULL
    CAP = 3
    BOUND = 2
    Loads <- MCLoads
SYMMETRY Symmetry
INVARIANTS
  Recoverable
  AckedOnDisk
