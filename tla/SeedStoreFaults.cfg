CONSTANTS
    s1 = s1  s2 = s2  d1 = d1  d2 = d2
    Seeds = {s1, s2}  Devices = {d1, d2}  ThisDevice = d1
    Invalid = Invalid  Blank = Blank  Mixed = Mixed
    Garbage = Garbage  Absent = Absent  None = None
    InitialFiles <- MCFiles
    Faults = {"read", "write", "silent", "crash"}
SPECIFICATION Spec
INVARIANTS TypeOK ShownRootIsStored FingerprintOpens UsableRootIsOffered
PROPERTIES ShownRootIsKept DerivesFromShownRoot
