CONSTANTS
    k1 = k1  k2 = k2  f1 = f1  f2 = f2  g1 = g1  p1 = p1  p2 = p2
    None = None  Absent = Absent  Torn = Torn
    Keys = {k1, k2}
    DerivedKeys = {k1}
    Files = {f1, f2, g1}
    FileOf <- MCFileOf
    Passes = {p1, p2}
    NoPass = p1
    MaxRev = 1
    ImportFiles <- MCImportFiles
    InitialDisks <- MCForeignDisks
    Faults = {}
SPECIFICATION Spec
PROPERTY DeletedKeyIsGone
