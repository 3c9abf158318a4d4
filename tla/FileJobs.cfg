CONSTANTS
    f = f  gpg = gpg  sig = sig  out = out
    d1 = d1  d2 = d2  k1 = k1  k2 = k2
    internal = internal  airlock = airlock  keys = keys
    None = None  Empty = Empty
    Locations = {internal, airlock}
    User = internal
    Folders = {keys}
    KeysDir = keys
    Places <- MCPlaces
    Parts = {f, gpg, sig, out}
    MaxParts = 2
    PgpExts = {gpg}  Sig = sig  Gpg = gpg  Out = out
    ExportPaths <- MCExportPaths
    Data = {d1, d2}
    TooBig = {d2}
    Small = d1
    Keys = {k1, k2}
    OpenKey = k1
    InitialFiles <- MCFiles
    Faults = {"io", "truncate", "crash"}
SPECIFICATION Spec
INVARIANTS TypeOK OnlyVerifiedPlaintext SuccessMeansWhole JobUsesNamedFile
PROPERTIES OnlyOutputChanges KeychainUntouched
