CONSTANTS
    p1 = p1  p2 = p2
    Passes = {p1, p2, e}
    Empty = e
    Plain = Plain  Stub = Stub  NoPart = NoPart
    Imports <- MCImports
SPECIFICATION PartsSpec
INVARIANT EncryptsToEncryptionSubkey
