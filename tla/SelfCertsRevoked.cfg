CONSTANTS
    u1 = u1  u2 = u2  n1 = n1  None = None
    Ids = {u1, u2}
    Notes = {n1}
    Days = {0, 1, 2, 4}
    InitialKeys <- MCImportedKeys
    MaxTime = 3
    MaxSpan = 5
    MaxIds = 3
SPECIFICATION Spec
PROPERTY RevocationsStay
