CONSTANTS
    u1 = u1  u2 = u2  n1 = n1  None = None
    Ids = {u1, u2}
    Notes = {n1}
    Days = {0, 4}
    InitialKeys <- MCKeys
    MaxTime = 3
    MaxSpan = 5
    MaxIds = 3
SPECIFICATION Spec
PROPERTIES UserIdsAgree AtMostOnePrimary EditsKeepEffective SetExpirationTakesEffect AddKeepsEffective ThirdPartySigsStay
