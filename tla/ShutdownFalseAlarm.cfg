SPECIFICATION Spec
CONSTANTS
    n1 = n1 n2 = n2 t1 = t1 g1 = g1
    NULL = NULL
    Runtimes = {n1}
    RemoteStops = {t1}
    OwnerStops = {g1}
    Fallible = {}
    FenceMayFail = FALSE
    RemovalMayFail = FALSE
PROPERTIES
    SafeRemovalSucceeds
CHECK_DEADLOCK FALSE
