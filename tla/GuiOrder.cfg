SPECIFICATION Spec
CONSTANTS
    r1 = r1 r2 = r2 r3 = r3 r4 = r4 d1 = d1 k1 = k1 k2 = k2
    NULL = NULL
    Requests = {r1, r2, r3}
    Docs = {d1}
    Owners = {k1, k2}
    keysOf <- Around
    ownerOf <- NoOwners
    Probed = {r1, r3}
    Timed = {r1, r3}
    Expiring = {}
    Inline = {}
    Cancellable = {}
    Deletable = {}
    Shutdown = FALSE
    WakeMayFail = FALSE
PROPERTIES
    DeferredNotOvertaken
SYMMETRY SwapMutations
CHECK_DEADLOCK FALSE
