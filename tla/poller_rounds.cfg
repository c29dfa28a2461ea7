SPECIFICATION FairSpec
CONSTANTS
    k1 = k1
    k2 = k2
    k3 = k3
    u1 = u1
    u2 = u2
    Keys = {k1, k2, k3}
    Users = {u1, u2}
    NoUser = nouser
    Owner <- MCOwner
    Setups <- MCSetups
    MaxKeys = 2
    MaxChanges = 2
    MaxFaults = 1
INVARIANTS OwnAccount OncePerAccount
PROPERTIES FailureTakesNothing AccountShown
