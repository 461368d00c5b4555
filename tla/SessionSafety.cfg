CONSTANTS
    alice = alice
    bob = bob
    t1 = t1
    t2 = t2
    t3 = t3
    p1 = p1
    p2 = p2
    Token <- Tokens
    OwnerOf <- Owner
    Page <- OnePage
    MaxReloads = 1
SPECIFICATION Spec
INVARIANT ShownUserOwnsToken
PROPERTIES  WaitsEnd RevokedSessionEnds
CHECK_DEADLOCK FALSE
