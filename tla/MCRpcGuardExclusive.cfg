\* The comment in InitFunc against the duplicate-request guard: three goroutines, two requests.
CONSTANTS
    p1 = p1
    p2 = p2
    p3 = p3
    k1 = k1
    k2 = k2
    NoKey = NoKey
    Procs <- MCProcs
    Keys <- MCKeys
SPECIFICATION GuardSpec
SYMMETRY GuardSymmetry
INVARIANT Exclusive
