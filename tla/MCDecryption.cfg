CONSTANTS
    None = None
    Undecodable = Undecodable
    Garbage = Garbage
    k1 = k1
    k2 = k2
    s1 = s1
    s2 = s2
    t1 = t1
    t2 = t2
    t3 = t3
    Cases <- MCCases

SPECIFICATION Spec

INVARIANTS
    VerifiedIsWritten
    RightKeyWins

\* A command ends.
CHECK_DEADLOCK FALSE
