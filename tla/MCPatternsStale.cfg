SPECIFICATION MCSpec
CONSTANTS
    Uses = {"server"}
    x = x
    y = y
    c1 = c1
    c2 = c2
    d1 = d1
    s1 = s1
    s2 = s2
    Nobody = Nobody
    w1 = w1
    w2 = w2
CHECK_DEADLOCK FALSE
INVARIANT
    AnswersCurrent
