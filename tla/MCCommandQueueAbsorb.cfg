SPECIFICATION Spec
CONSTANTS
    r1 = r1
    a1 = a1
    w1 = w1
    w2 = w2
    c1 = c1
    c2 = c2
    c3 = c3
    None = None
    Runs = {r1}
    Attempts = {a1}
    RunOf <- MCRunOf
    Workers = {w1, w2}
    CommandIds = {c1, c2, c3}
    MaxDeliveries = 2
    Serves <- MCServes
PROPERTY DeadNeverAbsorbs
CHECK_DEADLOCK FALSE
