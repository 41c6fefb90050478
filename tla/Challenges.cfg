SPECIFICATION Spec
CONSTANTS
    q1 = q1
    q2 = q2
    k1 = k1
    n1 = n1
    n2 = n2
    n3 = n3
    None = None
    Enrolment = Enrolment
    MaxCount = 1
    PerSeconds = 2
    MaxTime = 3
    Requests = {q1, q2}
    Logins = {k1}
    Nonces = {n1, n2, n3}
    MaxSign = 2
SYMMETRY Interchangeable
INVARIANTS
    OncePerStep
    AnsweredOnce
    WithinWindow
    CountsOnce
CHECK_DEADLOCK FALSE
