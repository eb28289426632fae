SPECIFICATION Spec
CONSTANTS
    Requests = {r1, r2, r3}
    Calls = {c1}
    MaxCookie = 2
    Threads = 2
    CookieParam = 3
    None = None
CHECK_DEADLOCK FALSE
INVARIANTS
    AnswersOwnRequest
    RequestsInv
PROPERTY
    EveryoneIsAnswered
