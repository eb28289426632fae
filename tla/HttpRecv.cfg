SPECIFICATION Spec
CONSTANTS
    Requests = {r1, r2}
    Calls = {c1}
    MaxCookie = 2
    Threads = 2
    CookieParam = 1
    None = None
CHECK_DEADLOCK FALSE
PROPERTY
    EveryoneIsAnswered
