SPECIFICATION Spec
CONSTANTS
    r1 = r1  r2 = r2  r3 = r3
    Requests = {r1, r2, r3}
    Kinds <- Mixed
    Events = {"account", "window", "expiry", "access", "reset"}
    MaxLoginFailures = 1
    MaxFaults = 2
    NoToken = NoToken

INVARIANT IInv
INVARIANT LogoutRevokesSettled
INVARIANT ShutOut
INVARIANT LockHolds
INVARIANT RotatedOnce

CHECK_DEADLOCK FALSE
