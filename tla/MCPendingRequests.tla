------------------------- MODULE MCPendingRequests -------------------------
(* Instances of PendingRequests for TLC: a user coroutine u1, the          *)
(* replaying supervisor s, a handler's request h, the pingers p1 and p2.   *)
EXTENDS PendingRequests, TLC

CONSTANTS u1, s, h, p1, p2

UserReplayHandler == {u1, s, h}
UserAndHandler == {u1, h}
Replay == {s}
Handler == {h}
Nobody == {}
TwoPingers == {p1, p2}
============================================================================
