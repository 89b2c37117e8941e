----------------------------- MODULE MCPollLoop -----------------------------
(* Short waits for TLC: a second is 5 ticks, a pause 3 seconds, the longest Retry-After 6. *)
EXTENDS PollLoop
SecondTicks == 5
QuotaTicks == 15
RetryTicks == 30
BackoffTicks == 20
=============================================================================
