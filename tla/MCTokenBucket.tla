---------------------------- MODULE MCTokenBucket ----------------------------
(* Four callers of a bucket of two tokens that is refilled one by one: one  *)
(* asks for more than there will ever be, two may be aborted together.      *)
EXTENDS TokenBucket, TLC

CONSTANTS small, big, huge, other, s1

MCCallers == {small, big, huge, other}
MCTokens == small :> 1 @@ big :> 2 @@ other :> 2 @@ huge :> 3
MCSignals == {s1}
MCSignal == small :> NoSignal @@ big :> s1 @@ other :> NoSignal @@ huge :> s1
=============================================================================
