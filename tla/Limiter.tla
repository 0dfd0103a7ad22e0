------------------------------ MODULE Limiter ------------------------------
(***************************************************************************)
(* What the rate limit of a service promises, without a clock: the first   *)
(* `limit` starts are free, and from then on a start is refused as long as *)
(* the last one is recent.  This is the limiter inside module Supervisor   *)
(* (its starts and recent), for one service; RateLimit implements it.      *)
(***************************************************************************)
EXTENDS Naturals

CONSTANT Limits   \* the values PropRateLimit is given; 0 means no limit

VARIABLES
    limit,    \* Service.rateLimit
    count,    \* the starts since the count was last cleared, up to limit
    recent    \* the limit is reached and the last start is not a period old

limiterVars == <<limit, count, recent>>

Refuses == limit > 0 /\ count = limit /\ recent

LimiterInit == limit \in Limits /\ count = 0 /\ recent = FALSE

Started ==
    /\ ~Refuses
    /\ count' = IF count < limit THEN count + 1 ELSE count
    /\ recent' = (limit > 0 /\ count' = limit)
    /\ UNCHANGED limit

PeriodOver == recent /\ recent' = FALSE /\ UNCHANGED <<limit, count>>

Forgotten == limit' \in Limits /\ count' = 0 /\ recent' = FALSE

LimiterNext == Started \/ PeriodOver \/ Forgotten

LimiterSpec == LimiterInit /\ [][LimiterNext]_limiterVars
=============================================================================
