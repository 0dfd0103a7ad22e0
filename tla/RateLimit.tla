----------------------------- MODULE RateLimit -----------------------------
(***************************************************************************)
(* The rate limit of one service with its clock and its ring of start      *)
(* times: Service.tooQuickly, and what startRecurse, Enable, Restart,      *)
(* Clear and setProp do with Service.starts and Service.startTimes         *)
(* (service.go).  An attempt to start reads the clock twice, when it is    *)
(* let through and when it records the start, and the clock may move in    *)
(* between; the manager's lock keeps everything else out.                  *)
(***************************************************************************)
EXTENDS Integers, Sequences

CONSTANTS
    Limits,    \* the values PropRateLimit is given
    Periods,   \* the values PropRatePeriod is given, in ticks
    MaxTime,   \* bound: the clock stops here
    MaxStarts  \* bound: starts counted between two resets

\* setProp takes negative limits as well.  They are left out: tooQuickly does not take
\* them for none, and panics on the ring that is not there (service.go:745-755).
ASSUME RateLimitAssumption ==
    /\ Limits \subseteq Nat
    /\ Periods \subseteq Nat \ {0}
    /\ MaxTime \in Nat /\ MaxStarts \in Nat

VARIABLES
    now,         \* time.Now()
    limit,       \* Service.rateLimit
    period,      \* Service.ratePeriod
    starts,      \* Service.starts
    startTimes,  \* Service.startTimes, a ring of `limit` entries
    rateLog,     \* Service.rateLog
    admitted,    \* startRecurse is between tooQuickly and the record
    history      \* ghost: when the service was started since starts = 0

vars == <<now, limit, period, starts, startTimes, rateLog, admitted, history>>

Never == -1000   \* the zero time.Time of a fresh ring

Ring(n) == [i \in 0 .. (n - 1) |-> Never]

TypeOK ==
    /\ now \in 0 .. MaxTime
    /\ limit \in Limits /\ period \in Periods
    /\ starts \in Nat
    /\ startTimes \in [0 .. (limit - 1) -> {Never} \cup (0 .. MaxTime)]
    /\ rateLog \in BOOLEAN /\ admitted \in BOOLEAN
    /\ history \in Seq(0 .. MaxTime)

Init ==
    /\ now = 0
    /\ limit \in Limits /\ period \in Periods
    /\ starts = 0
    /\ startTimes = Ring(limit)
    /\ rateLog = FALSE /\ admitted = FALSE
    /\ history = <<>>

Tick == now < MaxTime /\ now' = now + 1
        /\ UNCHANGED <<limit, period, starts, startTimes, rateLog, admitted, history>>

-----------------------------------------------------------------------------
(* Service.tooQuickly.                                                     *)

\* mutant: the oldest start instead of the k-th last
HeldBackByOldest(k) == now < startTimes[starts % limit] + period
\* k starts ago (1 is the last one) the period had not run out.
HeldBackBy(k) == now < startTimes[(starts - k) % limit] + period

AtLimit == limit # 0 /\ starts >= limit

\* The two tests: the last start, and, once a start has been refused, the one
\* before it.
StillRunningHot == AtLimit /\ HeldBackBy(1)
CoolingDown == AtLimit /\ ~HeldBackBy(1) /\ rateLog /\ HeldBackBy(2)

tooQuickly == StillRunningHot \/ CoolingDown

Refuse ==
    /\ ~admitted
    /\ tooQuickly
    /\ rateLog' = TRUE
    /\ UNCHANGED <<now, limit, period, starts, startTimes, admitted, history>>

Admit ==
    /\ ~admitted /\ starts < MaxStarts
    /\ ~tooQuickly
    /\ rateLog' = (rateLog /\ ~AtLimit)
    /\ admitted' = TRUE
    /\ UNCHANGED <<now, limit, period, starts, startTimes, history>>

SlotBehind == (starts - 1) % limit  \* mutant: the slot is one behind the count
Slot == starts % limit

\* startRecurse goes on: the start is recorded whatever comes of it.
Record ==
    /\ admitted
    /\ startTimes' = IF limit > 0 THEN [startTimes EXCEPT ![Slot] = now]
                     ELSE startTimes
    /\ starts' = starts + 1
    /\ admitted' = FALSE
    /\ history' = Append(history, now)
    /\ UNCHANGED <<now, limit, period, rateLog>>

\* Enable, Restart and Clear.
Forget ==
    /\ ~admitted
    /\ starts' = 0
    /\ history' = <<>>
    /\ UNCHANGED <<now, limit, period, startTimes, rateLog, admitted>>

NotRecounted == starts  \* mutant: the count survives the change of the limit
Recounted == 0

\* setProp(PropRateLimit) allocates a new ring.
SetLimit(n) ==
    /\ ~admitted
    /\ limit' = n
    /\ startTimes' = Ring(n)
    /\ starts' = Recounted
    /\ history' = <<>>
    /\ UNCHANGED <<now, period, rateLog, admitted>>

SetPeriod(d) ==
    /\ ~admitted
    /\ period' = d
    /\ starts' = 0
    /\ history' = <<>>
    /\ UNCHANGED <<now, limit, startTimes, rateLog, admitted>>

Next ==
    \/ Tick
    \/ Refuse \/ Admit \/ Record
    \/ Forget
    \/ \E n \in Limits : SetLimit(n)
    \/ \E d \in Periods : SetPeriod(d)

Spec == Init /\ [][Next]_vars

-----------------------------------------------------------------------------
(* Properties.                                                             *)

\* Once the limit is reached a whole period passes before every further start
\* (service.go:739-740: "we wait for a full interval count before we will
\* restart"), also when the clock moves during an attempt and when the limit or
\* the period was changed; so there are never more than "Max starts per period"
\* (properties.go:26) between two resets of the count.
FullPeriodWait ==
    limit > 0 =>
        \A i \in 1 .. Len(history) : i > limit => history[i] - history[i - 1] >= period

\* The second test of tooQuickly never refuses: an older start cannot be more
\* recent than the last one, whatever is left of an earlier ring or of a rateLog
\* that nobody cleared.
CoolDownIsDead == ~CoolingDown

\* The clockless limiter of module Supervisor is this one, seen from afar: a
\* start at the limit is refused exactly while the last one is recent.
Abstract == INSTANCE Limiter WITH
    count <- IF starts < limit THEN starts ELSE limit,
    recent <- AtLimit /\ HeldBackBy(1)
ImplementsLimiter == Abstract!LimiterSpec
=============================================================================
