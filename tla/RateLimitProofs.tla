-------------------------- MODULE RateLimitProofs --------------------------
(***************************************************************************)
(* Proofs about RateLimit, for all limits and periods and a clock and a    *)
(* count of any size: the wait at the limit, the cool-down test that never *)
(* refuses, and that the ring of start times implements Limiter.           *)
(***************************************************************************)
EXTENDS RateLimit, TLAPS

\* What the ring says of the last start and of the one before it, whatever is
\* left in its other entries.
RingHolds ==
    /\ limit > 0 /\ starts > 0 => startTimes[(starts - 1) % limit] = history[starts]
    /\ limit > 1 /\ starts > 1 => startTimes[(starts - 2) % limit] = history[starts - 1]

\* The starts are counted and recorded in the order in which they happened.
Recorded ==
    /\ Len(history) = starts
    /\ \A i \in 1 .. Len(history) : history[i] <= now
    /\ starts > 1 => history[starts - 1] <= history[starts]

\* An attempt that was let through would still be.
StillAdmitted == admitted => ~(AtLimit /\ HeldBackBy(1))

RInv == TypeOK /\ Recorded /\ RingHolds /\ StillAdmitted

-----------------------------------------------------------------------------
(* Arithmetic of the ring.                                                 *)

\* A slot of the ring.
LEMMA SlotInRing ==
    ASSUME NEW n \in Int, NEW l \in Nat, l > 0
    PROVE  n % l \in 0 .. l - 1
  OBVIOUS

\* Two successive starts are in different slots, unless there is only one.
LEMMA SlotsDiffer ==
    ASSUME NEW n \in Int, NEW l \in Nat, l > 1
    PROVE  (n - 1) % l # n % l
  <1> SUFFICES ASSUME (n - 1) % l = n % l PROVE FALSE
    OBVIOUS
  <1> DEFINE p == n \div l
             q == (n - 1) \div l
  <1>1. n = l * p + (n % l) /\ p \in Int
    OBVIOUS
  <1>2. n - 1 = l * q + ((n - 1) % l) /\ q \in Int
    OBVIOUS
  <1>3. n % l \in Int BY SlotInRing
  <1> HIDE DEF p, q
  <1>4. l * p - l * q = 1 BY <1>1, <1>2, <1>3
  <1>5. l * (p - q) = 1 BY <1>1, <1>2, <1>4
  <1>6. CASE p - q <= 0 BY <1>1, <1>2, <1>5, <1>6
  <1>7. CASE p - q >= 1 BY <1>1, <1>2, <1>5, <1>7
  <1> QED BY <1>1, <1>2, <1>6, <1>7

-----------------------------------------------------------------------------
(* The invariant.                                                          *)

\* A service that has never been started has an empty ring.
LEMMA InitRInv == Init => RInv
  <1> SUFFICES ASSUME Init PROVE RInv
    OBVIOUS
  <1> USE RateLimitAssumption
  <1>1. limit \in Nat /\ period \in Nat BY DEF Init
  <1>2. Len(history) = 0 /\ history \in Seq(0 .. MaxTime) BY DEF Init
  <1>3. startTimes \in [0 .. (limit - 1) -> {Never} \cup (0 .. MaxTime)]
    BY DEF Init, Ring
  <1>4. now \in 0 .. MaxTime /\ starts \in Nat BY DEF Init
  <1>5. rateLog \in BOOLEAN /\ admitted \in BOOLEAN BY DEF Init
  <1>6. limit \in Limits /\ period \in Periods BY DEF Init
  <1>7. TypeOK BY <1>2, <1>3, <1>4, <1>5, <1>6 DEF TypeOK
  <1> QED BY <1>2, <1>7 DEF RInv, Recorded, RingHolds, StillAdmitted, Init

\* The record of a start (service.go:637-640) takes the slot after the last one's
\* and leaves the last one's alone, unless the ring has room for one only.
LEMMA RecordKeepsRInv ==
    ASSUME RInv, Record
    PROVE  RInv'
  <1> USE RateLimitAssumption
  <1>1. /\ limit \in Nat /\ period \in Nat /\ period > 0 /\ starts \in Nat
        /\ now \in 0 .. MaxTime
        /\ startTimes \in [0 .. (limit - 1) -> {Never} \cup (0 .. MaxTime)]
        /\ history \in Seq(0 .. MaxTime)
    BY DEF RInv, TypeOK
  <1>2. /\ starts' = starts + 1 /\ history' = Append(history, now)
        /\ now' = now /\ limit' = limit /\ admitted' = FALSE
        /\ limit > 0 => startTimes' = [startTimes EXCEPT ![starts % limit] = now]
        /\ ~(limit > 0) => startTimes' = startTimes
    BY DEF Record, Slot
  <1>3. Len(history) = starts BY DEF RInv, Recorded
  <1>4. /\ Len(history') = starts + 1
        /\ history'[starts + 1] = now
        /\ \A i \in 1 .. starts : history'[i] = history[i]
        /\ history' \in Seq(0 .. MaxTime)
    BY <1>1, <1>2, <1>3
  <1>5. TypeOK'
    <2>1. startTimes' \in [0 .. (limit - 1) -> {Never} \cup (0 .. MaxTime)]
      BY <1>1, <1>2
    <2>2. starts' \in Nat /\ now' \in 0 .. MaxTime BY <1>1, <1>2
    <2>3. /\ limit' \in Limits /\ period' \in Periods
          /\ rateLog' \in BOOLEAN /\ admitted' \in BOOLEAN
      BY DEF RInv, TypeOK, Record
    <2> QED BY <1>2, <1>4, <2>1, <2>2, <2>3 DEF TypeOK
  <1>6. Recorded'
    <2>1. \A i \in 1 .. starts : history'[i] <= now
      BY <1>3, <1>4 DEF RInv, Recorded
    <2>2. starts > 0 => history'[starts] <= history'[starts + 1]
      BY <1>1, <1>4, <2>1
    <2> QED BY <1>1, <1>2, <1>4, <2>1, <2>2 DEF Recorded
  <1>7. RingHolds'
    <2>1. limit > 0 => startTimes'[starts % limit] = now
      BY <1>1, <1>2, SlotInRing
    <2>2. starts' - 1 = starts /\ starts' - 2 = starts - 1
      BY <1>1, <1>2
    <2>3. ASSUME limit > 1, starts > 0
          PROVE  startTimes'[(starts - 1) % limit] = history[starts]
      <3>1. (starts - 1) % limit # starts % limit
        <4>1. starts \in Int /\ limit \in Nat /\ limit > 1 BY <1>1, <2>3
        <4> QED BY <4>1, SlotsDiffer, Zenon
      <3>2. (starts - 1) % limit \in 0 .. limit - 1 BY <1>1, <2>3, SlotInRing
      <3>3. startTimes'[(starts - 1) % limit] = startTimes[(starts - 1) % limit]
        BY <1>1, <1>2, <2>3, <3>1, <3>2
      <3> QED BY <1>1, <2>3, <3>3 DEF RInv, RingHolds
    <2> QED BY <1>1, <1>2, <1>4, <2>1, <2>2, <2>3 DEF RingHolds
  <1>8. StillAdmitted' BY <1>2 DEF StillAdmitted
  <1> QED BY <1>5, <1>6, <1>7, <1>8 DEF RInv

\* The clock, a test, a record and a reset keep the ring in order.
LEMMA NextRInv == RInv /\ [Next]_vars => RInv'
  <1> SUFFICES ASSUME RInv, [Next]_vars PROVE RInv'
    OBVIOUS
  <1> USE RateLimitAssumption DEF RInv
  <1>0. /\ limit \in Nat /\ period \in Nat /\ starts \in Nat /\ now \in Nat
        /\ history \in Seq(0 .. MaxTime) /\ Len(history) = starts
    BY DEF TypeOK, Recorded
  <1>1. CASE Tick
    <2>1. TypeOK' BY <1>0, <1>1 DEF Tick, TypeOK
    <2>2. \A i \in 1 .. Len(history) : history[i] <= now + 1
      BY <1>0 DEF Recorded
    <2>3. Recorded' BY <1>1, <2>2 DEF Tick, Recorded
    <2>4. RingHolds' BY <1>1 DEF Tick, RingHolds
    <2>5. StillAdmitted'
      <3> SUFFICES ASSUME admitted, AtLimit PROVE ~HeldBackBy(1)'
        BY <1>1 DEF Tick, StillAdmitted, AtLimit
      <3>1. startTimes[(starts - 1) % limit] \in Int
        BY <1>0, SlotInRing DEF TypeOK, AtLimit, Never
      <3> QED BY <1>0, <1>1, <3>1 DEF StillAdmitted, HeldBackBy, Tick
    <2> QED BY <2>1, <2>3, <2>4, <2>5
  <1>2. CASE Refuse
    BY <1>0, <1>2 DEF Refuse, TypeOK, Recorded, RingHolds, StillAdmitted
  <1>3. CASE Admit
    BY <1>0, <1>3 DEF Admit, TypeOK, Recorded, RingHolds, StillAdmitted, AtLimit,
                    HeldBackBy, tooQuickly, StillRunningHot
  <1>4. CASE Record
    BY <1>4, RecordKeepsRInv
  <1>5. CASE Forget
    BY <1>0, <1>5 DEF Forget, TypeOK, Recorded, RingHolds, StillAdmitted
  <1>6. ASSUME NEW n \in Limits, SetLimit(n) PROVE RInv'
    <2>1. n \in Nat OBVIOUS
    <2>2. TypeOK' BY <1>0, <1>6, <2>1 DEF SetLimit, TypeOK, Recounted, Ring, Never
    <2> QED BY <1>6, <2>2 DEF SetLimit, Recorded, RingHolds, StillAdmitted, Recounted
  <1>7. ASSUME NEW d \in Periods, SetPeriod(d) PROVE RInv'
    BY <1>0, <1>7 DEF SetPeriod, TypeOK, Recorded, RingHolds, StillAdmitted
  <1>8. CASE UNCHANGED vars
    BY <1>8 DEF vars, TypeOK, Recorded, RingHolds, StillAdmitted, AtLimit, HeldBackBy
  <1> QED BY <1>1, <1>2, <1>3, <1>4, <1>5, <1>6, <1>7, <1>8 DEF Next

\* The ring, the count and the ghost agree in every reachable state.
THEOREM RInvHolds == Spec => []RInv
  BY InitRInv, NextRInv, PTL DEF Spec

-----------------------------------------------------------------------------
(* The properties.                                                         *)

\* Nothing has been started.
LEMMA InitFullPeriodWait == Init => FullPeriodWait
  BY DEF Init, FullPeriodWait

\* Only a record adds to the history, and at the limit the slot before the one it
\* takes holds the last start, which the test has compared with the clock.
LEMMA NextFullPeriodWait == RInv /\ FullPeriodWait /\ [Next]_vars => FullPeriodWait'
  <1> SUFFICES ASSUME RInv, FullPeriodWait, [Next]_vars PROVE FullPeriodWait'
    OBVIOUS
  <1> USE RateLimitAssumption
  <1>0. /\ limit \in Nat /\ period \in Nat /\ starts \in Nat /\ now \in Nat
        /\ history \in Seq(0 .. MaxTime) /\ Len(history) = starts
    BY DEF RInv, TypeOK, Recorded
  <1>1. CASE Record
    <2>1. /\ history' = Append(history, now) /\ limit' = limit /\ period' = period
      BY <1>1 DEF Record
    <2>2. /\ Len(history') = starts + 1
          /\ history'[starts + 1] = now
          /\ \A i \in 1 .. starts : history'[i] = history[i]
      BY <1>0, <2>1
    <2>3. SUFFICES ASSUME limit > 0, NEW i \in 1 .. starts + 1, i > limit
                   PROVE  history'[i] - history'[i - 1] >= period
      BY <2>1, <2>2 DEF FullPeriodWait
    <2>4. CASE i = starts + 1
      <3>1. AtLimit BY <1>0, <2>3, <2>4 DEF AtLimit
      <3>2. ~HeldBackBy(1) BY <1>1, <3>1 DEF RInv, StillAdmitted, Record
      <3>3. startTimes[(starts - 1) % limit] = history[starts]
        BY <1>0, <2>3, <2>4 DEF RInv, RingHolds
      <3>4. history[starts] \in Nat BY <1>0, <2>3, <2>4
      <3>5. now >= history[starts] + period
        BY <1>0, <3>2, <3>3, <3>4 DEF HeldBackBy
      <3>6. history'[i] = now /\ history'[i - 1] = history[starts]
        BY <1>0, <2>2, <2>3, <2>4
      <3> QED BY <1>0, <3>4, <3>5, <3>6
    <2>5. CASE i # starts + 1
      <3>1. i \in 1 .. starts /\ i - 1 \in 1 .. starts BY <1>0, <2>3, <2>5
      <3>2. history[i] - history[i - 1] >= period
        BY <1>0, <2>3, <3>1 DEF FullPeriodWait
      <3> QED BY <2>2, <3>1, <3>2
    <2> QED BY <2>4, <2>5
  <1>2. CASE history' = <<>>
    BY <1>2 DEF FullPeriodWait
  <1>3. CASE UNCHANGED <<history, limit, period>>
    BY <1>3 DEF FullPeriodWait
  <1>4. Record \/ history' = <<>> \/ UNCHANGED <<history, limit, period>>
    BY DEF Next, Tick, Refuse, Admit, Forget, SetLimit, SetPeriod, vars
  <1> QED BY <1>1, <1>2, <1>3, <1>4

\* Once the limit is reached a whole period passes before every further start
\* (tooQuickly, startRecurse), for every limit and period and any changes of them.
THEOREM PeriodIsWaited == Spec => []FullPeriodWait
  BY RInvHolds, InitFullPeriodWait, NextFullPeriodWait, PTL DEF Spec

\* The slot that the second test reads is older than the last start.
LEMMA RInvCoolDown == RInv => CoolDownIsDead
  <1> SUFFICES ASSUME RInv, CoolingDown PROVE FALSE
    BY DEF CoolDownIsDead
  <1> USE RateLimitAssumption
  <1>1. /\ limit \in Nat /\ period \in Nat /\ starts \in Nat /\ now \in Nat
        /\ limit > 0 /\ starts >= limit
        /\ history \in Seq(0 .. MaxTime) /\ Len(history) = starts
    BY DEF RInv, TypeOK, Recorded, CoolingDown, AtLimit
  <1>2. /\ ~(now < startTimes[(starts - 1) % limit] + period)
        /\ now < startTimes[(starts - 2) % limit] + period
    BY DEF CoolingDown, HeldBackBy
  <1>3. CASE limit = 1
    <2>1. (starts - 1) % limit \in 0 .. 0 /\ (starts - 2) % limit \in 0 .. 0
      BY <1>1, <1>3, SlotInRing
    <2> QED BY <1>2, <2>1
  <1>4. CASE limit > 1
    <2>1. starts > 1 BY <1>1, <1>4
    <2>2. /\ startTimes[(starts - 1) % limit] = history[starts]
          /\ startTimes[(starts - 2) % limit] = history[starts - 1]
          /\ history[starts - 1] <= history[starts]
      BY <1>1, <1>4, <2>1 DEF RInv, RingHolds, Recorded
    <2>3. history[starts - 1] \in Nat /\ history[starts] \in Nat
      BY <1>1, <2>1
    <2> QED BY <1>1, <1>2, <2>2, <2>3
  <1> QED BY <1>1, <1>3, <1>4

\* The cool-down branch of tooQuickly (service.go:767-778) decides nothing: it
\* compares with an older start than the test before it.
THEOREM CoolDownDecidesNothing == Spec => []CoolDownIsDead
  BY RInvHolds, RInvCoolDown, PTL

-----------------------------------------------------------------------------
(* The refinement.                                                         *)

\* A service that was never started has a fresh limiter.
LEMMA InitImplements == Init => Abstract!LimiterInit
  <1> SUFFICES ASSUME Init PROVE Abstract!LimiterInit
    OBVIOUS
  <1>1. limit \in Nat /\ limit \in Limits /\ starts = 0
    BY RateLimitAssumption DEF Init
  <1>2. ~AtLimit BY <1>1 DEF AtLimit
  <1> QED BY <1>1, <1>2 DEF Abstract!LimiterInit

\* The clock lets a period end, a record is a start, what clears the count forgets;
\* a test alone changes nothing that Limiter knows of.
LEMMA StepImplements ==
    RInv /\ [Next]_vars => [Abstract!LimiterNext]_(Abstract!limiterVars)
  <1> SUFFICES ASSUME RInv, [Next]_vars
               PROVE  [Abstract!LimiterNext]_(Abstract!limiterVars)
    OBVIOUS
  <1> DEFINE count == IF starts < limit THEN starts ELSE limit
             recent == AtLimit /\ HeldBackBy(1)
  <1> USE RateLimitAssumption
  <1>0. /\ limit \in Nat /\ period \in Nat /\ period > 0 /\ starts \in Nat /\ now \in Nat
    BY DEF RInv, TypeOK
  <1>1. CASE Tick
    <2>1. count' = count /\ limit' = limit /\ AtLimit' = AtLimit
      BY <1>1 DEF Tick, AtLimit
    <2>2. recent' => recent
      <3> SUFFICES ASSUME AtLimit, HeldBackBy(1)' PROVE HeldBackBy(1)
        BY <2>1
      <3>1. startTimes[(starts - 1) % limit] \in Int
        BY <1>0, SlotInRing DEF RInv, TypeOK, AtLimit, Never
      <3> QED BY <1>0, <1>1, <3>1 DEF HeldBackBy, Tick
    <2>3. recent' = recent \/ (recent /\ recent' = FALSE)
      BY <2>2
    <2> QED BY <2>1, <2>3 DEF Abstract!LimiterNext, Abstract!PeriodOver, Abstract!limiterVars
  <1>2. CASE Record
    <2>1. /\ starts' = starts + 1 /\ limit' = limit /\ now' = now /\ period' = period
          /\ admitted
          /\ limit > 0 => startTimes' = [startTimes EXCEPT ![starts % limit] = now]
      BY <1>2 DEF Record, Slot
    <2>2. ~recent BY <2>1 DEF RInv, StillAdmitted
    <2>3. count' = IF count < limit THEN count + 1 ELSE count
      BY <1>0, <2>1
    <2>4. recent' = (limit > 0 /\ count' = limit)
      <3>1. AtLimit' <=> limit > 0 /\ count' = limit
        BY <1>0, <2>1 DEF AtLimit
      <3>2. limit > 0 => HeldBackBy(1)'
        <4> SUFFICES ASSUME limit > 0 PROVE HeldBackBy(1)'
          OBVIOUS
        <4>1. startTimes'[starts % limit] = now
          BY <1>0, <2>1, SlotInRing DEF RInv, TypeOK
        <4>2. starts' - 1 = starts BY <1>0, <2>1
        <4>3. now < startTimes'[(starts' - 1) % limit] + period
          BY <1>0, <4>1, <4>2
        <4> QED BY <2>1, <4>3 DEF HeldBackBy
      <3> QED BY <3>1, <3>2
    <2> QED
      BY <2>1, <2>2, <2>3, <2>4
      DEF Abstract!LimiterNext, Abstract!Started, Abstract!Refuses
  <1>3. ASSUME starts' = 0, limit' \in Limits
        PROVE  Abstract!LimiterNext
    <2>1. limit' \in Nat BY <1>3
    <2>2. ~AtLimit' BY <1>3, <2>1 DEF AtLimit
    <2>3. count' = 0 BY <1>3, <2>1
    <2> QED BY <1>3, <2>2, <2>3 DEF Abstract!LimiterNext, Abstract!Forgotten
  <1>4. CASE Forget \/ \E d \in Periods : SetPeriod(d)
    BY <1>3, <1>4 DEF Forget, SetPeriod, RInv, TypeOK
  <1>5. CASE \E n \in Limits : SetLimit(n)
    BY <1>3, <1>5 DEF SetLimit, Recounted
  <1>6. CASE Refuse \/ Admit \/ UNCHANGED vars
    <2>1. UNCHANGED <<now, limit, period, starts, startTimes>>
      BY <1>6 DEF Refuse, Admit, vars
    <2> QED BY <2>1 DEF Abstract!limiterVars, AtLimit, HeldBackBy
  <1> QED BY <1>1, <1>2, <1>4, <1>5, <1>6 DEF Next

\* The ring of start times and the clock do what Limiter promises, which is the
\* limiter inside Supervisor: a start at the limit is refused exactly while the
\* last one is recent.
THEOREM LimiterImplemented == Spec => ImplementsLimiter
  <1>1. Spec => []RInv BY RInvHolds
  <1> QED
    BY <1>1, InitImplements, StepImplements, PTL
    DEF Spec, ImplementsLimiter, Abstract!LimiterSpec
=============================================================================
