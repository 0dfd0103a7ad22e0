----------------------------- MODULE LogProofs -----------------------------
(***************************************************************************)
(* Proofs about LogView and Log, for any number of goroutines, a ring of   *)
(* any size and lines of any number at a time.                             *)
(***************************************************************************)
EXTENDS LogView, FiniteSetTheorems, WellFoundedInduction, TLAPS

\* The latest records are where their numbers put them in the ring.
RingInv ==
    /\ numRecords = Len(written)
    /\ \A k \in 1 .. Len(written) :
           k > Len(written) - MaxRecords => records[(k - 1) % MaxRecords] = written[k]

\* A copy with the current id is the log, and no id is from the future.
Copy(v) == v.tag <= id /\ (v.tag = id => v.recs = Kept)

\* Every copy there is: on the screen, in the cache, in the goroutines, and in the
\* responses that are on their way.
CopyInv ==
    /\ Copy(logInfo) /\ Copy(cache)
    /\ \A r \in Reader : Copy(info[r]) /\ Copy(held[r])
    /\ \A r \in Reader : sent[r].modified => Copy(sent[r])

\* Who sleeps has seen the id, unless it was cleared away, and has time left.
SleepInv ==
    \A r \in Reader :
        pc[r] = "asleep" => ~expired[r] /\ (written # <<>> => id = old[r])

VInv == ViewTypeOK /\ RingInv /\ CopyInv /\ SleepInv /\ NoOtherLog

-----------------------------------------------------------------------------
(* Arithmetic of the ring.                                                 *)

\* Every number has a slot.
LEMMA SlotInRing ==
    ASSUME NEW n \in Int, NEW M \in Nat \ {0}
    PROVE  n % M \in 0 .. M - 1
  OBVIOUS

\* Two records in one slot are a whole round apart.
LEMMA RoundApart ==
    ASSUME NEW a \in Int, NEW b \in Int, NEW M \in Nat \ {0},
           a < b, a % M = b % M
    PROVE  b >= a + M
  <1> DEFINE p == a \div M
             q == b \div M
  <1>1. a = M * p + (a % M) /\ p \in Int
    OBVIOUS
  <1>2. b = M * q + (b % M) /\ q \in Int
    OBVIOUS
  <1>3. a % M \in Int /\ b % M \in Int BY SlotInRing
  <1> HIDE DEF p, q
  <1>4. b - a = M * q - M * p BY <1>1, <1>2, <1>3
  <1>5. b - a = M * (q - p) BY <1>1, <1>2, <1>4
  <1>6. CASE q - p <= 0 BY <1>1, <1>2, <1>5, <1>6
  <1>7. CASE q - p >= 1 BY <1>1, <1>2, <1>5, <1>7
  <1> QED BY <1>1, <1>2, <1>6, <1>7

\* What GetRecords returns is a sequence of records.
LEMMA KeptType ==
    ASSUME TypeOK
    PROVE  Kept \in Seq(LogRecord)
  <1> USE LogAssumption DEF TypeOK
  <1> DEFINE cnt == IF numRecords > MaxRecords THEN MaxRecords ELSE numRecords
  <1>1. cnt \in Nat
    OBVIOUS
  <1>2. ASSUME NEW j \in 1 .. cnt
        PROVE  records[(numRecords - cnt + j - 1) % MaxRecords] \in LogRecord
    <2>1. numRecords - cnt + j - 1 \in Int BY <1>1
    <2>2. (numRecords - cnt + j - 1) % MaxRecords \in 0 .. MaxRecords - 1
      BY <2>1, SlotInRing
    <2> QED BY <2>2
  <1>3. Kept = [j \in 1 .. cnt |-> records[(numRecords - cnt + j - 1) % MaxRecords]]
    BY DEF Kept
  <1> HIDE DEF cnt
  <1> QED BY <1>1, <1>2, <1>3

\* The slots that Write fills hold the last line that went there, the others what
\* they held (log.go:61-75).
LEMMA RingAfter ==
    ASSUME TypeOK, RingInv, NEW n \in Nat \ {0}, PutInRing(n),
           NEW k \in 1 .. numRecords + n, k > numRecords + n - MaxRecords
    PROVE  records'[(k - 1) % MaxRecords] =
             IF k > numRecords THEN Line(k - numRecords) ELSE written[k]
  <1> USE LogAssumption
  <1> DEFINE i == (k - 1) % MaxRecords
             here == {j \in 1 .. n : (numRecords + j - 1) % MaxRecords = i}
  <1>1. numRecords \in Nat /\ k \in Nat /\ MaxRecords \in Nat \ {0}
    BY DEF TypeOK
  <1>2. i \in 0 .. MaxRecords - 1 BY <1>1, SlotInRing
  <1>3. i \in DOMAIN records BY <1>2 DEF TypeOK
  <1>4. records'[i] = IF here = {} THEN records[i] ELSE Line(Max(here))
    BY <1>3 DEF PutInRing
  <1>5. ASSUME NEW j \in here PROVE numRecords + j <= k
    <2> SUFFICES ASSUME k - 1 < numRecords + j - 1 PROVE FALSE
      BY <1>1
    <2>1. numRecords + j - 1 \in Int /\ k - 1 \in Int BY <1>1
    <2>2. (k - 1) % MaxRecords = (numRecords + j - 1) % MaxRecords
      OBVIOUS
    <2>3. numRecords + j - 1 >= k - 1 + MaxRecords
      BY <1>1, <2>1, <2>2, RoundApart
    <2> QED BY <1>1, <2>3
  <1>6. CASE k > numRecords
    <2> DEFINE m == k - numRecords
    <2>1. m \in 1 .. n BY <1>1, <1>6
    <2>2. numRecords + m - 1 = k - 1 BY <1>1
    <2>3. m \in here BY <2>1, <2>2
    <2>4. \A j \in here : m >= j BY <1>1, <1>5
    <2>5. \A x \in here : (\A y \in here : x >= y) => x = m
      BY <2>1, <2>3, <2>4
    <2> HIDE DEF m, here
    <2>6. Max(here) = m BY <2>3, <2>4, <2>5 DEF Max
    <2>7. here # {} BY <2>3
    <2>8. records'[i] = Line(m) BY <1>4, <2>6, <2>7
    <2> QED BY <2>8, <1>6 DEF m
  <1>7. CASE k <= numRecords
    <2>1. here = {}
      <3> SUFFICES ASSUME NEW j \in here PROVE FALSE
        OBVIOUS
      <3> QED BY <1>1, <1>5, <1>7
    <2>2. records'[i] = records[i] BY <1>4, <2>1
    <2>3. k \in 1 .. Len(written) /\ k > Len(written) - MaxRecords
      BY <1>1, <1>7 DEF RingInv
    <2>4. records[i] = written[k] BY <2>3 DEF RingInv
    <2> QED BY <2>2, <2>4, <1>1, <1>7
  <1> QED BY <1>1, <1>6, <1>7

\* One of some lines is the last.
LEMMA LargestLine ==
    ASSUME NEW n \in Nat, NEW H \in SUBSET (1 .. n), H # {}
    PROVE  Max(H) \in H
  <1> DEFINE D == {n - j : j \in H}
  <1>0. \A j \in H : j \in Int /\ n - j \in Nat /\ n - j \in D
    OBVIOUS
  <1>1. D \subseteq Nat /\ D # {} BY <1>0
  <1>2. PICK d \in D : \A e \in D : ~(<<e, d>> \in OpToRel(<, Nat))
    BY <1>1, NatLessThanWellFounded, WFMin
  <1>3. \A e \in D : ~(e < d)
    BY <1>1, <1>2 DEF OpToRel
  <1>4. PICK m \in H : d = n - m
    OBVIOUS
  <1>5. ASSUME NEW y \in H PROVE m >= y
    <2>1. ~(n - y < n - m) BY <1>0, <1>3, <1>4
    <2> QED BY <1>0, <2>1
  <1> QED BY <1>4, <1>5 DEF Max

-----------------------------------------------------------------------------
(* The invariant, step by step.                                            *)

\* What a step does to the log: it grows, it is cleared, or it stays as it is.
Grows == \E n \in 1 .. MaxBatch : Write(n) /\ UNCHANGED viewVars
Cleared == Clear /\ UNCHANGED viewVars
Stays == UNCHANGED logVars

\* Only the logger changes the log.
LEMMA StepOfLog == [ViewNext]_allVars => Grows \/ Cleared \/ Stays
  BY DEF ViewNext, Logging, Stays, Grows, Cleared, Serving, Session, Look, Expire, getLog,
         Ask, Request, Answer, Fail, Hangup, Resume, Post, GoOn, Return, ShowLog,
         ShowOther, Draw, HourEnds, vars, allVars

\* Nobody has a copy when the program starts.
LEMMA InitVInv == ViewInit => VInv
  <1> SUFFICES ASSUME ViewInit PROVE VInv
    OBVIOUS
  <1> USE LogAssumption, ViewAssumption DEF ViewInit, Init
  <1>1. records \in [0 .. MaxRecords - 1 -> LogRecord] BY DEF Blank, LogRecord
  <1>2. <<>> \in Seq(LogRecord) /\ <<>> \in Seq(Reader) /\ Len(<<>>) = 0
    OBVIOUS
  <1>3. NoTag \in Tag BY DEF NoTag, Tag
  <1>4. NoInfo \in LogInfo BY <1>2, <1>3 DEF NoInfo, LogInfo
  <1>5. NoAnswer \in [tag : Tag, modified : BOOLEAN, recs : Seq(LogRecord)]
    BY <1>2, <1>3 DEF NoAnswer
  <1>6. TypeOK
    <2>1. pc \in [Reader -> {"away", "back", "sent"} \cup Calling]
      OBVIOUS
    <2>2. expired \in [Reader -> BOOLEAN] /\ old \in [Reader -> Tag] BY <1>3
    <2>3. sent \in [Reader -> [tag : Tag, modified : BOOLEAN, recs : Seq(LogRecord)]]
      BY <1>5
    <2>4. written \in Seq(LogRecord) BY <1>2
    <2>5. now \in 0 .. MaxTime /\ id \in 0 .. now /\ numRecords \in Nat
      OBVIOUS
    <2> QED BY <1>1, <2>1, <2>2, <2>3, <2>4, <2>5 DEF TypeOK
  <1>7. Cardinality(live) = 0 BY FS_EmptySet
  <1>8. ViewTypeOK BY <1>2, <1>4, <1>6, <1>7 DEF ViewTypeOK
  <1>9. CopyInv BY DEF CopyInv, Copy, NoInfo, NoAnswer, NoTag
  <1> QED BY <1>2, <1>8, <1>9 DEF VInv, RingInv, SleepInv, NoOtherLog

\* A Write puts records of the clock's time into the ring.
LEMMA WriteTypeOK == ASSUME TypeOK, NEW n \in 1 .. MaxBatch, Write(n) PROVE TypeOK'
  <1> USE LogAssumption
  <1>1. n \in Nat \ {0} BY LogAssumption
  <1>2. \A j \in 1 .. n : Line(j) \in LogRecord
    BY <1>1 DEF Write, TypeOK, Line, LogRecord
  <1>3. records' \in [0 .. MaxRecords - 1 -> LogRecord]
    <2>1. DOMAIN records = 0 .. MaxRecords - 1 BY DEF TypeOK
    <2> SUFFICES ASSUME NEW i \in 0 .. MaxRecords - 1 PROVE records'[i] \in LogRecord
      BY <2>1 DEF Write, PutInRing
    <2> DEFINE here == {j \in 1 .. n : (numRecords + j - 1) % MaxRecords = i}
    <2>2. records'[i] = IF here = {} THEN records[i] ELSE Line(Max(here))
      BY <2>1 DEF Write, PutInRing
    <2>3. CASE here = {} BY <2>2, <2>3 DEF TypeOK
    <2>4. CASE here # {}
      <3>1. here \in SUBSET (1 .. n)
        OBVIOUS
      <3> HIDE DEF here
      <3>2. Max(here) \in here BY <1>1, <2>4, <3>1, LargestLine
      <3> QED BY <1>2, <2>2, <2>4, <3>1, <3>2
    <2> QED BY <2>3, <2>4
  <1>4. written' \in Seq(LogRecord)
    <2>1. [j \in 1 .. n |-> Line(j)] \in Seq(LogRecord) BY <1>1, <1>2
    <2> QED BY <2>1 DEF Write, TypeOK
  <1>5. pc' \in [Reader -> {"away", "back", "sent"} \cup Calling]
    BY DEF Write, WakeReaders, Broadcast, TypeOK, Calling
  <1>6. now' \in 0 .. MaxTime /\ id' \in 0 .. now' /\ numRecords' \in Nat
    BY <1>1 DEF Write, Counted, TypeOK
  <1> QED BY <1>3, <1>4, <1>5, <1>6 DEF Write, callVars, TypeOK

\* The log and its requests stay what they are.
LEMMA NextTypeOK == VInv /\ [ViewNext]_allVars => TypeOK'
  <1> SUFFICES ASSUME VInv, [ViewNext]_allVars PROVE TypeOK'
    OBVIOUS
  <1> USE LogAssumption DEF Calling
  <1>0. TypeOK BY DEF VInv, ViewTypeOK
  <1>1. CASE Grows BY <1>0, <1>1, WriteTypeOK DEF Grows
  <1>2. CASE Cleared BY <1>0, <1>2 DEF Cleared, Clear, callVars, TypeOK
  <1>3. ASSUME NEW r \in Reader, Look(r) PROVE TypeOK'
    BY <1>0, <1>3 DEF Look, logVars, callVars, TypeOK
  <1>4. ASSUME NEW r \in Reader, Expire(r) PROVE TypeOK'
    BY <1>0, <1>4 DEF Expire, Broadcast, logVars, TypeOK
  <1>5. ASSUME NEW r \in Reader, getLog(r) PROVE TypeOK'
    <2> DEFINE m == id # old[r]
               a == [tag |-> id, modified |-> m, recs |-> IF m THEN Kept ELSE <<>>]
    <2>1. id \in Tag BY <1>0 DEF TypeOK, Tag, NoTag
    <2>2. a \in [tag : Tag, modified : BOOLEAN, recs : Seq(LogRecord)]
      BY <1>0, <2>1, KeptType
    <2>3. sent' = [sent EXCEPT ![r] = a] BY <1>5 DEF getLog
    <2> HIDE DEF a
    <2>4. sent' \in [Reader -> [tag : Tag, modified : BOOLEAN, recs : Seq(LogRecord)]]
      BY <1>0, <2>2, <2>3 DEF TypeOK
    <2> QED BY <1>0, <1>5, <2>4 DEF getLog, logVars, TypeOK
  <1>6. ASSUME NEW r \in Reader, NEW t \in Tag, NEW w \in BOOLEAN, Request(r, t, w)
        PROVE  TypeOK'
    BY <1>0, <1>6 DEF Request, logVars, TypeOK
  <1>7. ASSUME NEW r \in Reader, Ask(r) PROVE TypeOK'
    <2>1. cache.tag \in Tag /\ info[r].tag \in Tag
      BY DEF VInv, ViewTypeOK, LogInfo
    <2> QED BY <1>6, <1>7, <2>1 DEF Ask
  <1>8. ASSUME NEW r \in Reader, Hangup(r) PROVE TypeOK'
    <2>1. NoTag \in Tag BY DEF NoTag, Tag
    <2>2. NoAnswer \in [tag : Tag, modified : BOOLEAN, recs : Seq(LogRecord)]
      BY <2>1 DEF NoAnswer
    <2> QED BY <1>0, <1>8, <2>1, <2>2 DEF Hangup, logVars, TypeOK
  <1>9. CASE UNCHANGED vars
    BY <1>0, <1>9 DEF vars, logVars, callVars, TypeOK
  <1> QED BY <1>1, <1>2, <1>3, <1>4, <1>5, <1>7, <1>8, <1>9
          DEF ViewNext, Logging, Grows, Cleared, Serving, Session, Answer, Fail, Resume,
              Post, GoOn, Return, ShowLog, ShowOther, Draw, HourEnds, allVars

\* The screen, the cache and the goroutines stay what they are.
LEMMA NextViewTypeOK == VInv /\ [ViewNext]_allVars => ViewTypeOK'
  <1> SUFFICES ASSUME VInv, [ViewNext]_allVars PROVE ViewTypeOK'
    OBVIOUS
  <1> USE ViewAssumption
  <1>0. ViewTypeOK /\ TypeOK /\ TypeOK' BY NextTypeOK DEF VInv, ViewTypeOK
  <1>a. <<>> \in Seq(LogRecord) /\ NoTag \in Tag BY LogAssumption DEF NoTag, Tag
  <1>b. NoInfo \in LogInfo BY <1>a DEF NoInfo, LogInfo
  <1>1. CASE UNCHANGED viewVars
    BY <1>0, <1>1 DEF viewVars, screenVars, ViewTypeOK
  <1>2. ASSUME NEW r \in Reader, ShowLog(r) PROVE ViewTypeOK'
    <2>0. Cardinality({r}) = 1 BY FS_Singleton
    <2>1. live' \subseteq Reader /\ Cardinality(live') <= 1
      BY <1>2, <2>0 DEF ShowLog
    <2> QED BY <1>0, <1>b, <1>2, <2>1 DEF ShowLog, ViewTypeOK
  <1>3. CASE ShowOther
    <2>1. live' \subseteq Reader /\ Cardinality(live') <= 1
      BY <1>3, FS_EmptySet DEF ShowOther
    <2> QED BY <1>0, <1>b, <1>3, <2>1 DEF ShowOther, ViewTypeOK
  <1>4. CASE HourEnds
    <2>1. live' \subseteq Reader /\ Cardinality(live') <= 1
      BY <1>4, FS_EmptySet DEF HourEnds
    <2> QED BY <1>0, <1>4, <2>1 DEF HourEnds, screenVars, ViewTypeOK
  <1>5. CASE Draw
    <2>1. Head(queue) \in Reader /\ queue' \in Seq(Reader) /\ Len(queue') <= MaxQueue
      BY <1>0, <1>5 DEF Draw, ViewTypeOK
    <2>2. logInfo' \in LogInfo BY <1>0, <1>5, <2>1 DEF Draw, ViewTypeOK
    <2> QED BY <1>0, <1>5, <2>1, <2>2 DEF Draw, ViewTypeOK
  <1>6. ASSUME NEW r \in Reader, Ask(r) PROVE ViewTypeOK'
    BY <1>0, <1>6 DEF Ask, screenVars, ViewTypeOK
  <1>7. ASSUME NEW r \in Reader, Answer(r) PROVE ViewTypeOK'
    <2>1. [tag |-> sent[r].tag, recs |-> sent[r].recs] \in LogInfo
      BY <1>0 DEF TypeOK, LogInfo
    <2>2. held[r] \in LogInfo BY <1>0 DEF ViewTypeOK
    <2>3. info' \in [Reader -> LogInfo] /\ cache' \in LogInfo
      BY <1>0, <1>7, <2>1, <2>2 DEF Answer, KeepCached, ViewTypeOK
    <2>4. held' \in [Reader -> LogInfo] BY <1>0, <1>b, <1>7 DEF Answer, ViewTypeOK
    <2> QED BY <1>0, <1>7, <2>3, <2>4 DEF Answer, screenVars, ViewTypeOK
  <1>8. ASSUME NEW r \in Reader, Fail(r) PROVE ViewTypeOK'
    BY <1>0, <1>b, <1>8 DEF Fail, screenVars, ViewTypeOK
  <1>9. ASSUME NEW r \in Reader, Resume(r) \/ GoOn(r) \/ Return(r) PROVE ViewTypeOK'
    BY <1>0, <1>9 DEF Resume, AfterError, GoOn, Return, screenVars, ViewTypeOK
  <1>10. ASSUME NEW r \in Reader, Post(r) PROVE ViewTypeOK'
    <2>1. queue' \in Seq(Reader) /\ Len(queue') <= MaxQueue
      BY <1>0, <1>10 DEF Post, ViewTypeOK
    <2> QED BY <1>0, <1>10, <2>1 DEF Post, screenVars, ViewTypeOK
  <1> QED BY <1>1, <1>2, <1>3, <1>4, <1>5, <1>6, <1>7, <1>8, <1>9, <1>10
          DEF ViewNext, Session, allVars

\* Wherever Write puts its lines, the ring keeps the latest.
LEMMA NextRingInv == VInv /\ [ViewNext]_allVars => RingInv'
  <1> SUFFICES ASSUME VInv, [ViewNext]_allVars PROVE RingInv'
    OBVIOUS
  <1> USE LogAssumption
  <1>0. RingInv /\ TypeOK BY DEF VInv, ViewTypeOK
  <1>1. ASSUME NEW n \in 1 .. MaxBatch, Write(n) PROVE RingInv'
    <2> DEFINE lines == [j \in 1 .. n |-> Line(j)]
    <2>1. n \in Nat \ {0} /\ PutInRing(n) BY <1>1 DEF Write
    <2>2. \A j \in 1 .. n : Line(j) \in LogRecord
      BY <1>0, <1>1, <2>1 DEF Write, TypeOK, Line, LogRecord
    <2>3. lines \in Seq(LogRecord) /\ Len(lines) = n BY <2>1, <2>2
    <2>4. written' = written \o lines BY <1>1 DEF Write
    <2>5. written \in Seq(LogRecord) /\ numRecords = Len(written) /\ numRecords \in Nat
      BY <1>0 DEF TypeOK, RingInv
    <2>6. Len(written') = numRecords + n /\ numRecords' = numRecords + n
      BY <1>1, <2>3, <2>4, <2>5 DEF Write, Counted
    <2>7. ASSUME NEW k \in 1 .. numRecords + n
          PROVE  written'[k] = IF k > numRecords THEN Line(k - numRecords) ELSE written[k]
      <3> HIDE DEF lines
      <3>1. written'[k] = IF k <= numRecords THEN written[k] ELSE lines[k - numRecords]
        BY <2>1, <2>3, <2>4, <2>5
      <3>2. k > numRecords => k - numRecords \in 1 .. n BY <2>1, <2>5
      <3> QED BY <2>1, <2>5, <3>1, <3>2 DEF lines
    <2>8. ASSUME NEW k \in 1 .. numRecords + n, k > numRecords + n - MaxRecords
          PROVE  records'[(k - 1) % MaxRecords] = written'[k]
      <3>1. records'[(k - 1) % MaxRecords]
              = IF k > numRecords THEN Line(k - numRecords) ELSE written[k]
        BY <1>0, <2>1, <2>8, RingAfter, Zenon
      <3> QED BY <2>7, <3>1
    <2> HIDE DEF lines
    <2>9. ASSUME NEW k \in 1 .. Len(written'), k > Len(written') - MaxRecords
          PROVE  records'[(k - 1) % MaxRecords] = written'[k]
      <3>1. k \in 1 .. numRecords + n /\ k > numRecords + n - MaxRecords
        BY <2>1, <2>5, <2>6, <2>9
      <3> QED BY <2>8, <3>1, Zenon
    <2>10. numRecords' = Len(written') BY <2>6
    <2> QED BY <2>9, <2>10, Zenon DEF RingInv
  <1>2. CASE Cleared BY <1>2 DEF Cleared, Clear, RingInv
  <1>3. CASE Stays BY <1>0, <1>3 DEF Stays, logVars, RingInv
  <1> QED BY <1>1, <1>2, <1>3, StepOfLog DEF Grows

\* A new record and a Clear make the id larger than that of any copy; a new copy is
\* one of the log as it is, or a copy of a copy.
LEMMA NextCopyInv == VInv /\ [ViewNext]_allVars => CopyInv'
  <1> SUFFICES ASSUME VInv, [ViewNext]_allVars PROVE CopyInv'
    OBVIOUS
  <1> USE LogAssumption
  <1>0. CopyInv /\ TypeOK /\ ViewTypeOK BY DEF VInv, ViewTypeOK
  <1>1. CASE Grows \/ Cleared
    <2>1. id' > id /\ id' \in Int /\ id \in Int
      BY <1>0, <1>1 DEF Grows, Write, Cleared, Clear, TypeOK
    <2>2. UNCHANGED <<logInfo, cache, info, held, sent>>
      BY <1>1 DEF Grows, Write, Cleared, Clear, viewVars, screenVars, callVars
    <2>3. ASSUME NEW v, v.tag \in Int, Copy(v)
          PROVE  v.tag <= id' /\ v.tag # id'
      BY <2>1, <2>3 DEF Copy
    <2>4. /\ logInfo.tag \in Int /\ cache.tag \in Int
          /\ \A r \in Reader : info[r].tag \in Int /\ held[r].tag \in Int
                                 /\ sent[r].tag \in Int
      BY <1>0 DEF TypeOK, ViewTypeOK, LogInfo, Tag, NoTag
    <2> QED BY <1>0, <2>2, <2>3, <2>4 DEF CopyInv, Copy
  <1>2. CASE Stays
    <2>0. id' = id /\ Kept' = Kept BY <1>2 DEF Stays, logVars, Kept
    <2>1. SUFFICES /\ Copy(logInfo') /\ Copy(cache')
                   /\ \A q \in Reader : Copy(info'[q]) /\ Copy(held'[q])
                   /\ \A q \in Reader : sent'[q].modified => Copy(sent'[q])
      BY <2>0 DEF CopyInv, Copy
    <2>2. /\ Copy(logInfo) /\ Copy(cache)
          /\ \A q \in Reader : Copy(info[q]) /\ Copy(held[q])
          /\ \A q \in Reader : sent[q].modified => Copy(sent[q])
      BY <1>0 DEF CopyInv
    <2>3. Copy(NoInfo) /\ NoAnswer.modified = FALSE
      BY <1>0 DEF Copy, NoInfo, NoTag, NoAnswer, TypeOK
    <2>4. /\ DOMAIN info = Reader /\ DOMAIN held = Reader /\ DOMAIN sent = Reader
      BY <1>0 DEF TypeOK, ViewTypeOK
    <2>5. CASE UNCHANGED <<logInfo, cache, info, held, sent>> BY <2>2, <2>5
    <2> DEFINE Copies == /\ Copy(logInfo') /\ Copy(cache')
                         /\ \A q \in Reader : Copy(info'[q]) /\ Copy(held'[q])
                         /\ \A q \in Reader : sent'[q].modified => Copy(sent'[q])
    <2>6. ASSUME NEW r \in Reader, getLog(r), UNCHANGED viewVars PROVE Copies
      <3> DEFINE a == [tag |-> id, modified |-> id # old[r],
                       recs |-> IF id # old[r] THEN Kept ELSE <<>>]
      <3>1. a.modified => Copy(a)
        <4>1. a.tag = id /\ (a.modified => a.recs = Kept)
          OBVIOUS
        <4>2. id <= id BY <1>0 DEF TypeOK
        <4> HIDE DEF a
        <4> QED BY <4>1, <4>2 DEF Copy
      <3>2. sent' = [sent EXCEPT ![r] = a] BY <2>6 DEF getLog
      <3>3. UNCHANGED <<logInfo, cache, info, held>> BY <2>6 DEF viewVars, screenVars
      <3> HIDE DEF a
      <3> QED BY <2>2, <2>4, <3>1, <3>2, <3>3
    <2>7. ASSUME NEW r \in Reader, Answer(r) PROVE Copies
      <3> DEFINE v == [tag |-> sent[r].tag, recs |-> sent[r].recs]
      <3>1. UNCHANGED logInfo /\ held' = [held EXCEPT ![r] = NoInfo]
            /\ sent' = [sent EXCEPT ![r] = NoAnswer]
        BY <2>7 DEF Answer, screenVars, Hangup
      <3>2. CASE sent[r].modified
        <4>1. info' = [info EXCEPT ![r] = v] /\ cache' = v BY <2>7, <3>2 DEF Answer
        <4>2. Copy(v) BY <2>2, <3>2 DEF Copy
        <4> HIDE DEF v
        <4> QED BY <2>2, <2>3, <2>4, <3>1, <4>1, <4>2
      <3>3. CASE ~sent[r].modified
        <4>1. info' = [info EXCEPT ![r] = held[r]] /\ UNCHANGED cache
          BY <2>7, <3>3 DEF Answer, KeepCached
        <4> QED BY <2>2, <2>3, <2>4, <3>1, <4>1
      <3> QED BY <3>2, <3>3
    <2>8. ASSUME NEW r \in Reader, Ask(r) PROVE Copies
      <3>1. UNCHANGED <<logInfo, info, cache, sent>> /\ held' = [held EXCEPT ![r] = cache]
        BY <2>8 DEF Ask, Request, screenVars
      <3> QED BY <2>2, <2>4, <3>1
    <2>9. ASSUME NEW r \in Reader, Fail(r) PROVE Copies
      <3>1. /\ UNCHANGED logInfo /\ cache' = NoInfo
            /\ info' = [info EXCEPT ![r] = NoInfo] /\ held' = [held EXCEPT ![r] = NoInfo]
            /\ sent' = [sent EXCEPT ![r] = NoAnswer]
        BY <2>9 DEF Fail, Hangup, screenVars
      <3> QED BY <2>2, <2>3, <2>4, <3>1
    <2>10. CASE (\E r \in Reader : ShowLog(r)) \/ ShowOther
      <3>1. UNCHANGED <<info, held, cache, sent>> /\ logInfo' = NoInfo
        BY <2>10 DEF ShowLog, ShowOther, vars, callVars
      <3> QED BY <2>2, <2>3, <3>1
    <2>11. CASE Draw
      <3>1. Head(queue) \in Reader BY <1>0, <2>11 DEF Draw, ViewTypeOK
      <3>2. UNCHANGED <<info, held, cache, sent>> /\ logInfo' \in {logInfo, info[Head(queue)]}
        BY <2>11 DEF Draw, vars, callVars
      <3> QED BY <2>2, <3>1, <3>2
    <2>12. ASSUME NEW r \in Reader, (Look(r) \/ Expire(r)) /\ UNCHANGED viewVars PROVE Copies
      BY <2>5, <2>12 DEF Look, Expire, callVars, viewVars, screenVars
    <2>13. ASSUME NEW r \in Reader, Resume(r) \/ Post(r) \/ GoOn(r) \/ Return(r) PROVE Copies
      BY <2>5, <2>13 DEF Resume, Post, GoOn, Return, vars, callVars, screenVars
    <2>14. CASE HourEnds
      BY <2>5, <2>14 DEF HourEnds, vars, callVars, screenVars
    <2>15. CASE Logging /\ UNCHANGED viewVars
      BY <2>5, <2>15 DEF Logging, Clear, Write, callVars, viewVars, screenVars
    <2>16. CASE UNCHANGED allVars
      BY <2>5, <2>16 DEF allVars, vars, callVars, viewVars, screenVars
    <2> QED BY <2>6, <2>7, <2>8, <2>9, <2>10, <2>11, <2>12, <2>13, <2>14, <2>15, <2>16
            DEF ViewNext, Serving, Session
  <1> QED BY <1>1, <1>2, StepOfLog

\* Write wakes all who sleep, the timer the one whose time is over.
LEMMA NextSleepInv == VInv /\ [ViewNext]_allVars => SleepInv'
  <1> SUFFICES ASSUME VInv, [ViewNext]_allVars, NEW q \in Reader, pc'[q] = "asleep"
               PROVE  ~expired'[q] /\ (written' # <<>> => id' = old'[q])
    BY DEF SleepInv
  <1>0. SleepInv /\ TypeOK BY DEF VInv, ViewTypeOK
  <1>1. CASE Grows
    BY <1>0, <1>1 DEF Grows, Write, WakeReaders, Broadcast, TypeOK
  <1>2. CASE Cleared
    BY <1>0, <1>2 DEF Cleared, Clear, callVars, SleepInv
  <1>3. CASE Stays
    <2>1. UNCHANGED <<id, written>> BY <1>3 DEF Stays, logVars
    <2>2. CASE UNCHANGED <<pc, callVars>>
      BY <1>0, <2>1, <2>2 DEF callVars, SleepInv
    <2>3. ASSUME NEW r \in Reader, Look(r) PROVE ~expired'[q] /\ (written' # <<>> => id' = old'[q])
      BY <1>0, <2>1, <2>3 DEF Look, callVars, SleepInv, TypeOK
    <2>4. ASSUME NEW r \in Reader, Expire(r) PROVE ~expired'[q] /\ (written' # <<>> => id' = old'[q])
      BY <1>0, <2>1, <2>4 DEF Expire, Broadcast, SleepInv, TypeOK
    <2>5. ASSUME NEW r \in Reader, getLog(r) \/ Hangup(r)
          PROVE  ~expired'[q] /\ (written' # <<>> => id' = old'[q])
      BY <1>0, <2>1, <2>5 DEF getLog, Hangup, SleepInv, TypeOK
    <2>6. ASSUME NEW r \in Reader, NEW t, NEW w, Request(r, t, w)
          PROVE  ~expired'[q] /\ (written' # <<>> => id' = old'[q])
      BY <1>0, <2>1, <2>6 DEF Request, SleepInv, TypeOK
    <2>7. CASE Logging /\ UNCHANGED viewVars
      BY <1>1, <1>2, <2>7 DEF Logging, Grows, Cleared
    <2>8. CASE UNCHANGED vars BY <2>2, <2>8 DEF vars
    <2> QED BY <2>3, <2>4, <2>5, <2>6, <2>7, <2>8
            DEF ViewNext, Serving, Session, Ask, Answer, Fail, Resume, Post, GoOn, Return,
                ShowLog, ShowOther, Draw, HourEnds, allVars
  <1> QED BY <1>1, <1>2, <1>3, StepOfLog

\* Only a closure that finds its log on the screen draws it.
LEMMA NextNoOtherLog == VInv /\ [ViewNext]_allVars => NoOtherLog'
  BY DEF VInv, NoOtherLog, ViewNext, Session, Ask, Answer, Fail, Resume, Post, GoOn, Return,
         ShowLog, ShowOther, Draw, LogIsWanted, HourEnds, viewVars, screenVars, allVars

\* The invariant of all that follows.
THEOREM VInvHolds == ViewSpec => []VInv
  <1>1. VInv /\ [ViewNext]_allVars => VInv'
    BY NextViewTypeOK, NextRingInv, NextCopyInv, NextSleepInv, NextNoOtherLog DEF VInv
  <1> QED BY <1>1, InitVInv, PTL DEF ViewSpec

-----------------------------------------------------------------------------
(* The properties.                                                         *)

\* An Etag of the log stands for its records (log.go:88-92): whoever has a copy with
\* the current id has the log, through whatever caches and failures it went.
THEOREM EtagIsTrusted == ViewSpec => []EtagTellsAll
  <1>1. VInv => EtagTellsAll BY DEF VInv, CopyInv, Copy, EtagTellsAll
  <1> QED BY <1>1, VInvHolds, PTL

\* No log is drawn under another name (App.refreshLog looks at logName).
THEOREM NamesAreRight == ViewSpec => []NoOtherLog
  <1>1. VInv => NoOtherLog BY DEF VInv
  <1> QED BY <1>1, VInvHolds, PTL

\* A record wakes who waits for it (Log.Write broadcasts, Log.Watch looks with the
\* lock).
THEOREM RecordsAreHeard == ViewSpec => []NoRecordSleptThrough
  <1>1. VInv => NoRecordSleptThrough
    BY DEF VInv, SleepInv, NoRecordSleptThrough
  <1> QED BY <1>1, VInvHolds, PTL

\* The ring (Log.Write, Log.GetRecords) returns the latest records in their order,
\* for a ring of any size and Writes of any number of lines.
THEOREM LatestAreKept == ViewSpec => []KeepsTheLatest
  <1>1. VInv => KeepsTheLatest
    <2> SUFFICES ASSUME VInv PROVE KeepsTheLatest
      OBVIOUS
    <2> USE LogAssumption
    <2> DEFINE n == Len(written)
               cnt == IF numRecords > MaxRecords THEN MaxRecords ELSE numRecords
               m == IF n > MaxRecords THEN n - MaxRecords + 1 ELSE 1
    <2>1. written \in Seq(LogRecord) /\ numRecords = n /\ n \in Nat
      BY DEF VInv, ViewTypeOK, TypeOK, RingInv
    <2>2. cnt \in Nat /\ m = n - cnt + 1 /\ m \in Nat /\ cnt = n - m + 1 BY <2>1
    <2>3. Kept = [j \in 1 .. cnt |-> records[(numRecords - cnt + j - 1) % MaxRecords]]
      BY DEF Kept
    <2>4. SubSeq(written, m, n) = [j \in 1 .. cnt |-> written[m + j - 1]]
      <3> HIDE DEF n, cnt, m
      <3>1. SubSeq(written, m, n) = [j \in 1 .. (1 + n - m) |-> written[m + j - 1]]
        BY <2>1, <2>2
      <3>2. 1 + n - m = cnt BY <2>1, <2>2
      <3> QED BY <3>1, <3>2
    <2>5. ASSUME NEW j \in 1 .. cnt
          PROVE  records[(numRecords - cnt + j - 1) % MaxRecords] = written[m + j - 1]
      <3> DEFINE k == n - cnt + j
      <3>0. cnt <= n /\ cnt <= MaxRecords BY <2>1
      <3>1. k \in 1 .. n /\ k > n - MaxRecords
        <4> HIDE DEF n, cnt
        <4> QED BY <2>1, <2>2, <3>0
      <3>2. records[(k - 1) % MaxRecords] = written[k] BY <3>1 DEF VInv, RingInv
      <3>3. numRecords - cnt + j - 1 = k - 1 /\ m + j - 1 = k BY <2>1, <2>2
      <3> QED BY <3>2, <3>3
    <2> HIDE DEF n, cnt, m
    <2>6. Kept = SubSeq(written, m, n) BY <2>3, <2>4, <2>5
    <2> QED BY <2>6 DEF KeepsTheLatest, n, m
  <1> QED BY <1>1, VInvHolds, PTL
=============================================================================
