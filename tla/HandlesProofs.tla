--------------------------- MODULE HandlesProofs ---------------------------
(***************************************************************************)
(* Proofs about Handles and Watch, for any number of watchers and services *)
(* and serials of any size.                                                *)
(***************************************************************************)
EXTENDS Handles, TLAPS

\* Who is in the middle of watchSerial has the lock, and who bumps has it.
LockInv ==
    /\ \A w \in Watcher : pc[w] \in {"looking", "dozing"} => holder = w
    /\ \A b \in bumping : b.by = "writer" /\ holder = Writer

\* A watcher that found nothing new is among those that a bump wakes, and nothing
\* was stored, nor did its time end, since then.  Nobody sleeps between the
\* broadcast of a bump and the store.
SleepInv ==
    /\ \A w \in Watcher : pc[w] \in {"looking", "dozing", "asleep", "woken"} => w \in cvs
    /\ \A w \in Watcher : pc[w] \in {"dozing", "asleep"} =>
           value[src[w]] = old[w] /\ ~expired[w]
    /\ \A b \in bumping : b.done => \A w \in Watcher : pc[w] # "asleep"

\* There is at most one number on its way, and it is larger than all stored ones.
SerialInv ==
    /\ \A y \in Source : value[y] <= serial
    /\ \A b, c \in bumping : b = c
    /\ \A b \in bumping : IF b.done THEN b.rv = serial /\ \A y \in Source : value[y] < serial
                                    ELSE b.rv = serial + 1

\* The time of a call is not up while its timer runs.
TimerInv == \A w \in Watcher : expired[w] => timer[w] # "running"

HInv == TypeOK /\ managed \subseteq Service /\ LockInv /\ SleepInv /\ SerialInv /\ TimerInv

\* A step of Watch that HandlesNext takes, or the two bumps of a change of the list.
Watching ==
    \/ \E w \in Watcher :
         \/ \E x \in Source, o \in 0 .. MaxSerial, wait \in BOOLEAN : Watch(w, x, o, wait)
         \/ WatchUnmanaged(w) \/ WakeUnmanaged(w)
         \/ Enter(w) \/ Look(w) \/ Sleep(w) \/ Return(w) \/ Resume(w) \/ Expire(w)
    \/ Lock \/ Unlock
    \/ \E b \in bumping : bumpSerial(b) \/ Store(b)
    \/ \E x \in Source : Change(x)
    \/ \E x \in Service : Relist(x)
    \/ UNCHANGED vars

\* What comes and goes is for the watching a bump, two of them, or nothing.
LEMMA StepIsWatching == HInv /\ [HandlesNext]_allVars => Watching
  <1> SUFFICES ASSUME HInv, [HandlesNext]_allVars PROVE Watching
    OBVIOUS
  <1>0. managed \cup {List} \subseteq Source
    BY HandlesAssumption DEF HInv, Service
  <1>1. ASSUME NEW w \in Watcher, WatchManaged(w) PROVE Watching
    BY <1>0, <1>1 DEF WatchManaged, Watching
  <1>2. ASSUME NEW w \in Watcher,
               WatchUnmanaged(w) \/ WakeUnmanaged(w) \/ Enter(w) \/ Inside(w)
               \/ Resume(w) \/ Expire(w)
        PROVE  Watching
    BY <1>2 DEF Inside, Watching
  <1>3. CASE Lock \/ Writing
    BY <1>3 DEF Writing, Watching
  <1>4. ASSUME NEW x \in managed, Change(x) PROVE Watching
    BY <1>0, <1>4 DEF Watching
  <1>5. ASSUME NEW x \in Service, AddService(x) \/ DeleteService(x) PROVE Watching
    BY <1>5 DEF AddService, DeleteService, Watching
  <1>6. CASE ShutdownRemoves BY <1>6 DEF ShutdownRemoves, Watching
  <1>7. CASE UNCHANGED allVars BY <1>7 DEF allVars, Watching
  <1> QED BY <1>1, <1>2, <1>3, <1>4, <1>5, <1>6, <1>7 DEF HandlesNext

\* Nobody waits when the manager is new.
LEMMA InitHInv == HandlesInit => HInv
  <1> SUFFICES ASSUME HandlesInit PROVE HInv
    OBVIOUS
  <1>1. TypeOK BY WatchAssumption DEF HandlesInit, Init, TypeOK, Place
  <1> QED BY <1>1 DEF HandlesInit, Init, HInv, LockInv, SleepInv, SerialInv, TimerInv

\* Only services have a manager.
LEMMA NextManaged == HInv /\ [HandlesNext]_allVars => (managed \subseteq Service)'
  BY DEF HInv, HandlesNext, WatchManaged, WatchUnmanaged, WakeUnmanaged, AddService,
         DeleteService, Relist, ShutdownRemoves, handleVars, allVars, Service

\* Every step keeps the types.
LEMMA NextTypeOK == HInv /\ Watching => TypeOK'
  <1> SUFFICES ASSUME HInv, Watching PROVE TypeOK'
    OBVIOUS
  <1> USE WatchAssumption DEF TypeOK, Place, callVars, Goes
  <1>0. TypeOK BY DEF HInv
  <1>1. ASSUME NEW w \in Watcher, NEW x \in Source, NEW o \in 0 .. MaxSerial,
               NEW wait \in BOOLEAN, Watch(w, x, o, wait)
        PROVE  TypeOK'
    BY <1>0, <1>1 DEF Watch
  <1>2. ASSUME NEW w \in Watcher, WatchUnmanaged(w) PROVE TypeOK'
    BY <1>0, <1>2 DEF WatchUnmanaged, Service
  <1>3. ASSUME NEW w \in Watcher, WakeUnmanaged(w) PROVE TypeOK'
    BY <1>0, <1>3 DEF WakeUnmanaged, Forget
  <1>4. ASSUME NEW w \in Watcher, Enter(w) \/ Look(w) \/ Sleep(w) \/ Resume(w) PROVE TypeOK'
    BY <1>0, <1>4 DEF Enter, Joins, Look, Sleep, Resume
  <1>5. ASSUME NEW w \in Watcher, Return(w) PROVE TypeOK'
    BY <1>0, <1>5 DEF Return, Forget
  <1>6. ASSUME NEW w \in Watcher, Expire(w) PROVE TypeOK'
    BY <1>0, <1>6 DEF Expire, Alarm, Broadcast
  <1>7. CASE Lock \/ Unlock BY <1>0, <1>7 DEF Lock, Unlock
  <1>8. ASSUME NEW b \in bumping, bumpSerial(b) PROVE TypeOK'
    <2>1. b \in [by : {"writer", "check"}, src : Source, rv : 1 .. MaxSerial, done : BOOLEAN]
      BY <1>0
    <2>2. [b EXCEPT !.done = TRUE]
            \in [by : {"writer", "check"}, src : Source, rv : 1 .. MaxSerial, done : BOOLEAN]
      BY <2>1
    <2>3. bumping' \subseteq [by : {"writer", "check"}, src : Source,
                              rv : 1 .. MaxSerial, done : BOOLEAN]
      BY <1>0, <1>8, <2>2 DEF bumpSerial
    <2>4. serial' \in 0 .. MaxSerial BY <1>8, <2>1 DEF bumpSerial
    <2> HIDE DEF Place
    <2>5. pc' \in [Watcher -> Place]
      BY <1>0, <1>8 DEF bumpSerial, wakeUp, Broadcast, Place
    <2> QED BY <1>0, <1>8, <2>3, <2>4, <2>5 DEF bumpSerial
  <1>9. ASSUME NEW b \in bumping, Store(b) PROVE TypeOK'
    BY <1>0, <1>9 DEF Store
  <1>10. ASSUME NEW x \in Source, Change(x) PROVE TypeOK'
    <2>1. serial + 1 \in 1 .. MaxSerial BY <1>0, <1>10 DEF Change, StartBump
    <2>2. [by |-> "writer", src |-> x, rv |-> serial + 1, done |-> FALSE]
            \in [by : {"writer", "check"}, src : Source, rv : 1 .. MaxSerial, done : BOOLEAN]
      BY <2>1
    <2>3. bumping' \subseteq [by : {"writer", "check"}, src : Source,
                              rv : 1 .. MaxSerial, done : BOOLEAN]
      BY <1>0, <1>10, <2>2 DEF Change, StartBump, NextSerial
    <2> QED BY <1>0, <1>10, <2>3 DEF Change, StartBump
  <1>11. ASSUME NEW x \in Service, Relist(x) PROVE TypeOK'
    <2>1. serial + 1 \in 0 .. MaxSerial /\ serial + 2 \in 0 .. MaxSerial
      BY <1>0, <1>11 DEF Relist
    <2>2. value' \in [Source -> 0 .. MaxSerial]
      <3> DEFINE n == NextSerial(x) + 1
      <3>1. NextSerial(List) \in 0 .. MaxSerial /\ n \in 0 .. MaxSerial
        BY <1>0, <2>1 DEF NextSerial
      <3>2. value' = [value EXCEPT ![List] = NextSerial(List), ![x] = n]
        BY <1>11 DEF Relist
      <3>3. value \in [Source -> 0 .. MaxSerial] BY <1>0
      <3> HIDE DEF n, TypeOK
      <3> QED BY <3>1, <3>2, <3>3
    <2> HIDE DEF Place
    <2>3. pc' \in [Watcher -> Place]
      BY <1>0, <1>11 DEF Relist, wakeUp, Broadcast, Place
    <2> QED BY <1>0, <1>11, <2>1, <2>2, <2>3 DEF Relist
  <1>12. CASE UNCHANGED vars BY <1>0, <1>12 DEF vars
  <1> QED
    BY <1>1, <1>2, <1>3, <1>4, <1>5, <1>6, <1>7, <1>8, <1>9, <1>10, <1>11, <1>12
    DEF Watching

\* The lock is taken when it is free and given up by who has it.
LEMMA NextLockInv == HInv /\ Watching => LockInv'
  <1> SUFFICES ASSUME HInv, Watching PROVE LockInv'
    OBVIOUS
  <1> USE WatchAssumption DEF LockInv, callVars, Goes
  <1>0. TypeOK /\ LockInv BY DEF HInv
  <1>1. ASSUME NEW w \in Watcher, NEW x \in Source, NEW o \in 0 .. MaxSerial,
               NEW wait \in BOOLEAN, Watch(w, x, o, wait)
        PROVE  LockInv'
    BY <1>0, <1>1 DEF Watch, TypeOK
  <1>2. ASSUME NEW w \in Watcher, WatchUnmanaged(w) \/ WakeUnmanaged(w) PROVE LockInv'
    BY <1>0, <1>2 DEF WatchUnmanaged, WakeUnmanaged, Forget, TypeOK
  <1>3. ASSUME NEW w \in Watcher, Enter(w) \/ Resume(w) PROVE LockInv'
    BY <1>0, <1>3 DEF Enter, Resume, TypeOK
  <1>4. ASSUME NEW w \in Watcher, Look(w) PROVE LockInv'
    BY <1>0, <1>4 DEF Look, TypeOK
  <1>5. ASSUME NEW w \in Watcher, Sleep(w) \/ Return(w) PROVE LockInv'
    <2>1. /\ pc[w] \in {"looking", "dozing"} /\ bumping' = bumping
          /\ \A v \in Watcher : v # w => pc'[v] = pc[v]
          /\ pc'[w] \in {"asleep", "away"}
      BY <1>0, <1>5 DEF Sleep, Return, Forget, TypeOK
    <2>2. holder = w BY <1>0, <2>1
    <2> QED BY <1>0, <2>1, <2>2
  <1>6. ASSUME NEW w \in Watcher, Expire(w) PROVE LockInv'
    BY <1>0, <1>6 DEF Expire, Alarm, Broadcast, TypeOK
  <1>7. CASE Lock \/ Unlock
    BY <1>0, <1>7 DEF Lock, Unlock, Bumping
  <1>8. ASSUME NEW b \in bumping, bumpSerial(b) PROVE LockInv'
    <2>1. [b EXCEPT !.done = TRUE].by = b.by BY <1>0 DEF TypeOK
    <2> QED BY <1>0, <1>8, <2>1 DEF bumpSerial, wakeUp, Broadcast, TypeOK
  <1>9. ASSUME NEW b \in bumping, Store(b) PROVE LockInv'
    BY <1>0, <1>9 DEF Store
  <1>10. ASSUME NEW x \in Source, Change(x) PROVE LockInv'
    BY <1>0, <1>10 DEF Change, StartBump
  <1>11. ASSUME NEW x \in Service, Relist(x) PROVE LockInv'
    BY <1>0, <1>11 DEF Relist, wakeUp, Broadcast, TypeOK
  <1>12. CASE UNCHANGED vars BY <1>0, <1>12 DEF vars
  <1> QED
    BY <1>1, <1>2, <1>3, <1>4, <1>5, <1>6, <1>7, <1>8, <1>9, <1>10, <1>11, <1>12
    DEF Watching

\* Broadcast wakes whoever sleeps, and nobody sleeps outside cvs.
LEMMA WakeUpWakesAll ==
    ASSUME HInv, wakeUp
    PROVE  \A w \in Watcher :
               /\ pc'[w] # "asleep"
               /\ pc'[w] = pc[w] \/ (pc[w] = "asleep" /\ pc'[w] = "woken")
  BY DEF HInv, SleepInv, wakeUp, Broadcast

\* A watcher sleeps only after a look with the lock, and is woken by whatever ends that.
LEMMA NextSleepInv == HInv /\ Watching => SleepInv'
  <1> SUFFICES ASSUME HInv, Watching PROVE SleepInv'
    OBVIOUS
  <1> USE WatchAssumption DEF SleepInv, callVars, Goes
  <1>0. TypeOK /\ LockInv /\ SleepInv BY DEF HInv
  <1>1. ASSUME NEW w \in Watcher, NEW x \in Source, NEW o \in 0 .. MaxSerial,
               NEW wait \in BOOLEAN, Watch(w, x, o, wait)
        PROVE  SleepInv'
    BY <1>0, <1>1 DEF Watch, TypeOK
  <1>2. ASSUME NEW w \in Watcher, WatchUnmanaged(w) PROVE SleepInv'
    BY <1>0, <1>2 DEF WatchUnmanaged, TypeOK
  <1>3. ASSUME NEW w \in Watcher, WakeUnmanaged(w) PROVE SleepInv'
    BY <1>0, <1>3 DEF WakeUnmanaged, Forget, TypeOK
  <1>4. ASSUME NEW w \in Watcher, Enter(w) PROVE SleepInv'
    BY <1>0, <1>4 DEF Enter, Joins, TypeOK
  <1>5. ASSUME NEW w \in Watcher, Look(w) PROVE SleepInv'
    BY <1>0, <1>5 DEF Look, Over, TypeOK
  <1>6. ASSUME NEW w \in Watcher, Sleep(w) PROVE SleepInv'
    <2>1. holder = w /\ bumping = {} BY <1>0, <1>6 DEF Sleep, LockInv
    <2> QED BY <1>0, <1>6, <2>1 DEF Sleep, TypeOK
  <1>7. ASSUME NEW w \in Watcher, Resume(w) PROVE SleepInv'
    BY <1>0, <1>7 DEF Resume, TypeOK
  <1>8. ASSUME NEW w \in Watcher, Return(w) PROVE SleepInv'
    BY <1>0, <1>8 DEF Return, Forget, TypeOK
  <1>9. ASSUME NEW w \in Watcher, Expire(w) PROVE SleepInv'
    <2>1. \A v \in Watcher : pc[v] # "dozing" BY <1>0, <1>9 DEF Expire, LockInv
    <2> QED BY <1>0, <1>9, <2>1 DEF Expire, Alarm, Broadcast, TypeOK
  <1>10. CASE Lock \/ Unlock BY <1>0, <1>10 DEF Lock, Unlock
  <1>11. ASSUME NEW b \in bumping, bumpSerial(b) PROVE SleepInv'
    <2>1. \A w \in Watcher :
              /\ pc'[w] # "asleep"
              /\ pc'[w] = pc[w] \/ (pc[w] = "asleep" /\ pc'[w] = "woken")
      BY <1>11, WakeUpWakesAll DEF bumpSerial
    <2>2. UNCHANGED <<value, cvs, src, old, expired>> BY <1>11 DEF bumpSerial
    <2> QED BY <1>0, <2>1, <2>2
  <1>12. ASSUME NEW b \in bumping, Store(b) PROVE SleepInv'
    <2>1. \A w \in Watcher : pc[w] \notin {"dozing", "asleep"}
      BY <1>0, <1>12 DEF Store, LockInv
    <2> QED BY <1>0, <1>12, <2>1 DEF Store
  <1>13. ASSUME NEW x \in Source, Change(x) PROVE SleepInv'
    BY <1>0, <1>13 DEF Change, StartBump
  <1>14. ASSUME NEW x \in Service, Relist(x) PROVE SleepInv'
    <2>1. \A w \in Watcher :
              /\ pc'[w] # "asleep"
              /\ pc'[w] = pc[w] \/ (pc[w] = "asleep" /\ pc'[w] = "woken")
      BY <1>14, WakeUpWakesAll DEF Relist
    <2>2. \A w \in Watcher : pc[w] # "dozing" BY <1>0, <1>14 DEF Relist, LockInv
    <2>3. UNCHANGED <<bumping, cvs, src, old, expired>> BY <1>14 DEF Relist
    <2> QED BY <1>0, <2>1, <2>2, <2>3
  <1>15. CASE UNCHANGED vars BY <1>0, <1>15 DEF vars
  <1> QED
    BY <1>1, <1>2, <1>3, <1>4, <1>5, <1>6, <1>7, <1>8, <1>9, <1>10, <1>11, <1>12,
       <1>13, <1>14, <1>15
    DEF Watching

\* What a step does to the serials: a number is taken, given to the manager, stored,
\* two of them are at once, or nothing happens.
LEMMA NextSerialInv == HInv /\ Watching => SerialInv'
  <1> SUFFICES ASSUME HInv, Watching PROVE SerialInv'
    OBVIOUS
  <1> USE WatchAssumption DEF SerialInv
  <1>0. TypeOK /\ LockInv /\ SerialInv BY DEF HInv
  <1>1. CASE UNCHANGED <<serial, value, bumping>> BY <1>0, <1>1
  <1>2. ASSUME NEW b \in bumping, bumpSerial(b) PROVE SerialInv'
    <2>1. /\ serial' = b.rv /\ b.rv = serial + 1 /\ value' = value
          /\ bumping' = {[b EXCEPT !.done = TRUE]}
      BY <1>0, <1>2 DEF bumpSerial
    <2>2. [b EXCEPT !.done = TRUE].rv = b.rv /\ [b EXCEPT !.done = TRUE].done
      BY <1>0 DEF TypeOK
    <2>3. serial \in Nat /\ \A y \in Source : value[y] \in Nat /\ value[y] <= serial
      BY <1>0 DEF TypeOK
    <2> QED BY <2>1, <2>2, <2>3
  <1>3. ASSUME NEW b \in bumping, Store(b) PROVE SerialInv'
    <2>1. /\ bumping' = {} /\ serial' = serial /\ b.rv = serial
          /\ value' = [value EXCEPT ![b.src] = serial]
      BY <1>0, <1>3 DEF Store
    <2>2. serial \in Nat /\ value \in [Source -> 0 .. MaxSerial] BY <1>0 DEF TypeOK
    <2>3. \A y \in Source : value'[y] <= serial BY <1>0, <2>1, <2>2
    <2> QED BY <2>1, <2>3
  <1>4. ASSUME NEW x \in Source, Change(x) PROVE SerialInv'
    <2> DEFINE n == [by |-> "writer", src |-> x, rv |-> serial + 1, done |-> FALSE]
    <2>1. bumping = {} BY <1>0, <1>4 DEF Change, StartBump, Bumping, LockInv
    <2>2. bumping' = {n} /\ serial' = serial /\ value' = value
      BY <1>4, <2>1 DEF Change, StartBump, NextSerial
    <2>3. n.rv = serial + 1 /\ n.done = FALSE OBVIOUS
    <2> HIDE DEF n
    <2> QED BY <1>0, <2>2, <2>3
  <1>5. ASSUME NEW x \in Service, Relist(x) PROVE SerialInv'
    <2>1. bumping' = {} BY <1>0, <1>5 DEF Relist, Bumping, LockInv
    <2>2. serial \in Nat /\ value \in [Source -> 0 .. MaxSerial] BY <1>0 DEF TypeOK
    <2>3. serial' = serial + 2 BY <1>5 DEF Relist
    <2>4. \A y \in Source : value'[y] \in {value[y], serial + 1, serial + 2}
      BY <1>5, <2>2 DEF Relist, NextSerial
    <2>5. \A y \in Source : value[y] \in Nat /\ value[y] <= serial
      BY <1>0, <2>2
    <2>6. \A y \in Source : value'[y] <= serial + 2 BY <2>2, <2>4, <2>5
    <2> QED BY <2>1, <2>3, <2>6
  <1> QED
    BY <1>1, <1>2, <1>3, <1>4, <1>5
    DEF Watching, Watch, WatchUnmanaged, WakeUnmanaged, Enter, Look, Sleep, Return,
        Resume, Expire, Lock, Unlock, vars

\* A timer that starts finds `expired` clear, and sets it when it fires.
LEMMA NextTimerInv == HInv /\ Watching => TimerInv'
  <1> SUFFICES ASSUME HInv, Watching PROVE TimerInv'
    OBVIOUS
  <1> USE DEF TimerInv
  <1>0. /\ expired \in [Watcher -> BOOLEAN]
        /\ timer \in [Watcher -> {"none", "running", "fired"}]
        /\ TimerInv
    BY DEF HInv, TypeOK
  <1>1. CASE UNCHANGED <<expired, timer>> BY <1>0, <1>1
  <1>2. ASSUME NEW w \in Watcher, NEW x \in Source, NEW o \in 0 .. MaxSerial,
               NEW wait \in BOOLEAN, Watch(w, x, o, wait)
        PROVE  TimerInv'
    BY <1>0, <1>2 DEF Watch
  <1>3. ASSUME NEW w \in Watcher, WakeUnmanaged(w) \/ Return(w) PROVE TimerInv'
    BY <1>0, <1>3 DEF WakeUnmanaged, Return, Forget
  <1>4. ASSUME NEW w \in Watcher, Expire(w) PROVE TimerInv'
    BY <1>0, <1>4 DEF Expire
  <1> QED
    BY <1>1, <1>2, <1>3, <1>4
    DEF Watching, WatchUnmanaged, Enter, Look, Sleep, Resume, Lock, Unlock, bumpSerial,
        Store, Change, StartBump, Relist, vars, callVars

\* The invariant of all that follows, whoever comes and goes.
THEOREM HInvHolds == HandlesSpec => []HInv
  <1>1. HInv /\ [HandlesNext]_allVars => HInv'
    BY StepIsWatching, NextManaged, NextTypeOK, NextLockInv, NextSleepInv, NextSerialInv,
       NextTimerInv
    DEF HInv
  <1> QED BY <1>1, InitHInv, PTL DEF HandlesSpec

-----------------------------------------------------------------------------
\* Nobody sleeps through a new serial or the end of his time (watchSerial,
\* bumpSerial), whatever services are added and removed meanwhile.
THEOREM NewsIsHeard == HandlesSpec => []NoNewsSleptThrough
  <1>1. HInv => NoNewsSleptThrough
    BY DEF HInv, SleepInv, NoNewsSleptThrough
  <1> QED BY <1>1, HInvHolds, PTL

\* A number that is stored is larger than all that are (bumpSerial and its callers,
\* AddService and DeleteService): no Etag stands for two states.
THEOREM NumbersAreNew == HandlesSpec => NumbersAreFresh
  <1>1. ASSUME HInv, Watching, NEW x \in Source, value'[x] # value[x], NEW y \in Source
        PROVE  value'[x] > value[y]
    <2>0. /\ serial \in Nat /\ value \in [Source -> 0 .. MaxSerial]
          /\ value[y] \in Nat /\ value[y] <= serial
      BY <1>1, WatchAssumption DEF HInv, TypeOK, SerialInv
    <2>1. ASSUME NEW b \in bumping, Store(b) PROVE value'[x] > value[y]
      <3>1. b.rv = serial /\ value[y] < serial
        BY <1>1, <2>1 DEF HInv, SerialInv, Store
      <3>2. value'[x] = serial BY <1>1, <2>0, <2>1, <3>1 DEF Store
      <3> QED BY <3>1, <3>2
    <2>2. ASSUME NEW z \in Service, Relist(z) PROVE value'[x] > value[y]
      <3>1. value'[x] \in {serial + 1, serial + 2}
        BY <1>1, <2>0, <2>2 DEF Relist, NextSerial
      <3> QED BY <2>0, <3>1
    <2> QED
      BY <1>1, <2>1, <2>2
      DEF Watching, Watch, WatchUnmanaged, WakeUnmanaged, Enter, Look, Sleep, Return,
          Resume, Expire, Lock, Unlock, bumpSerial, Change, StartBump, vars
  <1>2. HInv /\ [HandlesNext]_allVars
          => [\A x \in Source : value'[x] # value[x] =>
                \A y \in Source : value'[x] > value[y]]_vars
    BY <1>1, StepIsWatching
  <1> QED BY <1>2, HInvHolds, PTL DEF HandlesSpec, NumbersAreFresh

\* A call that comes back with the serial it was given was a poll or has waited its
\* time (watchSerial): whatever wakes it meanwhile, other services' news or the
\* timers of other watchers, it looks again and goes back to sleep.
THEOREM OldTakesItsTime == HandlesSpec => OldOnlyAfterTimeout
  <1>1. HInv => [\A w \in Watcher :
                   Return(w) /\ value[src[w]] = old[w] => timer[w] # "running"]_vars
    BY DEF HInv, TimerInv, Return, Over
  <1> QED BY <1>1, HInvHolds, PTL DEF OldOnlyAfterTimeout
=============================================================================
