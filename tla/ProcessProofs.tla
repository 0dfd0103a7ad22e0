--------------------------- MODULE ProcessProofs ---------------------------
(***************************************************************************)
(* Proofs about Process, for any number of processes and whatever the      *)
(* settings of the provider are.                                           *)
(***************************************************************************)
EXTENDS Process, TLAPS

\* A process that has not been reported is the one of p.process and the manager
\* has not stopped it; only such a process runs.
Reported ==
    /\ \A g \in Proc : waiter[g] \in {"waits", "reaped"} => process = g /\ caller # "down"
    /\ \A g \in alive : waiter[g] = "waits"
    /\ caller = "down" => process = Nobody

\* While a Stop is under way the process is known to be stopped on purpose.
StopIsKnown == caller \in Stopping => stopped

PInv == TypeOK /\ Reported /\ StopIsKnown

-----------------------------------------------------------------------------
\* Nothing runs at first.
LEMMA InitPInv == Init => PInv
  <1> SUFFICES ASSUME Init PROVE PInv
    OBVIOUS
  <1>1. TypeOK BY ProcessAssumption DEF Init, TypeOK, Place
  <1> QED BY <1>1 DEF Init, PInv, Reported, StopIsKnown, Stopping, Place

\* Every step keeps the types.
LEMMA NextTypeOK == PInv /\ [Next]_vars => TypeOK'
  <1> SUFFICES ASSUME PInv, [Next]_vars PROVE TypeOK'
    OBVIOUS
  <1> USE ProcessAssumption DEF PInv, TypeOK, Place, settings, state, children
  <1>1. CASE StartFails BY <1>1 DEF StartFails
  <1>2. ASSUME NEW g \in Proc, Start(g) PROVE TypeOK' BY <1>2 DEF Start
  <1>3. CASE Stop BY <1>3 DEF Stop, StopFlag
  <1>4. CASE SignalSent \/ CommandStarts \/ CommandEnds \/ CommandTimesOut
    BY <1>4 DEF SignalSent, CommandStarts, CommandEnds, CommandTimesOut, StopGoes
  <1>5. CASE StopAsked BY <1>5 DEF StopAsked
  <1>6. CASE StopReturns BY <1>6 DEF StopReturns
  <1>7. ASSUME NEW g \in Proc, doWait(g) PROVE TypeOK'
    BY <1>7 DEF doWait, Reap, Note, Leave, Waiter, Fails
  <1>8. ASSUME NEW g \in Proc, Fire(g) \/ Kill(g) \/ End(g) PROVE TypeOK'
    BY <1>8 DEF Fire, Kill, End
  <1>9. CASE UNCHANGED vars BY <1>9 DEF vars
  <1> QED BY <1>1, <1>2, <1>3, <1>4, <1>5, <1>6, <1>7, <1>8, <1>9 DEF Next

\* A process is started only when every doWait is through; the timer may kill any.
LEMMA NextReported == PInv /\ [Next]_vars => Reported'
  <1> SUFFICES ASSUME PInv, [Next]_vars PROVE Reported'
    OBVIOUS
  <1> USE ProcessAssumption DEF Reported, settings, state, children
  <1>0. PInv /\ TypeOK /\ Reported BY DEF PInv
  <1>1. CASE StartFails BY <1>0, <1>1 DEF StartFails
  <1>2. ASSUME NEW g \in Proc, Start(g) PROVE Reported'
    BY <1>0, <1>2 DEF Start, TypeOK
  <1>3. CASE Stop BY <1>0, <1>3 DEF Stop
  <1>4. CASE SignalSent \/ CommandStarts \/ CommandEnds \/ CommandTimesOut
    BY <1>0, <1>4 DEF SignalSent, CommandStarts, CommandEnds, CommandTimesOut, StopGoes
  <1>5. CASE StopAsked BY <1>0, <1>5 DEF StopAsked
  <1>6. CASE StopReturns BY <1>0, <1>6 DEF StopReturns, WaitedForAll, TypeOK
  <1>7. ASSUME NEW g \in Proc, doWait(g) PROVE Reported'
    <2>1. CASE Reap(g) BY <1>0, <2>1 DEF Reap, Waiter, TypeOK
    <2>2. CASE Note(g) BY <1>0, <2>2 DEF Note, Waiter, TypeOK
    <2>3. CASE Leave(g) BY <1>0, <2>3 DEF Leave, Waiter, TypeOK
    <2> QED BY <1>7, <2>1, <2>2, <2>3 DEF doWait
  <1>8. ASSUME NEW g \in Proc, Fire(g) \/ Kill(g) \/ End(g) PROVE Reported'
    BY <1>0, <1>8 DEF Fire, Kill, End
  <1>9. CASE UNCHANGED vars BY <1>0, <1>9 DEF vars
  <1> QED BY <1>1, <1>2, <1>3, <1>4, <1>5, <1>6, <1>7, <1>8, <1>9 DEF Next

\* Stop sets the flag before it asks, and Start clears it after Stop has returned.
LEMMA NextStopIsKnown == PInv /\ [Next]_vars => StopIsKnown'
  <1> SUFFICES ASSUME PInv, [Next]_vars, (caller \in Stopping)' PROVE stopped'
    BY DEF StopIsKnown
  <1> USE DEF Stopping, Place, settings, state, children
  <1>0. caller \in Stopping => stopped BY DEF PInv, StopIsKnown
  <1>1. CASE Stop BY <1>1 DEF Stop, StopFlag
  <1>2. CASE UNCHANGED <<stopped, caller>> BY <1>0, <1>2
  <1>3. CASE caller \in Stopping /\ UNCHANGED stopped BY <1>0, <1>3
  <1>4. Stop \/ UNCHANGED <<stopped, caller>> \/ (caller \in Stopping /\ UNCHANGED stopped)
    BY DEF Next, StartFails, Start, SignalSent, CommandStarts, CommandEnds,
           CommandTimesOut, StopGoes, StopAsked, StopReturns, doWait, Reap, Note,
           Leave, Fire, Kill, End, vars
  <1> QED BY <1>1, <1>2, <1>3, <1>4

\* The invariant of all that follows.
THEOREM PInvHolds == Spec => []PInv
  <1>1. PInv /\ [Next]_vars => PInv'
    BY NextTypeOK, NextReported, NextStopIsKnown DEF PInv
  <1> QED BY <1>1, InitPInv, PTL DEF Spec

-----------------------------------------------------------------------------
\* Stop leaves no process behind (Process.Stop waits for every doWait, and what
\* has been reported does not run), and a doWait that has not reported yet is that
\* of p.process, whoever started which process when.
THEOREM NobodyIsOrphaned == Spec => []NoOrphans
  <1>1. PInv => NoOrphans
    BY DEF PInv, Reported, NoOrphans, TypeOK
  <1> QED BY <1>1, PInvHolds, PTL

\* Nothing runs and nothing has failed at first.
LEMMA InitContract == Init => Contract!ProviderInit
  BY DEF Init, Contract!ProviderInit, Stopping, Place

\* What runs is the last process started, and a doWait that reports it finds nothing
\* running.
LEMMA OneAlive ==
    ASSUME PInv
    PROVE  /\ \A g \in alive : g = process
           /\ caller = "down" => alive = {}
           /\ \A g \in Proc : waiter[g] = "reaped" => alive = {} /\ caller # "down"
  BY ProcessAssumption DEF PInv, Reported, TypeOK

\* Start starts or has failed when it returns; a process that ends, killed or not, is
\* an end; what doWait notes is a fault of a process that ended unasked; Stop returns
\* when nothing runs; every other step is internal to the provider.
LEMMA StepOfContract ==
    PInv /\ [Next]_vars => [Contract!ProviderNext]_(Contract!providerVars)
  <1> SUFFICES ASSUME PInv, [Next]_vars
               PROVE  [Contract!ProviderNext]_(Contract!providerVars)
    OBVIOUS
  <1> DEFINE called == IF caller \in Stopping THEN "stopping" ELSE caller
             Same == called' = called /\ (alive # {})' = (alive # {}) /\ failed' = failed
  <1> USE DEF Contract!ProviderNext, settings, state, children
  <1>0. PInv /\ TypeOK BY DEF PInv
  <1>a. caller \in Place /\ failed \in BOOLEAN BY <1>0 DEF TypeOK
  <1>b. called = "down" <=> caller = "down" BY <1>a DEF Stopping, Place
  <1>c. called = "up" <=> caller = "up" BY <1>a DEF Stopping, Place
  <1>d. Same => UNCHANGED Contract!providerVars BY DEF Contract!providerVars
  <1>1. CASE StartFails
    <2>1. called' = called /\ alive' = alive /\ failed' = TRUE /\ called = "down"
      BY <1>1 DEF StartFails, Stopping, Place
    <2> QED BY <2>1 DEF Contract!StartFailed
  <1>2. ASSUME NEW g \in Proc, Start(g) PROVE Contract!Started
    <2>1. caller = "down" /\ caller' = "up" /\ alive' # {} /\ failed' = FALSE
      BY <1>2 DEF Start
    <2> QED BY <2>1 DEF Contract!Started, Stopping, Place
  <1>3. CASE Stop
    <2>1. caller = "up" /\ UNCHANGED <<alive, failed>> BY <1>3 DEF Stop
    <2>2. CASE process = Nobody
      <3>1. caller' = "down" BY <1>3, <2>2 DEF Stop
      <3>2. alive = {} BY <1>0, <2>2, OneAlive, ProcessAssumption DEF TypeOK
      <3> QED BY <2>1, <3>1, <3>2 DEF Contract!Stopped, Stopping, Place
    <2>3. CASE process # Nobody
      <3>1. caller' = "shutdown" BY <1>3, <2>3 DEF Stop
      <3> QED BY <2>1, <3>1 DEF Contract!StopCalled, Stopping, Place
    <2> QED BY <2>2, <2>3
  <1>4. CASE SignalSent \/ CommandStarts \/ CommandEnds \/ CommandTimesOut \/ StopAsked
    <2>1. caller \in Stopping /\ caller' \in Stopping /\ UNCHANGED <<alive, failed>>
      BY <1>4 DEF SignalSent, CommandStarts, CommandEnds, CommandTimesOut, StopGoes,
                  StopAsked, Stopping, Place
    <2> QED BY <1>d, <2>1
  <1>5. CASE StopReturns
    <2>1. caller = "waiting" /\ caller' = "down" /\ UNCHANGED <<alive, failed>>
      BY <1>5 DEF StopReturns
    <2>2. alive = {}
      BY <1>0, <1>5 DEF StopReturns, WaitedForAll, PInv, Reported, TypeOK
    <2> QED BY <2>1, <2>2 DEF Contract!Stopped, Stopping, Place
  <1>6. ASSUME NEW g \in Proc, Note(g)
        PROVE  [Contract!ProviderNext]_(Contract!providerVars)
    <2>1. waiter[g] = "reaped" /\ UNCHANGED <<caller, alive>>
          /\ failed' = (failed \/ Fails(g))
      BY <1>6 DEF Note, Waiter
    <2>2. alive = {} /\ caller # "down" BY <1>0, <2>1, OneAlive
    <2>3. CASE Fails(g)
      <3>1. caller \notin Stopping BY <1>0, <2>3 DEF Fails, PInv, StopIsKnown
      <3>2. caller = "up" BY <1>a, <2>2, <3>1 DEF Stopping
      <3>3. failed' = TRUE BY <2>1, <2>3
      <3> QED BY <2>1, <2>2, <3>2, <3>3 DEF Contract!Faulted, Stopping, Place
    <2>4. CASE ~Fails(g)
      <3>1. failed' = failed BY <1>a, <2>1, <2>4
      <3> QED BY <1>d, <2>1, <3>1
    <2> QED BY <2>3, <2>4
  <1>7. ASSUME NEW g \in Proc, Kill(g) \/ End(g)
        PROVE  [Contract!ProviderNext]_(Contract!providerVars)
    <2>1. alive' \subseteq alive /\ UNCHANGED <<caller, failed>> BY <1>7 DEF Kill, End
    <2>2. alive' = {}
      BY <1>0, <1>7, OneAlive DEF Kill, End
    <2> QED BY <2>1, <2>2 DEF Contract!Ended
  <1>8. ASSUME NEW g \in Proc, Reap(g) \/ Leave(g) \/ Fire(g) PROVE Same
    BY <1>8 DEF Reap, Leave, Fire
  <1>9. CASE UNCHANGED vars BY <1>d, <1>9 DEF vars
  <1> QED BY <1>d, <1>1, <1>2, <1>3, <1>4, <1>5, <1>6, <1>7, <1>8, <1>9 DEF Next, doWait

\* A process is a provider as the manager needs it: what provider.go:55-70 says of
\* Start, Stop and Check holds of process.go, for any number of processes, goroutines
\* and timers of earlier ones, and all settings.
THEOREM ContractIsKept == Spec => ImplementsProvider
  <1>1. Spec => []PInv BY PInvHolds
  <1> QED
    BY <1>1, InitContract, StepOfContract, PTL
    DEF Spec, ImplementsProvider, Contract!ProviderSpec
=============================================================================
