--------------------------- MODULE CascadeProofs ----------------------------
(***************************************************************************)
(* Proofs about the order and the need of stops in a cascade (stopRecurse  *)
(* of service.go), on top of the invariant of SupervisorProofs.            *)
(***************************************************************************)
EXTENDS SupervisorProofs

\* A call of stopRecurse.
Stops(f) == f.kind \in {"stop", "stopping"}

\* While a service's children are being stopped, nothing is done but stop.
OnlyStopsAbove ==
    \A i, j \in Frames : i < j /\ stack[i].kind = "stopping" => Stops(stack[j])

\* A running service that was disabled is being stopped, or is just about to be.
DisabledIsStopping ==
    \A s \in running \ enabled :
        \/ s \in stopping
        \/ stack # <<>> /\ Top.kind = "stop" /\ Top.svc = s

\* The services whose dependencies are met.
Satisfied == {s \in Service : DepsMet(s)}

\* A service that is stopped for an unmet dependency lacks one until it is down.
CauseHolds ==
    \A i \in Frames :
        /\ Stops(stack[i]) /\ stack[i].why = "Unmet dependency"
        /\ stack[i].svc \in running
        /\ stack[i].kind = "stop" => stack[i].svc \notin stopping
        => stack[i].svc \notin Satisfied

\* What a loop has still to visit are children of its service.
LoopsChildren ==
    \A i \in Frames : stack[i].kind = "stopping" =>
        stack[i].todo \subseteq children[stack[i].svc]

\* What any dependency graph keeps, cyclic or not.
CInv == OnlyStopsAbove /\ LoopsChildren /\ DisabledIsStopping /\ CauseHolds

\* The call of frame i is going to visit c.
Dooms(i, c) ==
    \/ /\ stack[i].kind = "stop"
       /\ stack[i].svc \in running \ stopping
       /\ c = stack[i].svc \/ c \in children[stack[i].svc]
    \/ stack[i].kind = "stopping" /\ c \in stack[i].todo

\* A child that a loop has visited and not stopped has what it needs, or one of
\* the calls that the loop has made since is going to visit it again.
VisitedIsSound ==
    \A j \in Frames : stack[j].kind = "stopping" =>
        \A c \in (children[stack[j].svc] \ stack[j].todo) \cap (running \ stopping) :
            c \in Satisfied \/ \E i \in Frames : i > j /\ Dooms(i, c)

\* A rank of the services by which every dependency goes downwards.
Ranks(rank) ==
    \A s, p \in Service : \A d \in DependsOn(s) :
        s # p /\ Matches(p, d) => rank[p] < rank[s]

\* The calls made for the children of a service have higher ranks than it has.
CallsAscend(rank) ==
    \A i, j \in Frames :
        i < j /\ stack[i].kind = "stopping" => rank[stack[i].svc] < rank[stack[j].svc]

-----------------------------------------------------------------------------
(* What the steps of stopRecurse do, and what the others cannot.           *)

\* What is pushed last is on top.
LEMMA LastPushed ==
    ASSUME NEW S, NEW st \in Seq(S), NEW f \in S
    PROVE  Append(st, f)[Len(Append(st, f))] = f
  BY PushFacts

\* The frame on top is one of the frames.
LEMMA TopIsFrame ==
    ASSUME Len(stack) \in Nat \ {0}
    PROVE  Len(stack) \in Frames
  BY DEF Frames

\* A call of anything else than stopRecurse has no stopRecurse below it.
LEMMA NoStopBelow ==
    ASSUME TypeOK, Shape, OnlyStopsAbove, ~Idle, ~Stops(Top)
    PROVE  \A i \in Frames : ~Stops(stack[i])
  <1>1. /\ Len(stack) \in Nat \ {0} /\ Top = stack[Len(stack)]
    BY TopFacts
  <1>2. ASSUME NEW i \in Frames, Stops(stack[i]) PROVE FALSE
    <2>1. i # Len(stack) /\ i \in 1 .. Len(stack) BY <1>1, <1>2 DEF Frames
    <2>2. stack[i].kind = "stopping" BY <1>2, <2>1 DEF Shape, Stops
    <2>3. Len(stack) \in Frames /\ i < Len(stack) BY <1>1, <2>1 DEF Frames
    <2> QED BY <1>1, <1>2, <2>2, <2>3 DEF OnlyStopsAbove
  <1> QED BY <1>2

\* The frames below the n-th stay; the n-th goes on as a loop over children; and
\* so the frames after each of the steps of stopRecurse, if the n-th is on top.
Same(n) == \A i \in 1 .. (n - 1) : stack'[i] = stack[i]
Onward(n) ==
    /\ stack'[n].kind = "stopping" /\ stack'[n].svc = Top.svc
    /\ stack'[n].why = Top.why

StopAfter(n) ==
    \/ (StopReturns \/ StopEnds) /\ Len(stack') = n - 1
    \/ /\ StopBegins /\ Len(stack') = n
       /\ Onward(n) /\ stack'[n].todo = children[Top.svc]
    \/ \E c \in Top.todo :
         /\ SpareChild /\ Len(stack') = n
         /\ canRun(c) /\ Onward(n) /\ stack'[n].todo = Top.todo \ {c}
    \/ \E c \in Top.todo :
         /\ StopNextChild /\ Len(stack') = n + 1
         /\ ~canRun(c) /\ Onward(n) /\ stack'[n].todo = Top.todo \ {c}
         /\ stack'[n + 1].kind = "stop" /\ stack'[n + 1].svc = c
         /\ stack'[n + 1].why = "Unmet dependency"

\* The steps of stopRecurse, frame by frame.
LEMMA StopSteps ==
    ASSUME TypeOK, Shape, Step, Stops(Top)
    PROVE  /\ Top.svc \in Service /\ Top.todo \in SUBSET Service
           /\ Len(stack) \in Nat \ {0} /\ Top = stack[Len(stack)]
           /\ Same(Len(stack))
           /\ StopAfter(Len(stack))
  <1> DEFINE n == Len(stack)
  <1>1. ~Idle BY DEF Step
  <1>2. /\ n \in Nat \ {0} /\ Top = stack[n]
        /\ stack' = Below => Len(stack') = n - 1 /\ Same(n)
        /\ \A f \in Frame : stack' = Append(Below, f) =>
             Len(stack') = n /\ Same(n) /\ stack'[n] = f
        /\ \A f, g \in Frame : stack' = Append(Append(Below, f), g) =>
             Len(stack') = n + 1 /\ Same(n) /\ stack'[n] = f /\ stack'[n + 1] = g
    BY <1>1, Replacements DEF Same
  <1>3. /\ Top.svc \in Service /\ Top.todo \in SUBSET Service /\ Top.why \in Reason
    BY <1>1, TopFacts DEF Stops
  <1> HIDE DEF n
  <1>4. CASE StopReturns \/ StopEnds
    BY <1>2, <1>3, <1>4 DEF StopReturns, StopEnds, StopAfter, n
  <1>5. CASE StopBegins
    <2> DEFINE f == NewFrame("stopping", Top.svc, Top.why, children[Top.svc])
    <2>1. children[Top.svc] \in SUBSET Service BY <1>3 DEF TypeOK, GraphTypeOK
    <2>2. "stopping" \in Kind BY DEF Kind
    <2>3. /\ f \in Frame /\ f.kind = "stopping" /\ f.svc = Top.svc
          /\ f.why = Top.why /\ f.todo = children[Top.svc]
      BY <1>3, <2>1, <2>2, FrameFacts
    <2>4. stack' = Append(Below, f) BY <1>5 DEF StopBegins
    <2> HIDE DEF f
    <2>5. Len(stack') = n /\ Same(n) /\ stack'[n] = f BY <1>2, <2>3, <2>4
    <2> QED BY <1>2, <1>3, <1>5, <2>3, <2>5 DEF StopAfter, Onward, n
  <1>6. CASE SpareChild
    <2>1. PICK c \in Top.todo : canRun(c) /\ stack' = AfterVisit(c) /\ Top.kind = "stopping"
      BY <1>6 DEF SpareChild
    <2>2. PICK f \in Frame : /\ f.kind = Top.kind /\ f.svc = Top.svc /\ f.why = Top.why
                             /\ f.todo = Top.todo \ {c} /\ AfterVisit(c) = Append(Below, f)
      BY <1>1, <1>3, VisitFacts
    <2>3. Len(stack') = n /\ Same(n) /\ stack'[n] = f BY <1>2, <2>1, <2>2
    <2> QED BY <1>2, <1>3, <1>6, <2>1, <2>2, <2>3 DEF StopAfter, Onward, n
  <1>7. CASE StopNextChild
    <2>1. PICK c \in Top.todo :
            /\ ~canRun(c) /\ Top.kind = "stopping"
            /\ stack' = Append(AfterVisit(c), stopRecurse(c, "Unmet dependency"))
      BY <1>7 DEF StopNextChild
    <2>2. PICK f \in Frame : /\ f.kind = Top.kind /\ f.svc = Top.svc /\ f.why = Top.why
                             /\ f.todo = Top.todo \ {c} /\ AfterVisit(c) = Append(Below, f)
      BY <1>1, <1>3, VisitFacts
    <2>3. PICK g \in Frame : /\ g = stopRecurse(c, "Unmet dependency")
                             /\ g.kind = "stop" /\ g.svc = c
                             /\ g.why = "Unmet dependency"
      <3>1. c \in Service BY <1>3
      <3>2. stopRecurse(c, "Unmet dependency").why = "Unmet dependency"
        BY DEF stopRecurse, NewFrame
      <3>3. PICK g \in Frame : /\ g = stopRecurse(c, "Unmet dependency")
                               /\ g.kind = "stop" /\ g.svc = c
        BY <3>1, CallFrames
      <3> QED BY <3>2, <3>3
    <2>4. stack' = Append(Append(Below, f), g) BY <2>1, <2>2, <2>3
    <2>5. Len(stack') = n + 1 /\ Same(n) /\ stack'[n] = f /\ stack'[n + 1] = g
      BY <1>2, <2>4
    <2>6. /\ Onward(n) /\ stack'[n].todo = Top.todo \ {c}
          /\ stack'[n + 1].kind = "stop" /\ stack'[n + 1].svc = c
          /\ stack'[n + 1].why = "Unmet dependency"
      BY <2>1, <2>2, <2>3, <2>5 DEF Onward
    <2>7. StopAfter(n) BY <1>7, <2>1, <2>5, <2>6 DEF StopAfter
    <2> QED BY <1>2, <1>3, <2>5, <2>7 DEF n
  <1>8. StopReturns \/ StopBegins \/ SpareChild \/ StopNextChild \/ StopEnds
    BY DEF Step, Stops, StartReturns, StartRefused, StartFails, StartSucceeds,
           StartAttempted, StartNextChild, SelfHeal, MonitorVisit, RestartResumes,
           ShutdownVisit, ShutdownRemoves, LoopEnds
  <1> QED BY <1>4, <1>5, <1>6, <1>7, <1>8

\* Any other step, and any operation, leaves no stopRecurse but a new one on top,
\* which is for a service that is disabled or has failed, not for an unmet
\* dependency.
NewStop ==
    /\ \A i \in Frames' : Stops(stack'[i]) => i = Len(stack') /\ stack'[i].kind = "stop"
    /\ \A i \in Frames' : Stops(stack'[i]) => stack'[i].why # "Unmet dependency"
    /\ \A i \in Frames' : Stops(stack'[i]) =>
         stack'[i].svc \notin enabled' \/ stack'[i].svc \in failed'

\* The steps of the other calls: the monitor and Shutdown call stopRecurse.
LEMMA OtherSteps ==
    ASSUME TypeOK, Shape, OnlyStopsAbove, Step, ~Stops(Top)
    PROVE  NewStop
  <1> DEFINE n == Len(stack)
             m == Len(stack')
  <1>1. ~Idle BY DEF Step
  <1>2. /\ n \in Nat \ {0} /\ Top = stack[n] BY <1>1, TopFacts
  <1>3. \A i \in 1 .. n : ~Stops(stack[i]) BY <1>1, NoStopBelow DEF Frames
  <1>4. StackAfter(n) BY StepStack
  <1>5. m \in Nat BY <1>2, <1>4 DEF StackAfter
  <1>6. ASSUME NEW i \in 1 .. m, Stops(stack'[i])
        PROVE  /\ i = m /\ stack'[i].kind = "stop"
               /\ MonitorVisit \/ ShutdownVisit
    <2>1. i >= n BY <1>2, <1>3, <1>4, <1>6 DEF StackAfter
    <2>2. CASE Pops \/ StartSucceeds \/ StartNextChild \/ SelfHeal \/ RestartResumes
      BY <1>2, <1>3, <1>4, <1>6, <2>1, <2>2 DEF StackAfter, Stops, Is, Visits
    <2>3. CASE MonitorVisit
      BY <1>2, <1>3, <1>4, <1>6, <2>1, <2>3 DEF StackAfter, Stops, Is, Visits
    <2>4. CASE ShutdownVisit
      BY <1>2, <1>3, <1>4, <1>6, <2>1, <2>4 DEF StackAfter, Stops, Is, Visits
    <2> QED BY <2>2, <2>3, <2>4 DEF Step, Pops, StopBegins, SpareChild, StopNextChild, Stops
  <1> DEFINE Pushed(f) ==
               /\ f.kind \in {"monitor", "heal"} \/ f.why = "other"
               /\ \E st \in Seq(Frame) : stack' = Append(st, f)
  <1>7. ASSUME NEW s \in Service
        PROVE  /\ stopRecurse(s, "other") \in Frame /\ stopRecurse(s, "other").why = "other"
               /\ NewFrame("heal", s, "other", {}) \in Frame
               /\ NewFrame("heal", s, "other", {}).kind = "heal"
               /\ NewFrame("remove", s, "other", {}) \in Frame
    BY CallFacts, ReasonFacts, FrameFacts DEF stopRecurse, NewFrame, Frame, Kind
  <1>8. ASSUME NEW s \in Service
        PROVE  \E f \in Frame : /\ f.kind = Top.kind
                                /\ AfterVisit(s) = Append(Below, f)
                                /\ AfterVisit(s) \in Seq(Frame)
    <2>1. Below \in Seq(Frame) BY <1>1, TopFacts
    <2>2. PICK f \in Frame : f.kind = Top.kind /\ AfterVisit(s) = Append(Below, f)
      BY <1>1, VisitFacts
    <2>3. Append(Below, f) \in Seq(Frame) BY <2>1, PushFacts
    <2> QED BY <2>2, <2>3
  <1>9. ASSUME MonitorVisit PROVE \E f \in Frame : Pushed(f)
    <2>1. PICK s \in Service :
            /\ Top.kind = "monitor"
            /\ IF s \in enabled THEN CheckService(s, AfterVisit(s), bumped)
                                ELSE stack' = AfterVisit(s)
      BY <1>1, <1>9, TopFacts DEF MonitorVisit
    <2>2. PICK f \in Frame : /\ f.kind = Top.kind /\ AfterVisit(s) = Append(Below, f)
                             /\ AfterVisit(s) \in Seq(Frame)
      BY <1>8
    <2>3. Below \in Seq(Frame) BY <1>1, TopFacts
    <2>4. healAfter(s, AfterVisit(s)) \in Seq(Frame) BY <1>7, <2>2, PushFacts DEF healAfter
    <2>5. \/ stack' = AfterVisit(s)
          \/ stack' = healAfter(s, AfterVisit(s))
          \/ stack' = Append(healAfter(s, AfterVisit(s)), stopRecurse(s, "other"))
      BY <2>1 DEF CheckService
    <2> QED BY <1>7, <2>1, <2>2, <2>3, <2>4, <2>5 DEF healAfter
  <1>10. ASSUME ShutdownVisit PROVE \E f \in Frame : Pushed(f)
    <2>1. PICK s \in Service :
            stack' = Append(Append(AfterVisit(s), NewFrame("remove", s, "other", {})),
                            stopRecurse(s, "other"))
      BY <1>1, <1>10, TopFacts DEF ShutdownVisit
    <2>2. AfterVisit(s) \in Seq(Frame) BY <1>8
    <2>3. Append(AfterVisit(s), NewFrame("remove", s, "other", {})) \in Seq(Frame)
      BY <1>7, <2>2, PushFacts
    <2> QED BY <1>7, <2>1, <2>3
  <1>11. ASSUME NEW i \in 1 .. m, Stops(stack'[i])
         PROVE  stack'[i].why # "Unmet dependency"
    <2>1. PICK f \in Frame : Pushed(f) BY <1>6, <1>9, <1>10, <1>11
    <2>2. stack'[m] = f BY <2>1, LastPushed
    <2> QED BY <1>6, <1>11, <2>1, <2>2 DEF Stops
  <1>12. ASSUME NEW i \in 1 .. m, Stops(stack'[i])
         PROVE  stack'[i].svc \notin enabled' \/ stack'[i].svc \in failed'
    <2>1. i = m /\ stack'[m].kind = "stop" BY <1>6, <1>12
    <2>2. CASE MonitorVisit
      <3>1. \E s \in Service : m = n + 2 => failed' = failed \cup {s} /\ Is(n + 2, "stop", s)
        BY <1>2, <1>4, <2>2 DEF StackAfter
      <3>2. m = n + 2
        BY <1>2, <1>3, <1>4, <1>12, <2>1, <2>2 DEF StackAfter, Visits, Is, Stops
      <3> QED BY <2>1, <3>1, <3>2 DEF Is
    <2>3. CASE ShutdownVisit
      BY <1>2, <1>4, <2>1, <2>3 DEF StackAfter, Is
    <2> QED BY <1>6, <1>12, <2>2, <2>3
  <1> QED BY <1>6, <1>11, <1>12 DEF NewStop, Frames

\* The operations: Disable, Restart and a notification call stopRecurse.
LEMMA LockNewStop ==
    ASSUME TypeOK, Lock
    PROVE  NewStop
  <1>1. Idle /\ Len(stack) = 0 /\ LockStackAfter BY LockStack
  <1>2. stack = <<>> /\ <<>> \in Seq(Frame) BY <1>1 DEF Idle
  <1>3. ASSUME NEW i \in 1 .. Len(stack'), Stops(stack'[i])
        PROVE  /\ i = Len(stack') /\ stack'[i].kind = "stop"
               /\ \E s \in Service : Disable(s) \/ Restart(s) \/ Notify(s)
    <2> USE DEF Stops, Is
    <2>1. CASE MonitorPass \/ SetMonitoring \/ Shutdown
      BY <1>1, <1>3, <2>1 DEF LockStackAfter
    <2>2. ASSUME NEW s \in Service,
                 \/ AddService(s) \/ DeleteService(s) \/ EnableRefused(s) \/ Enable(s)
                 \/ Clear(s) \/ SetRestart(s) \/ SetRate(s)
          PROVE  FALSE
      <3>1. \/ Len(stack') = 0
            \/ Len(stack') = 1 /\ stack'[1].kind = "start"
        BY <1>1, <2>2 DEF LockStackAfter
      <3> QED BY <1>3, <3>1
    <2>3. ASSUME NEW s \in Service, Disable(s) \/ Restart(s) \/ Notify(s)
          PROVE  i = Len(stack') /\ stack'[i].kind = "stop"
      <3>1. \/ Len(stack') = 0
            \/ Len(stack') = 1 /\ stack'[1].kind \in {"stop", "heal"}
            \/ /\ Len(stack') = 2 /\ stack'[1].kind \in {"restart", "heal"}
               /\ stack'[2].kind = "stop"
        BY <1>1, <2>3 DEF LockStackAfter
      <3> QED BY <1>3, <3>1
    <2> QED BY <2>1, <2>2, <2>3 DEF Lock
  <1>4. ASSUME NEW s \in Service
        PROVE  /\ \A w \in {"other", "Disabled"} :
                    stopRecurse(s, w) \in Frame /\ stopRecurse(s, w).why = w
               /\ \A k \in {"restart", "heal"} : NewFrame(k, s, "other", {}) \in Frame
               /\ NewFrame("heal", s, "other", {}).kind = "heal"
    BY DEF stopRecurse, NewFrame, Frame, Kind, Reason
  <1>5. ASSUME NEW s \in Service, Disable(s) \/ Restart(s) \/ Notify(s), Len(stack') > 0
        PROVE  ~Stops(stack'[Len(stack')]) \/ stack'[Len(stack')].why # "Unmet dependency"
    <2>1. CASE Disable(s)
      <3>1. stack' = Append(<<>>, stopRecurse(s, "Disabled"))
        BY <1>2, <2>1 DEF Disable, Call
      <3>2. stack'[Len(stack')] = stopRecurse(s, "Disabled")
        BY <1>2, <1>4, <3>1, LastPushed
      <3> QED BY <1>4, <3>2
    <2>2. ASSUME NEW k \in {"restart", "heal"},
                 stack' = Append(Append(<<>>, NewFrame(k, s, "other", {})),
                                 stopRecurse(s, "other"))
          PROVE  stack'[Len(stack')].why = "other"
      <3>1. Append(<<>>, NewFrame(k, s, "other", {})) \in Seq(Frame)
        BY <1>2, <1>4, PushFacts
      <3>2. stack'[Len(stack')] = stopRecurse(s, "other")
        BY <1>4, <2>2, <3>1, LastPushed
      <3> QED BY <1>4, <3>2
    <2>3. CASE Restart(s)
      BY <1>2, <2>2, <2>3 DEF Restart, Call
    <2>4. CASE Notify(s)
      <3>1. \/ stack' = <<>>
            \/ stack' = Append(<<>>, NewFrame("heal", s, "other", {}))
            \/ stack' = Append(Append(<<>>, NewFrame("heal", s, "other", {})),
                               stopRecurse(s, "other"))
        BY <2>4 DEF Notify, CheckService, healAfter
      <3>2. CASE stack' = Append(<<>>, NewFrame("heal", s, "other", {}))
        <4>1. stack'[Len(stack')] = NewFrame("heal", s, "other", {})
          BY <1>2, <1>4, <3>2, LastPushed
        <4> QED BY <1>4, <4>1 DEF Stops
      <3>3. CASE stack' = Append(Append(<<>>, NewFrame("heal", s, "other", {})),
                                 stopRecurse(s, "other"))
        BY <2>2, <3>3
      <3>4. stack' # <<>> BY <1>2, <1>5
      <3> QED BY <3>1, <3>2, <3>3, <3>4
    <2> QED BY <1>5, <2>1, <2>3, <2>4
  <1>6. ASSUME NEW i \in 1 .. Len(stack'), Stops(stack'[i])
        PROVE  stack'[i].why # "Unmet dependency"
    <2>1. /\ i = Len(stack') /\ i > 0
          /\ \E s \in Service : Disable(s) \/ Restart(s) \/ Notify(s)
      BY <1>3, <1>6
    <2> QED BY <1>5, <1>6, <2>1
  <1>7. ASSUME NEW i \in 1 .. Len(stack'), Stops(stack'[i])
        PROVE  stack'[i].svc \notin enabled' \/ stack'[i].svc \in failed'
    <2>1. PICK s \in Service : Disable(s) \/ Restart(s) \/ Notify(s) BY <1>3, <1>7
    <2>2. i = Len(stack') /\ stack'[i].kind = "stop" BY <1>3, <1>7
    <2>3. CASE Disable(s) \/ Restart(s)
      <3>1. enabled' = enabled \ {s} BY <2>3 DEF Disable, Restart
      <3>2. stack'[i].svc = s BY <1>1, <2>2, <2>3 DEF LockStackAfter, Is
      <3> QED BY <3>1, <3>2
    <2>4. CASE Notify(s)
      <3>1. \/ Len(stack') = 0
            \/ Len(stack') = 1 /\ Is(1, "heal", s)
            \/ Len(stack') = 2 /\ failed' = failed \cup {s} /\ Is(2, "stop", s)
        BY <1>1, <2>4 DEF LockStackAfter
      <3> QED BY <1>7, <2>2, <3>1 DEF Is
    <2> QED BY <2>1, <2>3, <2>4
  <1> QED BY <1>3, <1>6, <1>7 DEF NewStop, Frames

\* A step of the lock's holder moves a stopRecurse on, or leaves a new one at
\* most; an operation leaves a new one at most; nothing else touches the stack.
LEMMA Moves ==
    ASSUME TypeOK, Shape, OnlyStopsAbove, [Next]_vars
    PROVE  \/ Step /\ Stops(Top)
           \/ NewStop
           \/ UNCHANGED <<graphVars, enabled, running, stopping, failed, stack>>
  <1>1. CASE Step BY <1>1, OtherSteps
  <1>2. CASE Lock BY <1>2, LockNewStop
  <1>3. CASE Environment \/ UNCHANGED vars BY <1>3 DEF Environment, vars, serviceVars
  <1> QED BY <1>1, <1>2, <1>3 DEF Next

-----------------------------------------------------------------------------
(* The cascade, invariant by invariant.                                    *)

\* stopRecurse calls nothing but itself before its provider is stopped.
LEMMA NextOnlyStops ==
    ASSUME TypeOK, Shape, OnlyStopsAbove, [Next]_vars
    PROVE  OnlyStopsAbove'
  <1>1. CASE Step /\ Stops(Top)
    <2> DEFINE n == Len(stack)
    <2>1. /\ n \in Nat \ {0} /\ Top = stack[n] /\ Same(n) /\ StopAfter(n)
      BY <1>1, StopSteps
    <2>2. \/ Len(stack') = n - 1
          \/ Len(stack') = n /\ Stops(stack'[n])
          \/ Len(stack') = n + 1 /\ Stops(stack'[n]) /\ Stops(stack'[n + 1])
      BY <2>1 DEF StopAfter, Onward, Stops
    <2>3. \A i, j \in 1 .. n : i < j /\ stack[i].kind = "stopping" => Stops(stack[j])
      BY DEF OnlyStopsAbove, Frames
    <2>4. \A i \in 1 .. (n - 1) : stack'[i] = stack[i] BY <2>1 DEF Same
    <2>5. Stops(stack[n]) BY <1>1, <2>1
    <2> HIDE DEF n
    <2>6. ASSUME NEW i \in 1 .. Len(stack'), NEW j \in 1 .. Len(stack'), i < j,
                 stack'[i].kind = "stopping"
          PROVE  Stops(stack'[j])
      <3>1. CASE j < n
        <4>1. i \in 1 .. (n - 1) /\ j \in 1 .. (n - 1) BY <2>1, <2>6, <3>1
        <4>2. stack'[i] = stack[i] /\ stack'[j] = stack[j] BY <2>4, <4>1
        <4>3. i \in 1 .. n /\ j \in 1 .. n BY <2>1, <4>1
        <4> QED BY <2>3, <2>6, <4>2, <4>3
      <3>2. CASE j = n \/ j = n + 1
        BY <2>1, <2>2, <2>6, <3>2
      <3> QED BY <2>1, <2>2, <2>6, <3>1, <3>2
    <2> QED BY <2>6 DEF OnlyStopsAbove, Frames
  <1>2. CASE NewStop
    BY <1>2 DEF NewStop, OnlyStopsAbove, Stops, Frames
  <1>3. CASE UNCHANGED <<graphVars, enabled, running, stopping, failed, stack>>
    BY <1>3 DEF OnlyStopsAbove, Frames
  <1> QED BY <1>1, <1>2, <1>3, Moves

\* The graph does not change under a loop of stopRecurse.
LEMMA NextLoopsChildren ==
    ASSUME TypeOK, Shape, OnlyStopsAbove, LoopsChildren, [Next]_vars
    PROVE  LoopsChildren'
  <1>1. CASE Step /\ Stops(Top)
    <2> DEFINE n == Len(stack)
    <2>1. /\ n \in Nat \ {0} /\ Top = stack[n] /\ Same(n) /\ StopAfter(n)
      BY <1>1, StopSteps
    <2>2. children' = children
      BY <2>1 DEF StopAfter, StopReturns, StopEnds, StopBegins, SpareChild,
         StopNextChild, graphVars
    <2>3. \A i \in 1 .. n :
            stack[i].kind = "stopping" => stack[i].todo \subseteq children[stack[i].svc]
      BY DEF LoopsChildren, Frames
    <2>4. SpareChild \/ StopNextChild => Top.kind = "stopping"
      BY DEF SpareChild, StopNextChild
    <2>5. \/ Len(stack') = n - 1
          \/ /\ \/ Len(stack') = n
                \/ Len(stack') = n + 1 /\ stack'[n + 1].kind = "stop"
             /\ stack'[n].todo \subseteq children[stack'[n].svc]
      <3>1. n \in 1 .. n BY <2>1
      <3>2. SpareChild \/ StopNextChild => Top.todo \subseteq children[Top.svc]
        BY <2>1, <2>3, <2>4, <3>1
      <3> QED BY <2>1, <3>2 DEF StopAfter, Onward
    <2>6. \A i \in 1 .. (n - 1) : stack'[i] = stack[i] BY <2>1 DEF Same
    <2> HIDE DEF n
    <2>7. ASSUME NEW i \in 1 .. Len(stack'), stack'[i].kind = "stopping"
          PROVE  stack'[i].todo \subseteq children'[stack'[i].svc]
      <3>1. CASE i < n
        <4>1. i \in 1 .. (n - 1) /\ i \in 1 .. n BY <2>1, <3>1
        <4> QED BY <2>2, <2>3, <2>6, <2>7, <4>1
      <3>2. CASE i = n \/ i = n + 1 BY <2>1, <2>2, <2>5, <2>7, <3>2
      <3> QED BY <2>1, <2>5, <2>7, <3>1, <3>2
    <2> QED BY <2>7 DEF LoopsChildren, Frames
  <1>2. CASE NewStop
    BY <1>2 DEF NewStop, LoopsChildren, Stops, Frames
  <1>3. CASE UNCHANGED <<graphVars, enabled, running, stopping, failed, stack>>
    BY <1>3 DEF LoopsChildren, Frames, graphVars
  <1> QED BY <1>1, <1>2, <1>3, Moves

\* Disable, Restart and Shutdown call stopRecurse as soon as they clear the flag.
LEMMA NextDisabledIsStopping ==
    ASSUME TypeOK, Shape, StoppingIsCalled, DisabledIsStopping, [Next]_vars
    PROVE  DisabledIsStopping'
  <1> DEFINE OnTop(s) == stack # <<>> /\ Top.kind = "stop" /\ Top.svc = s
  <1>1. stack' \in Seq(Frame) BY NextType DEF TypeOK
  <1>2. ASSUME NEW s, Is(Len(stack'), "stop", s), Len(stack') > 0 PROVE OnTop(s)'
    <2>1. stack' # <<>> BY <1>2
    <2>2. Last(stack') = stack'[Len(stack')] BY <1>1, <2>1, PopFacts
    <2> QED BY <1>2, <2>1, <2>2 DEF Top, Is
  <1>3. CASE Step
    <2>1. ~Idle /\ stack # <<>> BY <1>3 DEF Step, Idle
    <2>2. CASE StartSucceeds
      BY <2>1, <2>2 DEF StartSucceeds, StartAttempted, canRun, DisabledIsStopping
    <2>3. CASE StartReturns \/ StartRefused \/ StartFails \/ StartNextChild
               \/ SpareChild \/ StopNextChild \/ SelfHeal \/ MonitorVisit
               \/ ShutdownRemoves \/ LoopEnds
      BY <2>1, <2>3 DEF StartReturns, StartRefused, StartFails, StartAttempted,
         StartNextChild, SpareChild, StopNextChild, SelfHeal, MonitorVisit,
         ShutdownRemoves, LoopEnds, serviceVars, DisabledIsStopping
    <2>4. CASE StopReturns
      BY <2>1, <2>4 DEF StopReturns, serviceVars, DisabledIsStopping
    <2>5. CASE StopBegins \/ StopEnds
      BY <2>1, <2>5 DEF StopBegins, StopEnds, DisabledIsStopping
    <2>6. CASE RestartResumes
      BY <2>1, <2>6 DEF RestartResumes, DisabledIsStopping
    <2>7. CASE ShutdownVisit
      <3>1. PICK s \in Top.todo :
              /\ enabled' = enabled \ {s}
              /\ stack' = Append(Append(AfterVisit(s), NewFrame("remove", s, "other", {})),
                                 stopRecurse(s, "other"))
        BY <2>7 DEF ShutdownVisit
      <3>2. s \in Service BY <2>1, <3>1, TopFacts DEF Idle
      <3>3. PICK f \in Frame : AfterVisit(s) = Append(Below, f)
        BY <2>1, <3>2, VisitFacts DEF Idle
      <3>4. Below \in Seq(Frame) BY <2>1, TopFacts DEF Idle
      <3>5. PICK g \in Frame : g = NewFrame("remove", s, "other", {})
        BY <3>2, CallFacts
      <3>6. PICK h \in Frame : h = stopRecurse(s, "other") /\ h.kind = "stop" /\ h.svc = s
        BY <3>2, CallFrames
      <3>7. stack' = Append(Append(Append(Below, f), g), h)
        BY <3>1, <3>3, <3>5, <3>6
      <3>8. Append(Append(Below, f), g) \in Seq(Frame)
        BY <3>4, PushFacts
      <3>9. stack'[Len(stack')] = h /\ Len(stack') > 0
        BY <3>7, <3>8, PushFacts
      <3>10. OnTop(s)' BY <1>2, <3>6, <3>9 DEF Is
      <3>11. UNCHANGED <<running, stopping>> /\ Top.kind = "shutdown"
        BY <2>7 DEF ShutdownVisit
      <3> QED BY <3>1, <3>10, <3>11 DEF DisabledIsStopping
    <2> QED BY <1>3, <2>2, <2>3, <2>4, <2>5, <2>6, <2>7 DEF Step
  <1>4. CASE Lock
    <2>1. Idle /\ LockStackAfter BY <1>4, LockStack
    <2>2. running \subseteq enabled
      BY <2>1, IdleStopping DEF Idle, DisabledIsStopping
    <2>3. running' = running
      BY <1>4 DEF Lock, AddService, DeleteService, EnableRefused, Enable, Disable,
         Restart, Clear, SetRestart, SetRate, Notify, MonitorPass, SetMonitoring,
         Shutdown, Operation, serviceVars
    <2>4. ASSUME NEW s \in Service, Disable(s) \/ Restart(s) PROVE DisabledIsStopping'
      <3>1. enabled' = enabled \ {s} BY <2>4 DEF Disable, Restart
      <3>2. Len(stack') > 0 /\ Is(Len(stack'), "stop", s)
        BY <2>1, <2>4 DEF LockStackAfter, Is
      <3>3. OnTop(s)' BY <1>2, <3>2
      <3> QED BY <2>2, <2>3, <3>1, <3>3 DEF DisabledIsStopping
    <2>5. CASE enabled \subseteq enabled' BY <2>2, <2>3, <2>5 DEF DisabledIsStopping
    <2>6. enabled \subseteq enabled' \/ \E s \in Service : Disable(s) \/ Restart(s)
      BY <1>4 DEF Lock, AddService, DeleteService, EnableRefused, Enable, Clear,
         SetRestart, SetRate, Notify, MonitorPass, SetMonitoring, Shutdown, serviceVars
    <2> QED BY <2>4, <2>5, <2>6
  <1>5. CASE Environment \/ UNCHANGED vars
    <2>1. UNCHANGED <<enabled, running, stopping, stack>>
      BY <1>5 DEF Environment, vars, serviceVars
    <2> QED BY <2>1 DEF DisabledIsStopping, Top
  <1> QED BY <1>3, <1>4, <1>5 DEF Next

\* Who is satisfied after the step was satisfied before, if nobody came up.
LEMMA NoneCameUp ==
    ASSUME TypeOK, UNCHANGED parents, \A d \in Service : Up(d)' => Up(d)
    PROVE  Satisfied' \subseteq Satisfied
  <1>1. \A t \in Service : \A d \in DependsOn(t) : parents[t][d] \subseteq Service
    BY DependsOnNames DEF TypeOK, GraphTypeOK
  <1> QED BY <1>1 DEF Satisfied, DepsMet

\* Who was satisfied still is, if nobody went down.
LEMMA NoneGoesDown ==
    ASSUME TypeOK, UNCHANGED parents, \A d \in Service : Up(d) => Up(d)'
    PROVE  Satisfied \subseteq Satisfied'
  <1>1. \A t \in Service : \A d \in DependsOn(t) : parents[t][d] \subseteq Service
    BY DependsOnNames DEF TypeOK, GraphTypeOK
  <1> QED BY <1>1 DEF Satisfied, DepsMet

\* What stopRecurse does to the services and to the graph.
LEMMA StopLeaves ==
    ASSUME Step, StopReturns \/ StopBegins \/ SpareChild \/ StopNextChild \/ StopEnds
    PROVE  /\ UNCHANGED <<graphVars, parents, children, services, enabled, failed>>
           /\ ~StopBegins /\ ~StopEnds => UNCHANGED <<running, stopping>>
           /\ StopBegins => /\ running' = running /\ stopping' = stopping \cup {Top.svc}
                            /\ Top.svc \in running \ stopping
           /\ StopEnds => /\ running' = running \ {Top.svc} /\ Top.todo = {}
                          /\ stopping' = stopping \ {Top.svc}
           /\ StopReturns => Top.svc \notin running \ stopping
           /\ Top.kind = IF StopReturns \/ StopBegins THEN "stop" ELSE "stopping"
  BY DEF StopReturns, StopBegins, SpareChild, StopNextChild, StopEnds, graphVars,
         serviceVars

\* Nobody comes up while a cascade goes on, so a dependency that was missed by the
\* canRun test stays missed; and what fails the test and still runs is enabled,
\* has no conflict, and can only have failed it for a dependency.
LEMMA NextCauseHolds ==
    ASSUME TypeOK, Shape, NoConflictEnabled, CInv, [Next]_vars
    PROVE  CauseHolds'
  <1>1. CASE Step /\ Stops(Top)
    <2>0. PICK n \in Nat \ {0} : n = Len(stack) BY <1>1, StopSteps
    <2>1. /\ Top = stack[n] /\ Same(n) /\ StopAfter(n)
          /\ Top.svc \in Service /\ Top.todo \in SUBSET Service
      BY <1>1, <2>0, StopSteps
    <2>2. StopReturns \/ StopBegins \/ SpareChild \/ StopNextChild \/ StopEnds
      BY <2>1 DEF StopAfter
    <2>3. /\ UNCHANGED <<parents, enabled, failed>>
          /\ ~StopBegins /\ ~StopEnds => UNCHANGED <<running, stopping>>
          /\ StopBegins => /\ running' = running /\ stopping' = stopping \cup {Top.svc}
                           /\ Top.svc \in running \ stopping
          /\ StopEnds => /\ running' = running \ {Top.svc}
                         /\ stopping' = stopping \ {Top.svc}
          /\ Top.kind = IF StopReturns \/ StopBegins THEN "stop" ELSE "stopping"
      BY <1>1, <2>2, StopLeaves
    <2>4. \A d \in Service : Up(d)' => Up(d) BY <2>3 DEF Up
    <2>5. Satisfied' \subseteq Satisfied BY <2>3, <2>4, NoneCameUp
    <2> DEFINE Caused(i) ==
                 /\ Stops(stack[i]) /\ stack[i].why = "Unmet dependency"
                 /\ stack[i].svc \in running
                 /\ stack[i].kind = "stop" => stack[i].svc \notin stopping
                 => stack[i].svc \notin Satisfied
    <2>6. \A i \in 1 .. n : Caused(i) BY <2>0 DEF CInv, CauseHolds, Frames
    <2>7. \A i \in 1 .. (n - 1) : stack[i].kind # "stop"
      BY <2>0 DEF Shape, Frames
    <2>8. running' \subseteq running BY <2>3
    <2>9. \A i \in 1 .. (n - 1) : stack'[i] = stack[i] BY <2>1 DEF Same
    <2>10. ASSUME NEW i \in 1 .. (n - 1) PROVE Caused(i)'
      <3>1. i \in 1 .. n BY <2>0
      <3> QED BY <2>5, <2>6, <2>7, <2>8, <2>9, <3>1 DEF Stops
    <2>11. ASSUME Onward(n), Top.kind = "stop" => Top.svc \notin stopping PROVE Caused(n)'
      <3>1. n \in 1 .. n BY <2>0
      <3>2. /\ stack'[n].kind = "stopping" /\ stack'[n].svc = Top.svc
            /\ stack'[n].why = Top.why
        BY <2>11 DEF Onward
      <3> QED BY <1>1, <2>1, <2>5, <2>6, <2>8, <2>11, <3>1, <3>2
    <2> SUFFICES \A i \in 1 .. Len(stack') : Caused(i)'
      BY DEF CauseHolds, Frames
    <2> HIDE DEF Caused
    <2>12. CASE (StopReturns \/ StopEnds) /\ Len(stack') = n - 1
      BY <2>0, <2>1, <2>10, <2>12
    <2>13. CASE StopBegins /\ Len(stack') = n /\ Onward(n)
      <3>1. Caused(n)' BY <2>3, <2>11, <2>13
      <3> QED BY <2>0, <2>1, <2>10, <2>13, <3>1
    <2>14. CASE SpareChild /\ Len(stack') = n /\ Onward(n)
      <3>1. Top.kind = "stopping" BY <2>14 DEF SpareChild
      <3>2. Caused(n)' BY <2>11, <2>14, <3>1
      <3> QED BY <2>0, <2>1, <2>10, <2>14, <3>2
    <2>15. ASSUME NEW c \in Top.todo, StopNextChild, ~canRun(c), Onward(n),
                  Len(stack') = n + 1,
                  stack'[n + 1].kind = "stop", stack'[n + 1].svc = c
           PROVE  \A i \in 1 .. Len(stack') : Caused(i)'
      <3>1. Top.kind = "stopping" BY <2>15 DEF StopNextChild
      <3>2. Caused(n)' BY <2>11, <2>15, <3>1
      <3>3. c \in Service BY <2>0, <2>1, <2>15
      <3>4. running' = running /\ stopping' = stopping BY <2>15 DEF StopNextChild
      <3>5. ASSUME c \in running, c \notin stopping PROVE c \notin Satisfied
        <4>1. c \in enabled BY <3>1, <3>5 DEF CInv, DisabledIsStopping
        <4>2. incompat[c] \cap enabled = {} BY <4>1 DEF NoConflictEnabled
        <4> QED BY <2>15, <3>5, <4>1, <4>2 DEF canRun, Satisfied
      <3>6. Caused(n + 1)' BY <2>5, <2>15, <3>3, <3>4, <3>5 DEF Caused
      <3> QED BY <2>0, <2>1, <2>10, <2>15, <3>2, <3>6
    <2> QED BY <2>0, <2>1, <2>12, <2>13, <2>14, <2>15 DEF StopAfter
  <1>2. CASE NewStop
    BY <1>2 DEF NewStop, CauseHolds, Frames
  <1>3. CASE UNCHANGED <<graphVars, enabled, running, stopping, failed, stack>>
    BY <1>3 DEF CInv, CauseHolds, Frames, Satisfied, DepsMet, Up, graphVars
  <1> QED BY <1>1, <1>2, <1>3, Moves DEF CInv

\* The invariant of the cascade, on top of that of SupervisorProofs.
THEOREM CascadeHolds == Spec => [](IInv /\ CInv)
  <1>1. Init => CInv
    BY DEF Init, CInv, OnlyStopsAbove, LoopsChildren, DisabledIsStopping, CauseHolds,
           Frames
  <1>2. IInv /\ CInv /\ [Next]_vars => CInv'
    BY NextOnlyStops, NextLoopsChildren, NextDisabledIsStopping, NextCauseHolds
    DEF IInv, CInv
  <1> QED BY <1>1, <1>2, InvariantHolds, PTL DEF Spec

\* A cascade only stops what lost its last provider: whoever is stopped for an
\* unmet dependency lacks one at the moment it goes down, whatever has happened
\* since the canRun test in stopRecurse that condemned it.
THEOREM NeedlessStopsExcluded == Spec => NoNeedlessStop
  <1> DEFINE Needed == \A s \in running \ running' :
                         reason'[s] = "Unmet dependency" => ~DepsMet(s)
  <1>1. IInv /\ CInv /\ [Next]_vars => [Needed]_vars
    <2> SUFFICES ASSUME IInv, CInv, [Next]_vars,
                        NEW s \in running \ running', reason'[s] = "Unmet dependency"
                 PROVE  ~DepsMet(s)
      OBVIOUS
    <2>1. TypeOK /\ Shape BY DEF IInv
    <2>2. Step /\ StopEnds
      BY DEF Next, Lock, AddService, DeleteService, EnableRefused, Enable, Disable,
         Restart, Clear, SetRestart, SetRate, Notify, MonitorPass, SetMonitoring,
         Shutdown, Operation, Environment, Step, StartReturns, StartRefused, StartFails,
         StartSucceeds, StartAttempted, StartNextChild, StopReturns, StopBegins,
         SpareChild, StopNextChild, SelfHeal, MonitorVisit, RestartResumes,
         ShutdownVisit, ShutdownRemoves, LoopEnds, vars, serviceVars
    <2>3. /\ Len(stack) \in Nat \ {0} /\ Top = stack[Len(stack)] /\ Top.svc \in Service
      BY <2>1, <2>2, StopSteps DEF StopEnds, Stops
    <2>4. s = Top.svc /\ reason'[s] = Top.why
      BY <2>1, <2>2, <2>3 DEF StopEnds, TypeOK
    <2>5. Top.kind = "stopping" BY <2>2 DEF StopEnds
    <2>6. Len(stack) \in Frames BY <2>3, TopIsFrame
    <2> QED BY <2>3, <2>4, <2>5, <2>6 DEF CInv, CauseHolds, Stops, Satisfied
  <1> QED BY <1>1, CascadeHolds, PTL DEF Spec, NoNeedlessStop

-----------------------------------------------------------------------------
(* The order of stops, where dependencies are not cyclic.                  *)

\* A child of p depends on it, and so has a higher rank.
LEMMA ChildrenAscend ==
    ASSUME TypeOK, GraphInv, GraphIsCanonical, NEW rank, Ranks(rank),
           NEW p \in Service, NEW c \in children[p]
    PROVE  c \in Service /\ rank[p] < rank[c]
  <1>1. c \in Service BY DEF TypeOK, GraphTypeOK
  <1>2. PICK d \in NameSet : p \in parents[c][d]
    BY <1>1 DEF GraphInv, GraphMirrors
  <1>3. c \in services /\ p \in services /\ c # p
    BY <1>1 DEF GraphInv, GraphMirrors
  <1>4. d \in LinkedBy(c, p) BY <1>2, <1>3 DEF GraphIsCanonical
  <1>5. d \in DependsOn(c) /\ Matches(p, d) BY <1>4 DEF LinkedBy, DependsOn
  <1> QED BY <1>1, <1>3, <1>5 DEF Ranks

\* A loop calls stopRecurse for a child of its service.
LEMMA NextCallsAscend ==
    ASSUME TypeOK, Shape, GraphInv, GraphIsCanonical, CInv, [Next]_vars,
           NEW rank \in [Service -> Nat], Ranks(rank), CallsAscend(rank)
    PROVE  CallsAscend(rank)'
  <1>1. CASE Step /\ Stops(Top)
    <2>0. PICK n \in Nat \ {0} : n = Len(stack) BY <1>1, StopSteps
    <2>1. /\ Top = stack[n] /\ Same(n) /\ StopAfter(n)
          /\ Top.svc \in Service /\ Top.todo \in SUBSET Service
      BY <1>1, <2>0, StopSteps
    <2> DEFINE Ascends(i, j) ==
                 i < j /\ stack[i].kind = "stopping" => rank[stack[i].svc] < rank[stack[j].svc]
    <2>2. \A i, j \in 1 .. n : Ascends(i, j) BY <2>0 DEF CallsAscend, Frames
    <2>3. \A i \in 1 .. (n - 1) : stack'[i] = stack[i] BY <2>1 DEF Same
    <2>4. ASSUME NEW i \in 1 .. (n - 1), NEW j \in 1 .. (n - 1) PROVE Ascends(i, j)'
      BY <2>0, <2>2, <2>3, <2>4
    <2>5. ASSUME stack'[n].svc = Top.svc, NEW i \in 1 .. (n - 1) PROVE Ascends(i, n)'
      BY <2>0, <2>1, <2>2, <2>3, <2>5
    <2>6. ASSUME NEW c \in Top.todo, StopNextChild, Onward(n), stack'[n + 1].svc = c,
                 NEW i \in 1 .. n
          PROVE  Ascends(i, n + 1)'
      <3>1. n \in Frames /\ Top.kind = "stopping"
        <4>1. Top.kind = "stopping" BY <2>6 DEF StopNextChild
        <4>2. n \in 1 .. n BY <2>0
        <4> QED BY <2>0, <4>1, <4>2 DEF Frames
      <3>2. c \in children[Top.svc] BY <2>1, <2>6, <3>1 DEF CInv, LoopsChildren
      <3>3. c \in Service /\ rank[Top.svc] < rank[c] BY <2>1, <3>2, ChildrenAscend
      <3>4. CASE i = n BY <2>6, <3>3, <3>4 DEF Onward
      <3>5. CASE i < n
        <4>1. /\ i \in 1 .. (n - 1) /\ i \in 1 .. n /\ n \in 1 .. n BY <2>0, <3>5
        <4>2. ASSUME stack[i].kind = "stopping"
              PROVE  /\ rank[stack[i].svc] < rank[Top.svc]
                     /\ stack[i].svc \in Service
          <5>1. i \in Frames BY <2>0, <4>1 DEF Frames
          <5>2. stack[i].svc \in Service BY <4>2, <5>1 DEF Shape
          <5> QED BY <2>0, <2>1, <2>2, <3>5, <4>1, <4>2, <5>2
        <4>3. stack'[i] = stack[i] BY <2>3, <4>1
        <4>4. rank[Top.svc] \in Nat /\ rank[c] \in Nat BY <2>1, <3>3
        <4>5. stack[i].kind = "stopping" => rank[stack[i].svc] \in Nat BY <4>2
        <4> QED BY <2>6, <3>3, <4>2, <4>3, <4>4, <4>5
      <3> QED BY <3>4, <3>5
    <2>7. \A i, j \in 1 .. (n + 1) : j <= i => Ascends(i, j)' BY <2>0
    <2> SUFFICES \A i, j \in 1 .. Len(stack') : Ascends(i, j)'
      BY DEF CallsAscend, Frames
    <2> HIDE DEF Ascends
    <2>8. CASE Len(stack') = n - 1 BY <2>0, <2>4, <2>8
    <2>9. CASE Len(stack') = n /\ stack'[n].svc = Top.svc
      BY <2>0, <2>4, <2>5, <2>7, <2>9
    <2>10. ASSUME NEW c \in Top.todo, StopNextChild, Onward(n), stack'[n + 1].svc = c,
                  Len(stack') = n + 1
           PROVE  \A i, j \in 1 .. Len(stack') : Ascends(i, j)'
      <3>1. \A i \in 1 .. n : Ascends(i, n + 1)' BY <2>6, <2>10
      <3>2. \A i \in 1 .. (n - 1) : Ascends(i, n)' BY <2>5, <2>10 DEF Onward
      <3> QED BY <2>0, <2>4, <2>7, <2>10, <3>1, <3>2
    <2> QED BY <2>0, <2>1, <2>8, <2>9, <2>10 DEF StopAfter, Onward
  <1>2. CASE NewStop
    <2>1. \A i \in 1 .. Len(stack') : stack'[i].kind # "stopping"
      BY <1>2 DEF NewStop, Stops, Frames
    <2> QED BY <2>1 DEF CallsAscend, Frames
  <1>3. CASE UNCHANGED <<graphVars, enabled, running, stopping, failed, stack>>
    BY <1>3 DEF CallsAscend, Frames
  <1> QED BY <1>1, <1>2, <1>3, Moves DEF CInv

\* A stop that begins takes a dependency from its children alone, and its loop
\* will visit them; one that ends takes nothing more, since a stopping service
\* satisfied nobody; a child that is spared has what it needs.
LEMMA NextVisitedIsSound ==
    ASSUME TypeOK, Shape, GraphInv, StoppingIsCalled, CInv, VisitedIsSound, [Next]_vars
    PROVE  VisitedIsSound'
  <1>1. CASE Step /\ Stops(Top)
    <2>0. PICK n \in Nat \ {0} : n = Len(stack) BY <1>1, StopSteps
    <2>1. /\ Top = stack[n] /\ Same(n) /\ StopAfter(n)
          /\ Top.svc \in Service /\ Top.todo \in SUBSET Service
      BY <1>1, <2>0, StopSteps
    <2>2. StopReturns \/ StopBegins \/ SpareChild \/ StopNextChild \/ StopEnds
      BY <2>1 DEF StopAfter
    <2>3. /\ UNCHANGED <<children, parents, enabled, failed>>
          /\ ~StopBegins /\ ~StopEnds => UNCHANGED <<running, stopping>>
          /\ StopBegins => /\ running' = running /\ stopping' = stopping \cup {Top.svc}
                           /\ Top.svc \in running \ stopping
          /\ StopEnds => /\ running' = running \ {Top.svc} /\ Top.todo = {}
                         /\ stopping' = stopping \ {Top.svc}
          /\ StopReturns => Top.svc \notin running \ stopping
          /\ Top.kind = IF StopReturns \/ StopBegins THEN "stop" ELSE "stopping"
      BY <1>1, <2>2, StopLeaves DEF graphVars
    <2> DEFINE Answered(j, c) ==
                 c \in Satisfied \/ \E i \in Frames : i > j /\ Dooms(i, c)
               Visited(j) ==
                 stack[j].kind = "stopping" =>
                   \A c \in (children[stack[j].svc] \ stack[j].todo)
                              \cap (running \ stopping) : Answered(j, c)
    <2>4. \A j \in 1 .. n : Visited(j) BY <2>0 DEF VisitedIsSound, Frames
    <2>5. \A i \in 1 .. (n - 1) : stack'[i] = stack[i] BY <2>1 DEF Same
    <2>6. \A i \in 1 .. (n - 1) : stack[i].kind # "stop"
      BY <2>0 DEF Shape, Frames
    <2> SUFFICES \A j \in 1 .. Len(stack') : Visited(j)'
      BY DEF VisitedIsSound, Frames
    \* Below the top, a loop's answer is still good, or the step gives another.
    <2>7. ASSUME NEW j \in 1 .. (n - 1), Len(stack') >= n - 1,
                 (running \ stopping)' \subseteq running \ stopping,
                 \A c \in (running \ stopping)' :
                    c \in Satisfied \/ Dooms(n, c) =>
                      c \in Satisfied' \/ \E i \in Frames' : i >= n /\ Dooms(i, c)'
          PROVE  Visited(j)'
      <3> SUFFICES ASSUME stack'[j].kind = "stopping",
                          NEW c \in ((children[stack[j].svc] \ stack[j].todo)
                                       \cap (running \ stopping))'
                   PROVE  Answered(j, c)'
        OBVIOUS
      <3>1. stack'[j] = stack[j] /\ j \in 1 .. n BY <2>0, <2>5
      <3>2. c \in (running \ stopping)' /\ c \in running \ stopping BY <2>7
      <3>3. Answered(j, c) BY <2>3, <2>4, <3>1, <3>2
      <3>4. ASSUME NEW i \in 1 .. (n - 1), Dooms(i, c) PROVE Dooms(i, c)'
        BY <2>5, <2>6, <3>4 DEF Dooms
      <3>5. ASSUME NEW i \in Frames, i > j, Dooms(i, c), i # n PROVE Answered(j, c)'
        <4>1. i \in 1 .. (n - 1) /\ i \in Frames'
          BY <2>0, <2>7, <3>5, NextType DEF Frames, TypeOK
        <4> QED BY <3>4, <3>5, <4>1
      <3>6. CASE c \in Satisfied \/ Dooms(n, c)
        <4>1. c \in Satisfied' \/ \E i \in Frames' : i >= n /\ Dooms(i, c)'
          BY <2>7, <3>2, <3>6
        <4>2. \A i \in Frames' : i >= n => i > j BY <2>0 DEF Frames
        <4> QED BY <4>1, <4>2
      <3> QED BY <3>3, <3>5, <3>6
    <2>8. CASE StopReturns /\ Len(stack') = n - 1
      <3>1. /\ UNCHANGED <<running, stopping>> /\ Top.svc \notin running \ stopping
            /\ Top.kind = "stop"
        BY <2>8 DEF StopReturns, serviceVars
      <3>2. Satisfied \subseteq Satisfied' BY <2>3, <3>1, NoneGoesDown DEF Up
      <3>3. \A c : ~Dooms(n, c) BY <2>1, <3>1 DEF Dooms
      <3>4. \A j \in 1 .. (n - 1) : Visited(j)' BY <2>0, <2>7, <2>8, <3>1, <3>2, <3>3
      <3> QED BY <2>8, <3>4
    <2>9. CASE StopEnds /\ Len(stack') = n - 1
      <3>1. /\ running' = running \ {Top.svc} /\ stopping' = stopping \ {Top.svc}
            /\ Top.kind = "stopping" /\ Top.todo = {}
        BY <2>9 DEF StopEnds
      <3>2. n \in Frames BY <2>0, TopIsFrame
      <3>3. Top.svc \in stopping BY <2>1, <3>1, <3>2 DEF StoppingIsCalled
      <3>4. Satisfied \subseteq Satisfied' BY <2>3, <3>1, <3>3, NoneGoesDown DEF Up
      <3>5. \A c : ~Dooms(n, c) BY <2>1, <3>1 DEF Dooms
      <3>6. \A j \in 1 .. (n - 1) : Visited(j)'
        BY <2>0, <2>7, <2>9, <3>1, <3>4, <3>5
      <3> QED BY <2>9, <3>6
    <2>10. CASE StopBegins /\ Len(stack') = n /\ Onward(n)
                /\ stack'[n].todo = children[Top.svc]
      <3>1. /\ running' = running /\ stopping' = stopping \cup {Top.svc}
            /\ Top.kind = "stop"
        BY <2>10 DEF StopBegins
      <3>2. n \in Frames' BY <2>0, <2>10, TopIsFrame DEF Frames
      <3>3. \A c : c \in children[Top.svc] => Dooms(n, c)'
        BY <2>10 DEF Dooms, Onward
      <3>4. \A c \in (running \ stopping)' : Dooms(n, c) => Dooms(n, c)'
        BY <2>1, <3>1, <3>3 DEF Dooms
      <3>5. ASSUME NEW c \in (running \ stopping)', c \in Satisfied
            PROVE  c \in Satisfied' \/ Dooms(n, c)'
        <4>1. CASE c \in children[Top.svc] BY <3>3, <4>1
        <4>2. CASE c \notin children[Top.svc]
          <5>1. c \in Service /\ DepsMet(c) BY <3>5 DEF Satisfied
          <5>2. \A d \in DependsOn(c) : parents[c][d] \subseteq Service \ {Top.svc}
            <6>1. \A d \in NameSet : Top.svc \notin parents[c][d]
              BY <2>1, <4>2, <5>1 DEF GraphInv, GraphMirrors
            <6> QED BY <5>1, <6>1, DependsOnNames DEF TypeOK, GraphTypeOK
          <5>3. \A d \in Service \ {Top.svc} : Up(d) => Up(d)' BY <2>3, <3>1 DEF Up
          <5>4. parents' = parents BY <2>3
          <5> QED BY <5>1, <5>2, <5>3, <5>4 DEF Satisfied, DepsMet
        <4> QED BY <4>1, <4>2
      <3>6. \A j \in 1 .. (n - 1) : Visited(j)'
        BY <2>0, <2>7, <2>10, <3>1, <3>2, <3>4, <3>5
      <3>7. Visited(n)' BY <2>3, <2>10 DEF Onward
      <3> QED BY <2>0, <2>10, <3>6, <3>7
    <2>11. ASSUME NEW c0 \in Top.todo, SpareChild, Len(stack') = n, canRun(c0),
                  Onward(n), stack'[n].todo = Top.todo \ {c0}
           PROVE  \A j \in 1 .. Len(stack') : Visited(j)'
      <3>1. UNCHANGED <<running, stopping>> /\ Top.kind = "stopping"
        BY <2>11 DEF SpareChild, serviceVars
      <3>2. Satisfied \subseteq Satisfied' BY <2>3, <3>1, NoneGoesDown DEF Up
      <3>3. n \in Frames' BY <2>0, <2>11, TopIsFrame DEF Frames
      <3>4. c0 \in Satisfied BY <2>1, <2>11 DEF canRun, Satisfied
      <3>5. \A c : Dooms(n, c) /\ c # c0 => Dooms(n, c)'
        BY <2>1, <2>11, <3>1 DEF Dooms, Onward
      <3>6. \A j \in 1 .. (n - 1) : Visited(j)'
        BY <2>0, <2>7, <2>11, <3>1, <3>2, <3>3, <3>4, <3>5
      <3>7. Visited(n)'
        <4> SUFFICES ASSUME NEW c \in ((children[stack[n].svc] \ stack[n].todo)
                                       \cap (running \ stopping))', c # c0
                     PROVE  c \in Satisfied'
          BY <3>2, <3>4
        <4>1. c \in (children[Top.svc] \ Top.todo) \cap (running \ stopping)
          BY <2>3, <2>11, <3>1 DEF Onward
        <4>2. n \in 1 .. n BY <2>0
        <4>3. Answered(n, c) BY <2>1, <2>4, <3>1, <4>1, <4>2
        <4>4. \A i \in Frames : ~(i > n) BY <2>0 DEF Frames
        <4> QED BY <3>2, <4>3, <4>4
      <3> QED BY <2>0, <2>11, <3>6, <3>7
    <2>12. ASSUME NEW c0 \in Top.todo, StopNextChild, Len(stack') = n + 1,
                  Onward(n), stack'[n].todo = Top.todo \ {c0},
                  stack'[n + 1].kind = "stop", stack'[n + 1].svc = c0
           PROVE  \A j \in 1 .. Len(stack') : Visited(j)'
      <3>1. UNCHANGED <<running, stopping>> /\ Top.kind = "stopping"
        BY <2>12 DEF StopNextChild
      <3>2. Satisfied \subseteq Satisfied' BY <2>3, <3>1, NoneGoesDown DEF Up
      <3>3. n \in Frames' /\ n + 1 \in Frames' BY <2>0, <2>12 DEF Frames
      <3>4. c0 \in running \ stopping => Dooms(n + 1, c0)'
        BY <2>12, <3>1 DEF Dooms
      <3>5. \A c : Dooms(n, c) /\ c # c0 => Dooms(n, c)'
        BY <2>1, <2>12, <3>1 DEF Dooms, Onward
      <3>6. \A j \in 1 .. (n - 1) : Visited(j)'
        BY <2>0, <2>7, <2>12, <3>1, <3>2, <3>3, <3>4, <3>5
      <3>7. Visited(n)'
        <4> SUFFICES ASSUME NEW c \in ((children[stack[n].svc] \ stack[n].todo)
                                       \cap (running \ stopping))'
                     PROVE  Answered(n, c)'
          OBVIOUS
        <4>1. CASE c = c0
          <5>1. n + 1 > n BY <2>0
          <5> QED BY <3>1, <3>3, <3>4, <4>1, <5>1
        <4>2. CASE c # c0
          <5>1. c \in (children[Top.svc] \ Top.todo) \cap (running \ stopping)
            BY <2>3, <2>12, <3>1, <4>2 DEF Onward
          <5>2. n \in 1 .. n BY <2>0
          <5>3. Answered(n, c) BY <2>1, <2>4, <3>1, <5>1, <5>2
          <5>4. \A i \in Frames : ~(i > n) BY <2>0 DEF Frames
          <5> QED BY <3>2, <5>3, <5>4
        <4> QED BY <4>1, <4>2
      <3>8. Visited(n + 1)' BY <2>12
      <3> QED BY <2>0, <2>12, <3>6, <3>7, <3>8
    <2> HIDE DEF Visited
    <2> QED BY <2>1, <2>8, <2>9, <2>10, <2>11, <2>12 DEF StopAfter
  <1>2. CASE NewStop
    <2>1. \A i \in 1 .. Len(stack') : stack'[i].kind # "stopping"
      BY <1>2 DEF NewStop, Stops, Frames
    <2> QED BY <2>1 DEF VisitedIsSound, Frames
  <1>3. CASE UNCHANGED <<graphVars, enabled, running, stopping, failed, stack>>
    BY <1>3 DEF VisitedIsSound, Dooms, Frames, Satisfied, DepsMet, Up, graphVars
  <1> QED BY <1>1, <1>2, <1>3, Moves DEF CInv

\* The provider of a service is stopped when its loop is done.  A child that still
\* runs then is not being stopped itself, since it would be further up the ranks
\* and further down the stack at once; so it has been visited and is sound, and
\* another provider, which is not stopping, satisfies it.
LEMMA NextStopOrder ==
    ASSUME IInv, CInv, GraphIsCanonical, VisitedIsSound, StopOrder, [Next]_vars,
           NEW rank \in [Service -> Nat], Ranks(rank), CallsAscend(rank)
    PROVE  StopOrder'
  <1>1. TypeOK /\ Shape /\ GraphInv /\ Pending /\ StoppingIsCalled /\ Supported
    BY DEF IInv
  <1>2. CASE UNCHANGED <<parents, running>>
    BY <1>2 DEF StopOrder
  <1>3. CASE Step /\ StartSucceeds
    <2>1. /\ running' = running \cup {Top.svc} /\ parents' = parents /\ canRun(Top.svc)
      BY <1>3 DEF StartSucceeds, StartAttempted, graphVars
    <2> QED BY <2>1 DEF StopOrder, canRun, DepsMet, Up
  <1>4. CASE Step /\ StopEnds
    <2>0. PICK n \in Nat \ {0} : n = Len(stack) /\ Top = stack[n] /\ Top.svc \in Service
      BY <1>1, <1>4, StopSteps DEF StopEnds, Stops
    <2> DEFINE p == Top.svc
    <2>1. /\ running' = running \ {p} /\ parents' = parents
          /\ Top.kind = "stopping" /\ Top.todo = {}
      BY <1>4 DEF StopEnds, graphVars
    <2>2. n \in Frames /\ \A i \in Frames : ~(i > n) /\ (i = n \/ i < n)
      BY <2>0 DEF Frames
    <2>3. p \in stopping BY <1>1, <2>0, <2>1, <2>2 DEF StoppingIsCalled
    <2>4. ASSUME NEW t \in running', NEW d \in DependsOn(t), p \in parents[t][d]
          PROVE  \E q \in parents[t][d] : q \in running'
      <3>1. t \in Service /\ t # p /\ t \in running BY <1>1, <2>1, <2>4 DEF TypeOK
      <3>2. t \in children[p]
        BY <1>1, <2>0, <2>4, <3>1, DependsOnNames DEF GraphInv, GraphMirrors
      <3>3. rank[p] < rank[t] BY <1>1, <2>0, <3>2, ChildrenAscend
      <3>4. ASSUME t \in stopping PROVE FALSE
        <4>1. PICK i \in Frames : stack[i].kind = "stopping" /\ stack[i].svc = t
          BY <1>1, <3>4 DEF StoppingIsCalled
        <4>2. i < n BY <2>0, <2>2, <3>1, <4>1
        <4>3. rank[t] < rank[p] BY <2>0, <2>2, <4>1, <4>2 DEF CallsAscend
        <4>4. rank[t] \in Nat /\ rank[p] \in Nat BY <2>0, <3>1
        <4> QED BY <3>3, <4>3, <4>4
      <3>5. t \in Satisfied
        BY <2>0, <2>1, <2>2, <3>1, <3>2, <3>4 DEF VisitedIsSound
      <3>6. PICK q \in parents[t][d] : Up(q) BY <2>4, <3>5 DEF Satisfied, DepsMet
      <3> QED BY <2>1, <2>3, <3>6 DEF Up
    <2> QED BY <2>1, <2>4 DEF StopOrder
  \* Where the graph changes, all that runs is sound, and stays so.
  <1>5. ASSUME NEW s \in Service, stopping = {}, \A t \in running : Sound(t),
               UNCHANGED <<enabled, running, stopping, failed>>,
               \/ s \notin enabled /\ delManager(s)
               \/ s \notin services /\ setManager(s)
        PROVE  StopOrder'
    <2>1. ASSUME NEW t \in running' PROVE Sound(t)'
      <3>1. t \in running /\ t \in Service BY <1>1, <1>5, <2>1 DEF TypeOK
      <3>2. Sound(t) /\ t # s BY <1>5, <3>1 DEF Sound
      <3>3. CASE s \notin enabled /\ delManager(s)
        BY <1>1, <1>5, <3>1, <3>2, <3>3, RemovalKeepsSound
      <3>4. CASE s \notin services /\ setManager(s)
        BY <1>1, <1>5, <3>1, <3>2, <3>4, AdditionKeepsSound
      <3> QED BY <1>5, <3>3, <3>4
    <2> QED BY <2>1 DEF StopOrder, Sound, DepsMet, Up
  <1>6. ASSUME Idle PROVE stopping = {} /\ \A t \in running : Sound(t)
    BY <1>1, <1>6, IdleStopping DEF Supported, TypeOK
  <1>7. ASSUME NEW s \in Service, AddService(s) PROVE StopOrder'
    BY <1>5, <1>6, <1>7 DEF AddService, NameIsFree
  <1>8. ASSUME NEW s \in Service, DeleteService(s) PROVE StopOrder'
    BY <1>5, <1>6, <1>8 DEF DeleteService
  <1>9. CASE Step /\ ShutdownRemoves
    <2>1. ~Idle /\ Top.kind = "remove" /\ delManager(Top.svc)
          /\ UNCHANGED <<enabled, running, stopping, failed>>
      BY <1>9 DEF Step, ShutdownRemoves
    <2>2. stopping = {} /\ \A t \in running : Sound(t) BY <1>1, <2>1, NoCallBelow
    <2>3. /\ Len(stack) \in Nat \ {0} /\ Top = stack[Len(stack)] /\ Top.svc \in Service
      BY <1>1, <2>1, TopFacts
    <2>4. Top.svc \notin enabled BY <1>1, <2>1, <2>3, TopIsFrame DEF Pending
    <2> QED BY <1>5, <2>1, <2>2, <2>3, <2>4
  <1>10. CASE Step
    BY <1>2, <1>3, <1>4, <1>9, <1>10 DEF Step, StartReturns, StartRefused, StartFails,
       StartAttempted, StartNextChild, StopReturns, StopBegins, SpareChild,
       StopNextChild, SelfHeal, MonitorVisit, RestartResumes, ShutdownVisit, LoopEnds,
       serviceVars, graphVars
  <1>11. CASE Lock
    BY <1>2, <1>7, <1>8, <1>11 DEF Lock, EnableRefused, Enable, Disable, Restart, Clear,
       SetRestart, SetRate, Notify, MonitorPass, SetMonitoring, Shutdown, Operation,
       serviceVars, graphVars
  <1>12. CASE Environment \/ UNCHANGED vars
    BY <1>2, <1>12 DEF Environment, vars, serviceVars, graphVars
  <1> QED BY <1>10, <1>11, <1>12 DEF Next

\* If the dependencies are not cyclic, that is, if some rank of the services has
\* every one of them go downwards, then whoever is stopped outlives its
\* dependents: at every moment of every cascade each provider that a running
\* service needs still runs (stopRecurse stops the children first).
THEOREM StopsInOrder ==
    ASSUME NEW rank \in [Service -> Nat], Ranks(rank)
    PROVE  Spec => []StopOrder
  <1> DEFINE SInv == VisitedIsSound /\ CallsAscend(rank) /\ StopOrder
  <1>1. Init => SInv
    BY DEF Init, VisitedIsSound, CallsAscend, StopOrder, Frames
  <1>2. IInv /\ CInv /\ GraphIsCanonical /\ SInv /\ [Next]_vars => SInv'
    BY NextVisitedIsSound, NextCallsAscend, NextStopOrder DEF IInv
  <1>3. SInv => StopOrder OBVIOUS
  <1> HIDE DEF SInv
  <1> QED BY <1>1, <1>2, <1>3, CascadeHolds, GraphCanonical, PTL DEF Spec

-----------------------------------------------------------------------------
(* Who has still to be started.                                            *)

\* A service that is stopped for anything but an unmet dependency is disabled or
\* has failed.
StopHasReason ==
    \A i \in Frames : Stops(stack[i]) =>
        \/ stack[i].why = "Unmet dependency"
        \/ stack[i].svc \notin enabled \/ stack[i].svc \in failed

\* A service that is being restarted is disabled, and has its new serial.
RestartIsPending ==
    \A i \in Frames : stack[i].kind = "restart" =>
        stack[i].svc \notin enabled /\ stack[i].svc \in bumped

\* The services that could run and do not, and that nothing holds back: what
\* NoneLeftBehind promises of them leaves out the conflicts, which no enabled
\* service has.
Owed == (enabled \cap Satisfied) \ (stopping \cup running \cup failed \cup rateLog)

\* The services that a startRecurse in progress is going to visit.
Awaited ==
    {s \in Service : \E i \in Frames :
        \/ stack[i].kind = "start" /\ stack[i].svc = s
        \/ stack[i].kind = "starting" /\ s \in stack[i].todo}

StartsAwaited == Owed \subseteq Awaited

\* What is owed to the services, and what it takes to keep it.
AInv == stopping \subseteq running /\ StopHasReason /\ RestartIsPending /\ StartsAwaited

\* The call on top is going to visit these.
Visiting ==
    {s \in Service : \/ Top.kind = "start" /\ Top.svc = s
                     \/ Top.kind = "starting" /\ s \in Top.todo}

\* Only what runs is stopped.
LEMMA NextStoppingRuns ==
    ASSUME stopping \subseteq running, [Next]_vars
    PROVE  stopping' \subseteq running'
  <1>1. CASE Step
    BY <1>1 DEF Step, StartReturns, StartRefused, StartFails, StartSucceeds,
       StartAttempted, StartNextChild, StopReturns, StopBegins, SpareChild,
       StopNextChild, StopEnds, SelfHeal, MonitorVisit, RestartResumes, ShutdownVisit,
       ShutdownRemoves, LoopEnds, serviceVars
  <1>2. CASE Lock
    BY <1>2 DEF Lock, AddService, DeleteService, EnableRefused, Enable, Disable,
       Restart, Clear, SetRestart, SetRate, Notify, MonitorPass, SetMonitoring,
       Shutdown, Operation, serviceVars
  <1>3. CASE Environment \/ UNCHANGED vars
    BY <1>3 DEF Environment, vars, serviceVars
  <1> QED BY <1>1, <1>2, <1>3 DEF Next

\* A cascade calls stopRecurse for unmet dependencies; whoever else calls it has
\* taken the service's enabled flag or has seen it fail, and neither changes while
\* the cascade goes on.
LEMMA NextStopHasReason ==
    ASSUME TypeOK, Shape, OnlyStopsAbove, StopHasReason, [Next]_vars
    PROVE  StopHasReason'
  <1>1. CASE Step /\ Stops(Top)
    <2>0. PICK n \in Nat \ {0} : n = Len(stack) BY <1>1, StopSteps
    <2>1. /\ Top = stack[n] /\ Same(n) /\ StopAfter(n) BY <1>1, <2>0, StopSteps
    <2>2. StopReturns \/ StopBegins \/ SpareChild \/ StopNextChild \/ StopEnds
      BY <2>1 DEF StopAfter
    <2>3. UNCHANGED <<enabled, failed>> BY <1>1, <2>2, StopLeaves
    <2> DEFINE Reasoned(i) ==
                 Stops(stack[i]) =>
                   \/ stack[i].why = "Unmet dependency"
                   \/ stack[i].svc \notin enabled \/ stack[i].svc \in failed
    <2>4. \A i \in 1 .. n : Reasoned(i) BY <2>0 DEF StopHasReason, Frames
    <2>5. ASSUME NEW i \in 1 .. (n - 1) PROVE Reasoned(i)'
      <3>1. i \in 1 .. n /\ stack'[i] = stack[i] BY <2>0, <2>1 DEF Same
      <3> QED BY <2>3, <2>4, <3>1
    <2>6. ASSUME Onward(n) PROVE Reasoned(n)'
      <3>1. n \in 1 .. n BY <2>0
      <3> QED BY <1>1, <2>1, <2>3, <2>4, <2>6, <3>1 DEF Onward
    <2>7. stack'[n + 1].why = "Unmet dependency" => Reasoned(n + 1)' OBVIOUS
    <2> HIDE DEF Reasoned
    <2>8. \/ Len(stack') = n - 1
          \/ Len(stack') = n /\ Reasoned(n)'
          \/ Len(stack') = n + 1 /\ Reasoned(n)' /\ Reasoned(n + 1)'
      BY <2>1, <2>6, <2>7 DEF StopAfter
    <2>9. \A i \in 1 .. Len(stack') : Reasoned(i)' BY <2>0, <2>5, <2>8
    <2> QED BY <2>9 DEF StopHasReason, Frames, Reasoned
  <1>2. CASE NewStop
    BY <1>2 DEF NewStop, StopHasReason
  <1>3. CASE UNCHANGED <<graphVars, enabled, running, stopping, failed, stack>>
    BY <1>3 DEF StopHasReason, Frames
  <1> QED BY <1>1, <1>2, <1>3, Moves

\* Serials are only added while the lock is held.
LEMMA StepBumps ==
    ASSUME Step
    PROVE  bumped \subseteq bumped'
  BY DEF Step, StartReturns, StartRefused, StartFails, StartSucceeds, StartAttempted,
     StartNextChild, StopReturns, StopBegins, SpareChild, StopNextChild, StopEnds,
     NoteUnmet, SelfHeal, MonitorVisit, CheckService, RestartResumes, ShutdownVisit,
     ShutdownRemoves, LoopEnds, serviceVars

LEMMA NextRestartIsPending ==
    ASSUME TypeOK, Shape, RestartIsPending, [Next]_vars
    PROVE  RestartIsPending'
  <1>1. CASE Step /\ RestartResumes
    <2>1. Len(stack') = 1 /\ stack'[1].kind = "start" BY <1>1, StepEnabled
    <2> QED BY <2>1 DEF RestartIsPending, Frames
  <1>2. CASE Step /\ ~RestartResumes
    <2>1. enabled' \in SUBSET enabled BY <1>2, StepEnabled
    <2>2. bumped \subseteq bumped' BY <1>2, StepBumps
    <2> SUFFICES ASSUME NEW i \in Frames', stack'[i].kind = "restart"
                 PROVE  stack'[i].svc \notin enabled' /\ stack'[i].svc \in bumped'
      BY DEF RestartIsPending
    <2>3. i \in Frames /\ stack[i].kind = "restart" /\ stack[i].svc = stack'[i].svc
      BY <1>2, StepPendingFrames
    <2> QED BY <2>1, <2>2, <2>3 DEF RestartIsPending
  <1>3. CASE Lock
    <2>1. LockStackAfter BY <1>3, LockStack
    <2> SUFFICES ASSUME NEW i \in 1 .. Len(stack'), stack'[i].kind = "restart"
                 PROVE  stack'[i].svc \notin enabled' /\ stack'[i].svc \in bumped'
      BY DEF RestartIsPending, Frames
    <2>2. CASE MonitorPass \/ SetMonitoring \/ Shutdown
      BY <2>1, <2>2 DEF LockStackAfter, Is
    <2>3. ASSUME NEW s \in Service,
                 \/ AddService(s) \/ DeleteService(s) \/ EnableRefused(s) \/ Enable(s)
                 \/ Disable(s) \/ Clear(s) \/ SetRestart(s) \/ SetRate(s) \/ Notify(s)
          PROVE  FALSE
      <3>1. \/ Len(stack') = 0
            \/ Len(stack') = 1 /\ stack'[1].kind \in {"start", "stop", "heal"}
            \/ Len(stack') = 2 /\ stack'[1].kind = "heal" /\ stack'[2].kind = "stop"
        BY <2>1, <2>3 DEF LockStackAfter, Is
      <3> QED BY <3>1
    <2>4. ASSUME NEW s \in Service, Restart(s)
          PROVE  stack'[i].svc \notin enabled' /\ stack'[i].svc \in bumped'
      <3>1. Len(stack') = 2 /\ Is(1, "restart", s) /\ Is(2, "stop", s)
        BY <2>1, <2>4 DEF LockStackAfter
      <3>2. stack'[i].svc = s BY <3>1 DEF Is
      <3>3. enabled' = enabled \ {s} /\ bumped' = {s} BY <2>4 DEF Restart, Operation
      <3> QED BY <3>2, <3>3
    <2> QED BY <1>3, <2>2, <2>3, <2>4 DEF Lock
  <1>4. CASE Environment \/ UNCHANGED vars
    <2>1. UNCHANGED <<enabled, bumped, stack>> BY <1>4 DEF Environment, vars, serviceVars
    <2> QED BY <2>1 DEF RestartIsPending, Frames
  <1> QED BY <1>1, <1>2, <1>3, <1>4 DEF Next

\* Who is satisfied after the step was satisfied before, the members of X aside, if
\* nobody came up and the others gained no parent but disabled ones.
LEMMA FewerSatisfied ==
    ASSUME TypeOK, NEW X,
           \A d \in Service : Up(d)' => Up(d),
           \A t \in Service \ X : \A d \in NameSet : \A p \in parents'[t][d] :
              p \in parents[t][d] \/ p \notin enabled'
    PROVE  Satisfied' \ X \subseteq Satisfied
  <1> SUFFICES ASSUME NEW t \in Service \ X, DepsMet(t)' PROVE DepsMet(t)
    BY DEF Satisfied
  <1>1. ASSUME NEW d \in DependsOn(t) PROVE \E p \in parents[t][d] : Up(p)
    <2>1. d \in NameSet /\ parents[t][d] \subseteq Service
      BY DependsOnNames DEF TypeOK, GraphTypeOK
    <2>2. PICK p \in parents'[t][d] : Up(p)' BY DEF DepsMet
    <2>3. p \in parents[t][d] BY <2>1, <2>2 DEF Up
    <2> QED BY <2>1, <2>2, <2>3
  <1> QED BY <1>1 DEF DepsMet

\* A member that goes takes its links with it, and gives nobody any.
LEMMA RemovalAddsNone ==
    ASSUME TypeOK, NEW s \in Service, delManager(s),
           UNCHANGED <<enabled, running, stopping, failed>>
    PROVE  Satisfied' \subseteq Satisfied
  <1>1. \A d \in Service : Up(d)' => Up(d) BY DEF Up
  <1>2. \A t \in Service : \A d \in NameSet : parents'[t][d] \subseteq parents[t][d]
    <2>1. CASE s \notin services BY <2>1 DEF delManager, graphVars
    <2>2. CASE s \in services
      BY <2>2 DEF delManager, NoLinks
    <2> QED BY <2>1, <2>2
  <1>3. Satisfied' \ {} \subseteq Satisfied BY <1>1, <1>2, FewerSatisfied
  <1> QED BY <1>3

\* The calls below the top stay as they are.
LEMMA AwaitedBelow ==
    ASSUME TypeOK, Shape, Step
    PROVE  Awaited \ Visiting \subseteq Awaited'
  <1> SUFFICES ASSUME NEW t \in Awaited, t \notin Visiting PROVE t \in Awaited'
    OBVIOUS
  <1> DEFINE n == Len(stack)
  <1>1. ~Idle BY DEF Step
  <1>2. n \in Nat \ {0} /\ Top = stack[n] BY <1>1, TopFacts
  <1>3. StackAfter(n) BY StepStack
  <1>4. \A i \in 1 .. (n - 1) : i \in Frames' /\ stack'[i] = stack[i]
    BY <1>2, <1>3 DEF StackAfter, Frames
  <1>5. PICK i \in Frames : \/ stack[i].kind = "start" /\ stack[i].svc = t
                            \/ stack[i].kind = "starting" /\ t \in stack[i].todo
    BY DEF Awaited
  <1>6. t \in Service BY DEF Awaited
  <1>7. i # n BY <1>2, <1>5, <1>6 DEF Visiting
  <1>8. i \in 1 .. (n - 1) BY <1>2, <1>7 DEF Frames
  <1> QED BY <1>4, <1>5, <1>6, <1>8 DEF Awaited

\* Whatever a step leaves undone that was not on its way is still awaited: a start
\* that succeeds calls the children it may have satisfied, a stop that ends leaves
\* a service that cannot run or has failed, and a restart starts what it enables.
LEMMA StepStartsAwaited ==
    ASSUME TypeOK, Shape, GraphInv, NoConflictEnabled, StoppingIsCalled,
           DisabledIsStopping, CauseHolds, AInv, Step
    PROVE  StartsAwaited'
  <1>0. PICK n \in Nat \ {0} : n = Len(stack) /\ Top = stack[n] /\ n \in Frames
    <2>1. ~Idle BY DEF Step
    <2> QED BY <2>1, TopFacts DEF Frames
  <1>1. /\ Top.todo \in SUBSET Service
        /\ Top.kind \notin {"monitor", "shutdown"} => Top.svc \in Service
    <2>1. ~Idle BY DEF Step
    <2> QED BY <2>1, TopFacts
  <1>2. StackAfter(n) BY <1>0, StepStack
  <1>3. Awaited \ Visiting \subseteq Awaited' BY AwaitedBelow
  <1>4. Owed \subseteq Awaited /\ Owed \subseteq Service
    BY DEF AInv, StartsAwaited, Owed, Satisfied
  <1>5. ASSUME Owed' \subseteq (Owed \ Visiting) \cup Awaited' PROVE StartsAwaited'
    BY <1>3, <1>4, <1>5 DEF StartsAwaited
  <1>6. Top.kind \notin {"start", "starting"} => Visiting = {} BY DEF Visiting
  <1>7. Top.kind = "start" => Visiting = {Top.svc} BY <1>1 DEF Visiting
  <1>8. ASSUME UNCHANGED parents, \A d \in Service : Up(d)' => Up(d)
        PROVE  Satisfied' \subseteq Satisfied
    BY <1>8, NoneCameUp
  <1>9. ASSUME UNCHANGED <<parents, enabled, running, stopping, failed, rateLog>>
        PROVE  Owed' = Owed
    BY <1>9 DEF Owed, Satisfied, DepsMet, Up
  <1>10. CASE StartReturns
    <2>1. /\ UNCHANGED <<parents, enabled, running, stopping, failed, rateLog>>
          /\ Top.kind = "start"
          /\ Top.svc \in running \/ ~canRun(Top.svc)
      BY <1>10 DEF StartReturns, graphVars
    <2>2. Top.svc \notin Owed
      BY <2>1 DEF Owed, Satisfied, canRun, NoConflictEnabled
    <2> QED BY <1>5, <1>7, <1>9, <2>1, <2>2
  <1>11. CASE StartRefused
    <2>1. /\ UNCHANGED <<parents, enabled, running, stopping, failed>>
          /\ Top.kind = "start" /\ rateLog' = rateLog \cup {Top.svc}
      BY <1>11 DEF StartRefused, graphVars
    <2>2. Satisfied' \subseteq Satisfied BY <1>8, <2>1 DEF Up
    <2>3. Owed' \subseteq Owed \ {Top.svc} BY <2>1, <2>2 DEF Owed
    <2> QED BY <1>5, <1>7, <2>1, <2>3
  <1>12. CASE StartFails
    <2>1. /\ UNCHANGED <<parents, enabled, running, stopping>>
          /\ Top.kind = "start" /\ failed' = failed \cup {Top.svc}
          /\ rateLog \ {Top.svc} \subseteq rateLog'
      BY <1>12 DEF StartFails, StartAttempted, graphVars
    <2>2. Satisfied' \subseteq Satisfied BY <1>8, <2>1 DEF Up
    <2>3. Owed' \subseteq Owed \ {Top.svc} BY <2>1, <2>2 DEF Owed
    <2> QED BY <1>5, <1>7, <2>1, <2>3
  <1>13. CASE StartSucceeds
    <2>1. /\ UNCHANGED <<parents, children, enabled, stopping>>
          /\ Top.kind = "start" /\ Top.svc \in Service
          /\ running' = running \cup {Top.svc} /\ failed' = failed \ {Top.svc}
          /\ rateLog \ {Top.svc} \subseteq rateLog'
      BY <1>1, <1>13 DEF StartSucceeds, StartAttempted, graphVars
    <2>2. n \in Frames' /\ stack'[n].kind = "starting"
          /\ stack'[n].todo = children[Top.svc]
      <3> DEFINE f == NewFrame("starting", Top.svc, "other", children[Top.svc])
      <3>1. children[Top.svc] \in SUBSET Service BY <2>1 DEF TypeOK, GraphTypeOK
      <3>2. f \in Frame /\ f.kind = "starting" /\ f.todo = children[Top.svc]
        <4>1. "other" \in Reason BY ReasonFacts
        <4> QED BY <2>1, <3>1, <4>1, LoopFacts
      <3>3. stack' = Append(Below, f) BY <1>13 DEF StartSucceeds
      <3> HIDE DEF f
      <3>4. ~Idle BY DEF Step
      <3>5. Len(stack') = n /\ stack'[n] = f BY <1>0, <3>2, <3>3, <3>4, Replacements
      <3> QED BY <1>0, <3>2, <3>5 DEF Frames
    <2>3. children[Top.svc] \subseteq Awaited'
      <3>1. children[Top.svc] \subseteq Service BY <2>1 DEF TypeOK, GraphTypeOK
      <3> QED BY <2>2, <3>1 DEF Awaited
    <2>4. ASSUME NEW t \in Satisfied', t \notin children[Top.svc] PROVE t \in Satisfied
      <3>1. t \in Service /\ DepsMet(t)' BY <2>4 DEF Satisfied
      <3>2. ASSUME NEW d \in DependsOn(t) PROVE \E p \in parents[t][d] : Up(p)
        <4>1. PICK p \in parents[t][d] : Up(p)' BY <2>1, <3>1 DEF DepsMet
        <4>2. d \in NameSet /\ p \in Service
          BY <3>1, DependsOnNames DEF TypeOK, GraphTypeOK
        <4>3. p # Top.svc BY <2>1, <2>4, <3>1, <4>2 DEF GraphInv, GraphMirrors
        <4> QED BY <2>1, <4>1, <4>3 DEF Up
      <3> QED BY <3>1, <3>2 DEF Satisfied, DepsMet
    <2>5. Owed' \subseteq (Owed \ {Top.svc}) \cup children[Top.svc]
      BY <2>1, <2>4 DEF Owed
    <2> QED BY <1>5, <1>7, <2>1, <2>3, <2>5
  <1>14. CASE StartNextChild
    <2>1. /\ UNCHANGED <<parents, enabled, running, stopping, failed, rateLog>>
          /\ Top.kind = "starting"
      BY <1>14 DEF StartNextChild, serviceVars, graphVars
    <2>2. PICK c \in Service :
            Len(stack') = n + 1 /\ Visits(n, c) /\ Is(n + 1, "start", c)
      BY <1>2, <1>14 DEF StackAfter
    <2>3. n \in Frames' /\ n + 1 \in Frames' BY <1>0, <2>2 DEF Frames
    <2>4. Visiting \subseteq Awaited'
      BY <2>1, <2>2, <2>3 DEF Visiting, Awaited, Visits, Is
    <2> QED BY <1>5, <1>9, <2>1, <2>4
  <1>15. CASE StopReturns \/ SpareChild \/ StopNextChild \/ SelfHeal
    <2>1. /\ UNCHANGED <<parents, enabled, running, stopping, failed, rateLog>>
          /\ Top.kind \notin {"start", "starting"}
      BY <1>15 DEF StopReturns, SpareChild, StopNextChild, SelfHeal, serviceVars, graphVars
    <2> QED BY <1>5, <1>6, <1>9, <2>1
  <1>16. CASE LoopEnds
    <2>1. /\ UNCHANGED <<parents, enabled, running, stopping, failed, rateLog>>
          /\ Top.kind # "start" /\ Top.todo = {}
      BY <1>16 DEF LoopEnds, serviceVars, graphVars
    <2>2. Visiting = {} BY <2>1 DEF Visiting
    <2> QED BY <1>5, <1>9, <2>1, <2>2
  <1>17. CASE StopBegins
    <2>1. /\ UNCHANGED <<parents, enabled, running, failed, rateLog>>
          /\ stopping' = stopping \cup {Top.svc} /\ Top.kind = "stop"
      BY <1>17 DEF StopBegins, graphVars
    <2>2. Satisfied' \subseteq Satisfied BY <1>8, <2>1 DEF Up
    <2>3. Owed' \subseteq Owed BY <2>1, <2>2 DEF Owed
    <2> QED BY <1>5, <1>6, <2>1, <2>3
  <1>18. CASE StopEnds
    <2>1. /\ UNCHANGED <<parents, enabled, failed, rateLog>>
          /\ running' = running \ {Top.svc} /\ stopping' = stopping \ {Top.svc}
          /\ Top.kind = "stopping"
      BY <1>18 DEF StopEnds, graphVars
    <2>2. Satisfied' \subseteq Satisfied BY <1>8, <2>1 DEF Up
    <2>3. Top.svc \in stopping /\ Top.svc \in running
      BY <1>0, <2>1 DEF StoppingIsCalled, AInv
    <2>4. Top.svc \notin Satisfied \/ Top.svc \notin enabled \/ Top.svc \in failed
      BY <1>0, <2>1, <2>3 DEF CauseHolds, AInv, StopHasReason, Stops
    <2>5. Owed' \subseteq Owed BY <2>1, <2>2, <2>4 DEF Owed
    <2> QED BY <1>5, <1>6, <2>1, <2>5
  <1>19. CASE MonitorVisit
    <2>1. /\ UNCHANGED <<parents, enabled, running, stopping, rateLog>>
          /\ Top.kind = "monitor"
      BY <1>19 DEF MonitorVisit, graphVars
    <2>2. failed \subseteq failed' BY <1>2, <1>19 DEF StackAfter
    <2>3. Satisfied' \subseteq Satisfied BY <1>8, <2>1, <2>2 DEF Up
    <2>4. Owed' \subseteq Owed BY <2>1, <2>2, <2>3 DEF Owed
    <2> QED BY <1>5, <1>6, <2>1, <2>4
  <1>20. CASE ShutdownVisit
    <2>1. /\ UNCHANGED <<parents, running, stopping, failed, rateLog>>
          /\ Top.kind = "shutdown" /\ enabled' \subseteq enabled
      BY <1>20 DEF ShutdownVisit, graphVars
    <2>2. Satisfied' \subseteq Satisfied BY <1>8, <2>1 DEF Up
    <2>3. Owed' \subseteq Owed BY <2>1, <2>2 DEF Owed
    <2> QED BY <1>5, <1>6, <2>1, <2>3
  <1>21. CASE ShutdownRemoves
    <2>1. /\ UNCHANGED <<enabled, running, stopping, failed, rateLog>>
          /\ Top.kind = "remove" /\ delManager(Top.svc)
      BY <1>21 DEF ShutdownRemoves
    <2>2. Satisfied' \subseteq Satisfied BY <1>1, <2>1, RemovalAddsNone
    <2>3. Owed' \subseteq Owed BY <2>1, <2>2 DEF Owed
    <2> QED BY <1>5, <1>6, <2>1, <2>3
  <1>22. CASE RestartResumes
    <2>1. /\ UNCHANGED <<parents, running, stopping, rateLog>>
          /\ enabled' = enabled \cup {Top.svc} /\ failed' = failed \ {Top.svc}
          /\ Top.kind = "restart" /\ Top.svc \in Service
      BY <1>1, <1>22 DEF RestartResumes, graphVars
    <2>2. Top.svc \notin running
      <3>1. n = 1 BY <1>0, <2>1 DEF Shape
      <3>2. \A i \in Frames : stack[i].kind # "stopping" BY <1>0, <2>1, <3>1 DEF Frames
      <3>3. stopping = {} BY <3>2 DEF StoppingIsCalled
      <3>4. Top.svc \notin enabled BY <1>0, <2>1 DEF AInv, RestartIsPending
      <3> QED BY <2>1, <3>3, <3>4 DEF DisabledIsStopping
    <2>3. Satisfied' \subseteq Satisfied BY <1>8, <2>1, <2>2 DEF Up
    <2>4. Top.svc \in Awaited'
      <3>1. Len(stack') = n /\ Is(n, "start", Top.svc) BY <1>2, <1>22 DEF StackAfter
      <3>2. n \in Frames' BY <1>0, <3>1 DEF Frames
      <3> QED BY <2>1, <3>1, <3>2 DEF Awaited, Is
    <2>5. Owed' \subseteq Owed \cup {Top.svc} BY <2>1, <2>3 DEF Owed
    <2> QED BY <1>5, <1>6, <2>1, <2>4, <2>5
  <1> QED
    BY <1>10, <1>11, <1>12, <1>13, <1>14, <1>15, <1>16, <1>17, <1>18, <1>19, <1>20,
       <1>21, <1>22 DEF Step

\* An operation finds nothing owed, and calls startRecurse for what it enables or
\* forgives.
LEMMA LockStartsAwaited ==
    ASSUME TypeOK, GraphInv, Pending, StoppingIsCalled, FailedIsStopping,
           DisabledIsStopping, AInv, Lock
    PROVE  StartsAwaited'
  <1>1. Idle /\ LockStackAfter BY LockStack
  <1>2. Frames = {} /\ stack = <<>> BY <1>1 DEF Frames, Idle
  <1>3. Owed = {}
    BY <1>2 DEF AInv, StartsAwaited, Awaited
  <1>4. stopping = {} /\ running \subseteq enabled /\ failed \cap running = {}
    <2>1. stopping = {} BY <1>1, IdleStopping
    <2> QED BY <1>2, <2>1 DEF DisabledIsStopping, FailedIsStopping
  <1>5. ASSUME UNCHANGED parents, \A d \in Service : Up(d)' => Up(d)
        PROVE  Satisfied' \subseteq Satisfied
    BY <1>5, NoneCameUp
  <1>6. ASSUME NEW s \in Service, AddService(s) PROVE StartsAwaited'
    <2>1. /\ UNCHANGED <<enabled, running, stopping, failed, rateLog>>
          /\ setManager(s) /\ s \notin enabled
      BY <1>6 DEF AddService, NameIsFree, Pending
    <2>2. \A d \in Service : Up(d)' => Up(d) BY <2>1 DEF Up
    <2>3. \A t \in Service \ {s} : \A d \in NameSet : \A p \in parents'[t][d] :
             p \in parents[t][d] \/ p \notin enabled'
      BY <2>1 DEF setManager
    <2>4. Satisfied' \ {s} \subseteq Satisfied BY <2>2, <2>3, FewerSatisfied
    <2>5. Owed' \subseteq Owed BY <2>1, <2>4 DEF Owed
    <2> QED BY <1>3, <2>5 DEF StartsAwaited
  <1>7. ASSUME NEW s \in Service, DeleteService(s) PROVE StartsAwaited'
    <2>1. UNCHANGED <<enabled, running, stopping, failed, rateLog>> /\ delManager(s)
      BY <1>7 DEF DeleteService
    <2>2. Satisfied' \subseteq Satisfied BY <2>1, RemovalAddsNone
    <2>3. Owed' \subseteq Owed BY <2>1, <2>2 DEF Owed
    <2> QED BY <1>3, <2>3 DEF StartsAwaited
  <1>8. ASSUME NEW s \in Service, Enable(s) \/ Clear(s) PROVE StartsAwaited'
    <2>1. /\ UNCHANGED <<parents, running, stopping, rateLog>>
          /\ \/ enabled' = enabled \cup {s} /\ failed' = failed /\ s \notin enabled
             \/ enabled' = enabled /\ failed' = failed \ {s}
      BY <1>8 DEF Enable, Clear, Operation, graphVars
    <2>2. \A d \in Service : Up(d)' => Up(d) BY <1>4, <2>1 DEF Up
    <2>3. Satisfied' \subseteq Satisfied BY <1>5, <2>1, <2>2
    <2>4. Owed' \subseteq Owed \cup {s} BY <2>1, <2>3 DEF Owed
    <2>5. Len(stack') = 1 /\ Is(1, "start", s) BY <1>1, <1>8 DEF LockStackAfter
    <2>6. s \in Awaited'
      <3>1. 1 \in Frames' BY <2>5 DEF Frames
      <3> QED BY <2>5, <3>1 DEF Awaited, Is
    <2> QED BY <1>3, <2>4, <2>6 DEF StartsAwaited
  <1>9. ASSUME NEW s \in Service, Disable(s) \/ Restart(s) PROVE StartsAwaited'
    <2>1. /\ UNCHANGED <<parents, running, stopping, rateLog>>
          /\ enabled' = enabled \ {s} /\ failed \ {s} \subseteq failed'
      BY <1>9 DEF Disable, Restart, Operation, graphVars
    <2>2. \A d \in Service : Up(d)' => Up(d) BY <2>1 DEF Up
    <2>3. Satisfied' \subseteq Satisfied BY <1>5, <2>1, <2>2
    <2>4. Owed' \subseteq Owed BY <2>1, <2>3 DEF Owed
    <2> QED BY <1>3, <2>4 DEF StartsAwaited
  <1>10. ASSUME UNCHANGED <<parents, enabled, running, stopping, rateLog>>,
                failed \subseteq failed'
         PROVE  StartsAwaited'
    <2>1. \A d \in Service : Up(d)' => Up(d) BY <1>10 DEF Up
    <2>2. Satisfied' \subseteq Satisfied BY <1>5, <1>10, <2>1
    <2>3. Owed' \subseteq Owed BY <1>10, <2>2 DEF Owed
    <2> QED BY <1>3, <2>3 DEF StartsAwaited
  <1>11. ASSUME NEW s \in Service, Notify(s) PROVE StartsAwaited'
    <2>1. UNCHANGED <<parents, enabled, running, stopping, rateLog>>
      BY <1>11 DEF Notify, graphVars
    <2>2. failed \subseteq failed' BY <1>1, <1>11 DEF LockStackAfter
    <2> QED BY <1>10, <2>1, <2>2
  <1>12. CASE \/ \E s \in Service : EnableRefused(s) \/ SetRestart(s) \/ SetRate(s)
              \/ MonitorPass \/ SetMonitoring \/ Shutdown
    <2>1. UNCHANGED <<parents, enabled, running, stopping, rateLog, failed>>
      BY <1>12 DEF EnableRefused, SetRestart, SetRate, MonitorPass, SetMonitoring,
         Shutdown, Operation, serviceVars, graphVars
    <2> QED BY <1>10, <2>1
  <1> QED BY <1>6, <1>7, <1>8, <1>9, <1>11, <1>12 DEF Lock

LEMMA NextStartsAwaited ==
    ASSUME IInv, CInv, AInv, [Next]_vars
    PROVE  StartsAwaited'
  <1>1. CASE Step BY <1>1, StepStartsAwaited DEF IInv, CInv
  <1>2. CASE Lock BY <1>2, LockStartsAwaited DEF IInv, CInv
  <1>3. CASE Environment \/ UNCHANGED vars
    <2>1. UNCHANGED <<parents, enabled, running, stopping, failed, rateLog, stack>>
      BY <1>3 DEF Environment, vars, serviceVars, graphVars
    <2>2. Owed' = Owed BY <2>1 DEF Owed, Satisfied, DepsMet, Up
    <2>3. Awaited' = Awaited BY <2>1 DEF Awaited, Frames
    <2> QED BY <2>2, <2>3 DEF AInv, StartsAwaited
  <1> QED BY <1>1, <1>2, <1>3 DEF Next

THEOREM AwaitedHolds == Spec => [](IInv /\ CInv /\ AInv)
  <1>1. Init => AInv
    BY DEF Init, AInv, StopHasReason, RestartIsPending, StartsAwaited, Owed, Frames
  <1>2. IInv /\ CInv /\ AInv /\ [Next]_vars => AInv'
    BY NextStoppingRuns, NextStopHasReason, NextRestartIsPending, NextStartsAwaited
    DEF IInv, CInv, AInv
  <1> QED BY <1>1, <1>2, CascadeHolds, PTL DEF Spec

\* Nothing is left behind: whatever came up, was enabled, cleared or restarted and
\* in whatever order startRecurse and stopRecurse visited their children, when the
\* lock is released every enabled service runs that could, that has not failed and
\* that the rate limit has not refused.
THEOREM NothingLeftBehind == Spec => []NoneLeftBehind
  <1>1. AInv => NoneLeftBehind
    <2> SUFFICES ASSUME AInv, Idle, NEW s \in Service, canRun(s), s \notin failed,
                        s \notin rateLog, s \notin running
                 PROVE  FALSE
      BY DEF NoneLeftBehind
    <2>1. s \in Owed BY DEF Owed, Satisfied, canRun
    <2>2. Frames = {} BY DEF Frames, Idle
    <2> QED BY <2>1, <2>2 DEF AInv, StartsAwaited, Awaited
  <1> QED BY <1>1, AwaitedHolds, PTL

-----------------------------------------------------------------------------
(* What watchers are told.                                                 *)

\* Only the members of X may look different after the step.
ChangedIn(X) ==
    \A t \in Service \ X :
        /\ t \in services' <=> t \in services
        /\ t \in enabled' <=> t \in enabled
        /\ t \in running' <=> t \in running
        /\ t \in failed' <=> t \in failed
        /\ reason'[t] = reason[t]

LEMMA ObservedIn ==
    ASSUME NEW X, ChangedIn(X)
    PROVE  \A t \in Service : Observed(t)' # Observed(t) => t \in X
  <1> SUFFICES ASSUME NEW t \in Service \ X PROVE Observed(t)' = Observed(t)
    OBVIOUS
  <1>1. /\ (t \in services') = (t \in services)
        /\ (t \in enabled') = (t \in enabled)
        /\ (t \in running') = (t \in running)
        /\ (t \in failed') = (t \in failed)
        /\ reason'[t] = reason[t]
    BY DEF ChangedIn
  <1> QED BY <1>1, Zenon DEF Observed

\* The check of a service, whoever makes it.
LEMMA CheckChanges ==
    ASSUME TypeOK, NEW s \in Service, NEW rest, NEW b, CheckService(s, rest, b),
           UNCHANGED <<services, enabled, running>>
    PROVE  ChangedIn(bumped')
  BY DEF TypeOK, CheckService, ChangedIn

\* Every step outside Shutdown that changes what is seen of a service gives it a
\* new serial, save the second half of a restart, which had given it before.
LEMMA StepChanges ==
    ASSUME TypeOK, Shape, RestartIsPending, Step,
           Top.kind \notin {"shutdown", "remove"}
    PROVE  ChangedIn(bumped') /\ services' = services
  <1>1. /\ Top.todo \in SUBSET Service
        /\ Top.kind \notin {"monitor", "shutdown"} => Top.svc \in Service
        /\ Len(stack) \in Nat \ {0} /\ Top = stack[Len(stack)]
    <2>1. ~Idle BY DEF Step
    <2> QED BY <2>1, TopFacts
  <1>2. reason \in [Service -> Reason] BY DEF TypeOK
  <1>3. CASE StartReturns
    <2>1. UNCHANGED <<services, enabled, running, failed>>
      BY <1>3 DEF StartReturns, graphVars
    <2>2. UNCHANGED reason \/ NoteUnmet(Top.svc) BY <1>3 DEF StartReturns
    <2> QED BY <1>2, <2>1, <2>2 DEF NoteUnmet, ChangedIn
  <1>4. CASE StartFails \/ StartSucceeds
    BY <1>2, <1>4 DEF StartFails, StartSucceeds, StartAttempted, graphVars, ChangedIn
  <1>5. CASE StartRefused \/ StartNextChild \/ StopReturns \/ StopBegins \/ SpareChild
             \/ SelfHeal \/ LoopEnds
    BY <1>5 DEF StartRefused, StartNextChild, StopReturns, StopBegins, SpareChild,
       SelfHeal, LoopEnds, graphVars, serviceVars, ChangedIn
  <1>6. CASE StopNextChild
    <2>1. UNCHANGED <<services, enabled, running, failed>>
      BY <1>6 DEF StopNextChild, graphVars
    <2>2. PICK c \in Service : NoteUnmet(c) BY <1>1, <1>6 DEF StopNextChild
    <2> QED BY <1>2, <2>1, <2>2 DEF NoteUnmet, ChangedIn
  <1>7. CASE StopEnds
    BY <1>2, <1>7 DEF StopEnds, graphVars, ChangedIn
  <1>8. CASE MonitorVisit
    <2>1. UNCHANGED <<services, enabled, running>> BY <1>8 DEF MonitorVisit, graphVars
    <2>2. PICK s \in Service : \/ CheckService(s, AfterVisit(s), bumped)
                               \/ UNCHANGED <<failed, reason, bumped>>
      BY <1>1, <1>8 DEF MonitorVisit
    <2>3. CASE UNCHANGED <<failed, reason, bumped>> BY <2>1, <2>3 DEF ChangedIn
    <2> QED BY <2>1, <2>2, <2>3, CheckChanges
  <1>9. CASE RestartResumes
    <2>1. /\ enabled' = enabled \cup {Top.svc} /\ failed' = failed \ {Top.svc}
          /\ reason' = [reason EXCEPT ![Top.svc] = "other"]
          /\ UNCHANGED <<services, running, bumped>> /\ Top.kind = "restart"
      BY <1>9 DEF RestartResumes, graphVars
    <2>2. Top.svc \in bumped' BY <1>1, <2>1, TopIsFrame DEF RestartIsPending
    <2> QED BY <1>2, <2>1, <2>2 DEF ChangedIn
  <1>10. ~ShutdownVisit /\ ~ShutdownRemoves BY DEF ShutdownVisit, ShutdownRemoves
  <1> QED BY <1>3, <1>4, <1>5, <1>6, <1>7, <1>8, <1>9, <1>10
          DEF Step, StartReturns, StartRefused, StartFails, StartSucceeds, StartAttempted,
              StartNextChild, StopReturns, StopBegins, SpareChild, StopNextChild,
              StopEnds, SelfHeal, MonitorVisit, RestartResumes, LoopEnds, graphVars

\* Every operation gives the service it is about a new serial, and only the two
\* that change the list concern the list.
LEMMA LockChanges ==
    ASSUME TypeOK, Lock
    PROVE  ChangedIn(bumped') /\ (services' # services => listBumped')
  <1>1. reason \in [Service -> Reason] /\ services \in SUBSET Service
    BY DEF TypeOK, GraphTypeOK
  <1>2. ASSUME NEW s \in Service, AddService(s) \/ DeleteService(s)
        PROVE  ChangedIn(bumped') /\ listBumped'
    <2>1. /\ bumped' = {s} /\ listBumped' = TRUE
          /\ UNCHANGED <<enabled, running, failed>>
          /\ reason' = [reason EXCEPT ![s] = "other"] \/ reason' = reason
      BY <1>2 DEF AddService, DeleteService
    <2>2. services' = services \cup {s} \/ services' = services \ {s} \/ services' = services
      BY <1>2 DEF AddService, DeleteService, setManager, delManager, graphVars
    <2> QED BY <1>1, <2>1, <2>2 DEF ChangedIn
  <1>3. ASSUME NEW s \in Service,
               \/ EnableRefused(s) \/ Enable(s) \/ Disable(s) \/ Restart(s) \/ Clear(s)
               \/ SetRestart(s) \/ SetRate(s)
        PROVE  ChangedIn(bumped') /\ services' = services
    <2>1. /\ bumped' = {s} /\ UNCHANGED <<services, running>>
          /\ enabled' \in {enabled, enabled \cup {s}, enabled \ {s}}
          /\ failed' \in {failed, failed \ {s}}
          /\ \A t \in Service \ {s} : reason'[t] = reason[t]
      BY <1>1, <1>3 DEF EnableRefused, Enable, Disable, Restart, Clear, SetRestart,
         SetRate, Operation, graphVars
    <2> QED BY <2>1 DEF ChangedIn
  <1>4. ASSUME NEW s \in Service, Notify(s)
        PROVE  ChangedIn(bumped') /\ services' = services
    <2>1. UNCHANGED <<services, enabled, running>> BY <1>4 DEF Notify, graphVars
    <2> QED BY <1>4, <2>1, CheckChanges DEF Notify
  <1>5. CASE MonitorPass \/ SetMonitoring \/ Shutdown
    BY <1>5 DEF MonitorPass, SetMonitoring, Shutdown, graphVars, serviceVars, ChangedIn
  <1> QED BY <1>2, <1>3, <1>4, <1>5 DEF Lock

\* A service never looks different without a new serial under the same hold of the
\* lock, and neither does the list of the services, Shutdown aside: nothing that a
\* watcher compares its serial for goes unseen.
THEOREM ChangesAreSeen == Spec => ChangesBump
  <1> DEFINE Seen == /\ \A s \in Service : Observed(s)' # Observed(s) => s \in bumped'
                     /\ services' # services => listBumped'
             InShutdown == ~Idle /\ Top.kind \in {"shutdown", "remove"}
  <1>1. IInv /\ CInv /\ AInv /\ [Next]_vars => [InShutdown \/ Seen]_vars
    <2> SUFFICES ASSUME IInv, AInv, [Next]_vars, ~InShutdown
                 PROVE  Seen \/ UNCHANGED vars
      OBVIOUS
    <2>1. CASE Step
      <3>1. Top.kind \notin {"shutdown", "remove"} BY <2>1 DEF Step
      <3>2. ChangedIn(bumped') /\ services' = services
        BY <2>1, <3>1, StepChanges DEF IInv, AInv
      <3> QED BY <3>2, ObservedIn
    <2>2. CASE Lock
      <3>1. ChangedIn(bumped') /\ (services' # services => listBumped')
        BY <2>2, LockChanges DEF IInv
      <3> QED BY <3>1, ObservedIn
    <2>3. CASE Environment
      <3>1. /\ UNCHANGED <<services, enabled, running, failed, reason>>
        BY <2>3 DEF Environment, graphVars
      <3>2. ChangedIn(bumped') BY <3>1 DEF ChangedIn
      <3> QED BY <3>1, <3>2, ObservedIn
    <2> QED BY <2>1, <2>2, <2>3 DEF Next
  <1> QED BY <1>1, AwaitedHolds, PTL DEF Spec, ChangesBump

-----------------------------------------------------------------------------
(* What the manager owes to its providers, and the limit of their starts.  *)

\* The manager calls Start of a provider only when it is down, and Stop only when a
\* Start has succeeded that no Stop has followed.
ProviderCalls ==
    [][Step => /\ StartSucceeds \/ StartFails => Top.svc \notin running
               /\ StopEnds => Top.svc \in running]_vars

\* It keeps to that (startRecurse and stopRecurse test running first), although a
\* cascade may come back to a service whose stop is in progress, as it does on a cyclic
\* graph.  It is what Provider, and with it Process, takes for granted.
THEOREM ProvidersAreCalledInTurn == Spec => ProviderCalls
  <1> DEFINE InTurn == Step => /\ StartSucceeds \/ StartFails => Top.svc \notin running
                               /\ StopEnds => Top.svc \in running
  <1>1. IInv /\ CInv /\ AInv /\ [Next]_vars => [InTurn]_vars
    <2> SUFFICES ASSUME IInv, AInv, Step, StopEnds PROVE Top.svc \in running
      BY DEF StartSucceeds, StartFails, StartAttempted
    <2>1. stack \in Seq(Frame) /\ stack # <<>> BY DEF IInv, TypeOK, Step, Idle
    <2>2. Len(stack) \in Frames /\ Top = stack[Len(stack)]
      BY <2>1 DEF Frames, Top, Last
    <2>3. Top.kind = "stopping" BY DEF StopEnds
    <2>4. Top.svc \in stopping BY <2>2, <2>3 DEF IInv, StoppingIsCalled
    <2> QED BY <2>4 DEF AInv
  <1> QED BY <1>1, AwaitedHolds, PTL DEF Spec, ProviderCalls

\* The limiter of each service: what its starts, and recent, are to module Limiter.
LimiterOf(s) == INSTANCE Limiter WITH
    Limits <- {RateLimit},
    limit <- RateLimit,
    count <- starts[s],
    recent <- s \in recent

\* Only a service at its limit has started recently.
AtLimit == \A s \in recent : RateLimit > 0 /\ starts[s] = RateLimit

\* What a step does to the counts of starts.
Counting ==
    \/ UNCHANGED <<starts, recent>>
    \/ \E x \in Service :
         \/ ~tooQuickly(x) /\ CountStart(x)
         \/ ForgetStarts(x)
         \/ x \in recent /\ recent' = recent \ {x} /\ UNCHANGED starts

\* Every step counts a start, resets a count, or lets a period end.
LEMMA NextCounting == IInv /\ [Next]_vars => Counting
  <1> SUFFICES ASSUME IInv, [Next]_vars PROVE Counting
    OBVIOUS
  <1>1. CASE Step
    <2>1. CASE Top.kind \in {"start", "restart"}
      <3>1. stack \in Seq(Frame) /\ stack # <<>> BY <1>1 DEF IInv, TypeOK, Step, Idle
      <3>2. Len(stack) \in Frames /\ Top = stack[Len(stack)]
        BY <3>1 DEF Frames, Top, Last
      <3>3. Top.svc \in Service BY <2>1, <3>2 DEF IInv, Shape
      <3>4. CASE StartSucceeds \/ StartFails
        BY <3>3, <3>4 DEF StartSucceeds, StartFails, StartAttempted, Counting
      <3>5. CASE RestartResumes BY <3>3, <3>5 DEF RestartResumes, Counting
      <3>6. CASE StartReturns \/ StartRefused
        BY <3>6 DEF StartReturns, StartRefused, Counting
      <3> QED
        BY <1>1, <2>1, <3>4, <3>5, <3>6
        DEF Step, StartNextChild, StopReturns, StopBegins, SpareChild, StopNextChild,
            StopEnds, SelfHeal, MonitorVisit, ShutdownVisit, ShutdownRemoves, LoopEnds
    <2>2. CASE Top.kind \notin {"start", "restart"}
      BY <1>1, <2>2
      DEF Step, StartReturns, StartRefused, StartFails, StartSucceeds, StartAttempted,
          StartNextChild, StopReturns, StopBegins, SpareChild, StopNextChild, StopEnds,
          SelfHeal, MonitorVisit, RestartResumes, ShutdownVisit, ShutdownRemoves, LoopEnds,
          serviceVars, Counting
    <2> QED BY <2>1, <2>2
  <1>2. CASE Lock
    BY <1>2 DEF Lock, AddService, DeleteService, EnableRefused, Enable, Disable,
       Restart, Clear, SetRestart, SetRate, Notify, MonitorPass, SetMonitoring,
       Shutdown, serviceVars, Counting
  <1>3. CASE Environment
    BY <1>3 DEF Environment, Fault, Recover, PeriodElapses, Counting
  <1>4. CASE UNCHANGED vars BY <1>4 DEF vars, serviceVars, Counting
  <1> QED BY <1>1, <1>2, <1>3, <1>4 DEF Next

\* Only the start that reaches the limit is remembered as recent.
LEMMA NextAtLimit == TypeOK /\ AtLimit /\ Counting => AtLimit'
  <1> SUFFICES ASSUME TypeOK, AtLimit, Counting, NEW s \in recent'
               PROVE  RateLimit > 0 /\ starts'[s] = RateLimit
    BY DEF AtLimit
  <1>0. starts \in [Service -> 0 .. RateLimit] /\ recent \subseteq Service /\ RateLimit \in Nat
    BY SupervisorAssumption DEF TypeOK
  <1>1. CASE UNCHANGED <<starts, recent>> BY <1>1 DEF AtLimit
  <1>2. ASSUME NEW x \in Service, CountStart(x) PROVE RateLimit > 0 /\ starts'[s] = RateLimit
    BY <1>0, <1>2 DEF CountStart, AtLimit
  <1>3. ASSUME NEW x \in Service, ForgetStarts(x) PROVE RateLimit > 0 /\ starts'[s] = RateLimit
    BY <1>0, <1>3 DEF ForgetStarts, AtLimit
  <1>4. ASSUME NEW x \in Service, recent' = recent \ {x}, UNCHANGED starts
        PROVE  RateLimit > 0 /\ starts'[s] = RateLimit
    BY <1>4 DEF AtLimit
  <1> QED BY <1>1, <1>2, <1>3, <1>4 DEF Counting

\* What is counted for a service is a step of its limiter, or none.
LEMMA CountingIsLimiter ==
    ASSUME NEW s \in Service
    PROVE  TypeOK /\ AtLimit /\ Counting
             => [LimiterOf(s)!LimiterNext]_(LimiterOf(s)!limiterVars)
  <1> SUFFICES ASSUME TypeOK, AtLimit, Counting
               PROVE  [LimiterOf(s)!LimiterNext]_(LimiterOf(s)!limiterVars)
    OBVIOUS
  <1> DEFINE isRecent == s \in recent
  <1>0. starts \in [Service -> 0 .. RateLimit] /\ recent \subseteq Service /\ RateLimit \in Nat
    BY SupervisorAssumption DEF TypeOK
  <1>a. ASSUME starts'[s] = starts[s], isRecent' = isRecent
        PROVE  UNCHANGED LimiterOf(s)!limiterVars
    BY <1>a DEF LimiterOf!limiterVars
  <1>1. CASE UNCHANGED <<starts, recent>> BY <1>1, <1>a
  <1>2. ASSUME NEW x \in Service, ~tooQuickly(x), CountStart(x)
        PROVE  [LimiterOf(s)!LimiterNext]_(LimiterOf(s)!limiterVars)
    <2>1. CASE x # s
      <3>1. starts'[s] = starts[s] /\ (s \in recent' <=> s \in recent)
        BY <1>0, <1>2, <2>1 DEF CountStart
      <3> QED BY <1>a, <3>1
    <2>2. CASE x = s
      <3>1. starts'[s] = IF starts[s] < RateLimit THEN starts[s] + 1 ELSE starts[s]
        BY <1>0, <1>2, <2>2 DEF CountStart
      <3>2. isRecent' <=> RateLimit > 0 /\ starts'[s] = RateLimit
        BY <1>0, <1>2, <2>2, <3>1 DEF CountStart, AtLimit
      <3>3. ~(RateLimit > 0 /\ starts[s] = RateLimit /\ isRecent)
        BY <1>2, <2>2 DEF tooQuickly
      <3>4. isRecent' = (RateLimit > 0 /\ starts'[s] = RateLimit) BY <3>2
      <3>5. LimiterOf(s)!Started
        BY <3>1, <3>3, <3>4 DEF LimiterOf!Started, LimiterOf!Refuses
      <3> QED BY <3>5 DEF LimiterOf!LimiterNext
    <2> QED BY <2>1, <2>2
  <1>3. ASSUME NEW x \in Service, ForgetStarts(x)
        PROVE  [LimiterOf(s)!LimiterNext]_(LimiterOf(s)!limiterVars)
    <2>1. CASE x # s
      <3>1. starts'[s] = starts[s] /\ (s \in recent' <=> s \in recent)
        BY <1>0, <1>3, <2>1 DEF ForgetStarts
      <3> QED BY <1>a, <3>1
    <2>2. CASE x = s
      <3>1. starts'[s] = 0 /\ isRecent' = FALSE
        BY <1>0, <1>3, <2>2 DEF ForgetStarts
      <3> QED BY <3>1 DEF LimiterOf!LimiterNext, LimiterOf!Forgotten
    <2> QED BY <2>1, <2>2
  <1>4. ASSUME NEW x \in Service, x \in recent, recent' = recent \ {x}, UNCHANGED starts
        PROVE  [LimiterOf(s)!LimiterNext]_(LimiterOf(s)!limiterVars)
    <2>1. CASE x # s
      <3>1. starts'[s] = starts[s] /\ (s \in recent' <=> s \in recent)
        BY <1>4, <2>1
      <3> QED BY <1>a, <3>1
    <2>2. CASE x = s
      <3>1. starts'[s] = starts[s] /\ isRecent /\ isRecent' = FALSE BY <1>4, <2>2
      <3> QED BY <3>1 DEF LimiterOf!LimiterNext, LimiterOf!PeriodOver
    <2> QED BY <2>1, <2>2
  <1> QED BY <1>1, <1>2, <1>3, <1>4 DEF Counting

\* The counts of starts that startRecurse, Enable, Restart, Clear and SetProperty keep
\* are, for each service, the limiter that RateLimit implements with a ring and a
\* clock: what is proved of that one holds of the supervision.
THEOREM EveryServiceIsLimited ==
    ASSUME NEW s \in Service
    PROVE  Spec => LimiterOf(s)!LimiterSpec
  <1>1. Init => AtLimit /\ LimiterOf(s)!LimiterInit
    BY DEF Init, AtLimit, LimiterOf!LimiterInit
  <1>2. IInv /\ AtLimit /\ [Next]_vars => AtLimit'
    BY NextCounting, NextAtLimit DEF IInv
  <1>3. IInv /\ AtLimit /\ [Next]_vars
          => [LimiterOf(s)!LimiterNext]_(LimiterOf(s)!limiterVars)
    BY NextCounting, CountingIsLimiter DEF IInv
  <1> QED
    BY <1>1, <1>2, <1>3, InvariantHolds, PTL DEF Spec, LimiterOf!LimiterSpec
=============================================================================
