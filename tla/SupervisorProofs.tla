-------------------------- MODULE SupervisorProofs --------------------------
(***************************************************************************)
(* Proofs about Supervisor, for every set of services, every graph their   *)
(* names give rise to and every rate limit.  The inductive invariant is    *)
(* IInv of SupervisorInvariant; each of its parts has a lemma that says it *)
(* is preserved by every step, which may use the other parts.              *)
(***************************************************************************)
EXTENDS SupervisorInvariant, SequenceTheorems, TLAPS

-----------------------------------------------------------------------------
(* The stack.                                                              *)

\* What is below the top of a nonempty stack.
LEMMA PopFacts ==
    ASSUME NEW S, NEW st \in Seq(S), st # <<>>
    PROVE  /\ Len(st) \in Nat \ {0}
           /\ Last(st) = st[Len(st)] /\ Last(st) \in S
           /\ Front(st) \in Seq(S)
           /\ Len(Front(st)) = Len(st) - 1
           /\ \A i \in 1 .. (Len(st) - 1) : Front(st)[i] = st[i]
  <1>1. Len(st) \in Nat \ {0} BY EmptySeq
  <1>2. \A i \in 1 .. Len(st) : st[i] \in S BY ElementOfSeq
  <1>3. \A i \in 1 .. (Len(st) - 1) : st[i] \in S BY <1>1, <1>2
  <1> DEFINE m == Len(st) - 1
             front == SubSeq(st, 1, m)
  <1>4. m \in Nat BY <1>1
  <1> HIDE DEF m
  <1>5. /\ front \in Seq(S)
        /\ Len(front) = IF 1 <= m THEN m - 1 + 1 ELSE 0
        /\ \A i \in 1 .. m - 1 + 1 : front[i] = st[1 + i - 1]
    BY <1>3, <1>4, SubSeqProperties DEF m
  <1> HIDE DEF front
  <1>6. /\ front \in Seq(S)
        /\ Len(front) = m
        /\ \A i \in 1 .. m : front[i] = st[i]
    BY <1>4, <1>5
  <1> QED BY <1>1, <1>2, <1>6 DEF Front, Last, m, front

\* What is on a stack after one push, after two and after three.
LEMMA PushFacts ==
    ASSUME NEW S, NEW st \in Seq(S), NEW f \in S
    PROVE  /\ Append(st, f) \in Seq(S)
           /\ Len(Append(st, f)) = Len(st) + 1
           /\ \A i \in 1 .. Len(st) : Append(st, f)[i] = st[i]
           /\ Append(st, f)[Len(st) + 1] = f
  OBVIOUS

LEMMA TwoPushFacts ==
    ASSUME NEW S, NEW st \in Seq(S), NEW f \in S, NEW g \in S,
           NEW r, r = Append(Append(st, f), g)
    PROVE  /\ r \in Seq(S)
           /\ Len(r) = Len(st) + 2
           /\ \A i \in 1 .. Len(st) : r[i] = st[i]
           /\ r[Len(st) + 1] = f /\ r[Len(st) + 2] = g
  <1> DEFINE q == Append(st, f)
  <1>1. Len(st) \in Nat OBVIOUS
  <1>2. /\ q \in Seq(S) /\ Len(q) = Len(st) + 1
        /\ \A i \in 1 .. Len(st) : q[i] = st[i]
        /\ q[Len(st) + 1] = f
    BY PushFacts
  <1>3. r = Append(q, g) OBVIOUS
  <1> HIDE DEF q
  <1>4. /\ r \in Seq(S) /\ Len(r) = Len(q) + 1
        /\ \A i \in 1 .. Len(q) : r[i] = q[i]
        /\ r[Len(q) + 1] = g
    BY <1>2, <1>3, PushFacts
  <1> QED BY <1>1, <1>2, <1>4

LEMMA ThreePushFacts ==
    ASSUME NEW S, NEW st \in Seq(S), NEW f \in S, NEW g \in S, NEW h \in S,
           NEW r, r = Append(Append(Append(st, f), g), h)
    PROVE  /\ r \in Seq(S)
           /\ Len(r) = Len(st) + 3
           /\ \A i \in 1 .. Len(st) : r[i] = st[i]
           /\ r[Len(st) + 1] = f /\ r[Len(st) + 2] = g /\ r[Len(st) + 3] = h
  <1> DEFINE q == Append(Append(st, f), g)
  <1>1. Len(st) \in Nat OBVIOUS
  <1>2. /\ q \in Seq(S) /\ Len(q) = Len(st) + 2
        /\ \A i \in 1 .. Len(st) : q[i] = st[i]
        /\ q[Len(st) + 1] = f /\ q[Len(st) + 2] = g
    BY TwoPushFacts
  <1>3. r = Append(q, h) OBVIOUS
  <1> HIDE DEF q
  <1>4. /\ r \in Seq(S) /\ Len(r) = Len(q) + 1
        /\ \A i \in 1 .. Len(q) : r[i] = q[i]
        /\ r[Len(q) + 1] = h
    BY <1>2, <1>3, PushFacts
  <1> QED BY <1>1, <1>2, <1>4

\* The frame on top of a stack in use, and what the frames below it are.
LEMMA TopFacts ==
    ASSUME TypeOK, Shape, ~Idle
    PROVE  /\ Len(stack) \in Nat \ {0}
           /\ Top = stack[Len(stack)]
           /\ Top \in Frame
           /\ Top.kind \in Kind /\ Top.why \in Reason
           /\ Top.todo \in SUBSET Service
           /\ Top.kind \notin {"monitor", "shutdown"} => Top.svc \in Service
           /\ Below \in Seq(Frame)
           /\ Len(Below) = Len(stack) - 1
           /\ \A i \in 1 .. (Len(stack) - 1) : Below[i] = stack[i]
  <1>1. stack \in Seq(Frame) /\ stack # <<>> BY DEF TypeOK, Idle
  <1>2. /\ Len(stack) \in Nat \ {0}
        /\ Top = stack[Len(stack)] /\ Top \in Frame
        /\ Below \in Seq(Frame) /\ Len(Below) = Len(stack) - 1
        /\ \A i \in 1 .. (Len(stack) - 1) : Below[i] = stack[i]
    BY <1>1, PopFacts DEF Top, Below
  <1>3. Len(stack) \in Frames BY <1>2 DEF Frames
  <1>4. Top.kind \notin {"monitor", "shutdown"} => Top.svc \in Service
    BY <1>2, <1>3 DEF Shape
  <1> QED BY <1>2, <1>4 DEF Frame

-----------------------------------------------------------------------------
(* Types.                                                                  *)

LEMMA FrameFacts ==
    ASSUME NEW k \in Kind, NEW s \in Service \cup {NoService}, NEW w \in Reason,
           NEW t \in SUBSET Service
    PROVE  /\ NewFrame(k, s, w, t) \in Frame
           /\ NewFrame(k, s, w, t).kind = k
           /\ NewFrame(k, s, w, t).svc = s
           /\ NewFrame(k, s, w, t).why = w
           /\ NewFrame(k, s, w, t).todo = t
  BY DEF NewFrame, Frame

\* The frames the code makes, with their fields: those of calls, ...
LEMMA CallFacts ==
    ASSUME NEW s \in Service
    PROVE  /\ /\ startRecurse(s) \in Frame
              /\ startRecurse(s).kind = "start" /\ startRecurse(s).svc = s
           /\ \A w \in Reason :
              /\ stopRecurse(s, w) \in Frame
              /\ stopRecurse(s, w).kind = "stop" /\ stopRecurse(s, w).svc = s
           /\ /\ NewFrame("heal", s, "other", {}) \in Frame
              /\ NewFrame("heal", s, "other", {}).kind = "heal"
              /\ NewFrame("heal", s, "other", {}).svc = s
           /\ /\ NewFrame("remove", s, "other", {}) \in Frame
              /\ NewFrame("remove", s, "other", {}).kind = "remove"
              /\ NewFrame("remove", s, "other", {}).svc = s
           /\ /\ NewFrame("restart", s, "other", {}) \in Frame
              /\ NewFrame("restart", s, "other", {}).kind = "restart"
              /\ NewFrame("restart", s, "other", {}).svc = s
  BY DEF NewFrame, Frame, Kind, Reason, startRecurse, stopRecurse

\* ... and those of loops over the children of s.
LEMMA LoopFacts ==
    ASSUME NEW s \in Service, NEW w \in Reason, NEW t \in SUBSET Service,
           NEW k \in {"starting", "stopping"}
    PROVE  /\ NewFrame(k, s, w, t) \in Frame
           /\ NewFrame(k, s, w, t).kind = k
           /\ NewFrame(k, s, w, t).svc = s
           /\ NewFrame(k, s, w, t).todo = t
  BY DEF NewFrame, Frame, Kind, Reason

LEMMA ReasonFacts ==
    /\ "Disabled" \in Reason /\ "Unmet dependency" \in Reason
    /\ "Healthy" \in Reason /\ "other" \in Reason
  BY DEF Reason

\* The frames of the calls, as the proofs about steps pick them.
LEMMA CallFrames ==
    ASSUME NEW s \in Service
    PROVE  /\ \E g \in Frame : g = startRecurse(s) /\ g.kind = "start" /\ g.svc = s
           /\ \E g \in Frame : /\ g = stopRecurse(s, "Unmet dependency")
                              /\ g.kind = "stop" /\ g.svc = s
           /\ \E g \in Frame : g = stopRecurse(s, "other") /\ g.kind = "stop" /\ g.svc = s
           /\ \E g \in Frame : /\ g = NewFrame("heal", s, "other", {})
                              /\ g.kind = "heal" /\ g.svc = s
           /\ \E g \in Frame : /\ g = NewFrame("remove", s, "other", {})
                              /\ g.kind = "remove" /\ g.svc = s
  <1>1. "Unmet dependency" \in Reason /\ "other" \in Reason BY ReasonFacts
  <1>2. /\ stopRecurse(s, "Unmet dependency") \in Frame
        /\ stopRecurse(s, "Unmet dependency").kind = "stop"
        /\ stopRecurse(s, "Unmet dependency").svc = s
    BY <1>1, CallFacts
  <1>3. /\ stopRecurse(s, "other") \in Frame
        /\ stopRecurse(s, "other").kind = "stop" /\ stopRecurse(s, "other").svc = s
    BY <1>1, CallFacts
  <1>4. /\ startRecurse(s) \in Frame
        /\ startRecurse(s).kind = "start" /\ startRecurse(s).svc = s
    BY CallFacts
  <1>5. /\ NewFrame("heal", s, "other", {}) \in Frame
        /\ NewFrame("heal", s, "other", {}).kind = "heal"
        /\ NewFrame("heal", s, "other", {}).svc = s
    BY CallFacts
  <1>6. /\ NewFrame("remove", s, "other", {}) \in Frame
        /\ NewFrame("remove", s, "other", {}).kind = "remove"
        /\ NewFrame("remove", s, "other", {}).svc = s
    BY CallFacts
  <1> QED BY <1>2, <1>3, <1>4, <1>5, <1>6

\* The frame a loop leaves on the stack when it visits c.
LEMMA VisitFacts ==
    ASSUME TypeOK, Shape, ~Idle, NEW c \in Service
    PROVE  \E f \in Frame :
              /\ f.kind = Top.kind /\ f.svc = Top.svc /\ f.why = Top.why
              /\ f.todo = Top.todo \ {c}
              /\ AfterVisit(c) = Append(Below, f)
  <1> DEFINE f == [Top EXCEPT !.todo = @ \ {c}]
  <1>1. Top \in Frame /\ Top.todo \in SUBSET Service BY TopFacts
  <1>2. /\ f \in Frame /\ f.kind = Top.kind /\ f.svc = Top.svc
        /\ f.why = Top.why /\ f.todo = Top.todo \ {c}
    BY <1>1 DEF Frame
  <1>3. AfterVisit(c) = Append(Below, f) BY DEF AfterVisit
  <1> QED BY <1>2, <1>3

\* The graph stays within its types.
LEMMA GraphTypes ==
    ASSUME GraphTypeOK, NEW s \in Service, setManager(s) \/ delManager(s)
    PROVE  GraphTypeOK'
  <1>1. CASE setManager(s)
    BY <1>1 DEF GraphTypeOK, setManager, NoLinks
  <1>2. CASE delManager(s) /\ s \notin services
    BY <1>2 DEF GraphTypeOK, delManager, graphVars
  <1>3. CASE delManager(s) /\ s \in services
    <2>1. services' \in SUBSET Service
      BY <1>3 DEF GraphTypeOK, delManager
    <2>2. incompat' \in [Service -> SUBSET Service]
      BY <1>3 DEF GraphTypeOK, delManager
    <2>3. children' \in [Service -> SUBSET Service]
      BY <1>3 DEF GraphTypeOK, delManager
    <2>4. parents' \in [Service -> [NameSet -> SUBSET Service]]
      BY <1>3 DEF GraphTypeOK, delManager, NoLinks
    <2> QED BY <2>1, <2>2, <2>3, <2>4 DEF GraphTypeOK
  <1> QED BY <1>1, <1>2, <1>3

LEMMA InitType == Init => TypeOK /\ Shape
  <1> SUFFICES ASSUME Init PROVE TypeOK /\ Shape OBVIOUS
  <1> USE SupervisorAssumption
  <1>1. GraphTypeOK BY DEF Init, GraphInit, GraphTypeOK, NoLinks
  <1>2. stack \in Seq(Frame) /\ Len(stack) = 0 BY DEF Init
  <1>3. TypeOK
    <2>1. /\ reason \in [Service -> Reason]
          /\ starts \in [Service -> 0 .. RateLimit]
      BY DEF Init, Reason
    <2> QED BY <1>1, <1>2, <2>1 DEF Init, TypeOK
  <1>4. Shape BY <1>2 DEF Shape, Frames
  <1> QED BY <1>3, <1>4

\* The part of TypeOK that the operations on one service s can disturb.
LEMMA CountTypes ==
    ASSUME TypeOK, NEW s \in Service, CountStart(s) \/ ForgetStarts(s)
    PROVE  starts' \in [Service -> 0 .. RateLimit] /\ recent' \in SUBSET Service
  BY SupervisorAssumption DEF TypeOK, CountStart, ForgetStarts

LEMMA UnmetTypes ==
    ASSUME TypeOK, NEW s \in Service, NoteUnmet(s)
    PROVE  reason' \in [Service -> Reason] /\ bumped' \in SUBSET Service
  BY DEF TypeOK, NoteUnmet, Unmet, Reason

\* Every step of the goroutine that holds the lock stays within the types.
LEMMA StepType ==
    ASSUME TypeOK, Shape, Step
    PROVE  TypeOK'
  <1> DEFINE n == Len(stack)
  <1>1. ~Idle /\ UNCHANGED <<sick, monitoring, listBumped>> BY DEF Step
  <1>2. /\ Top.kind \in Kind /\ Top.why \in Reason /\ Top.todo \in SUBSET Service
        /\ Top.kind \notin {"monitor", "shutdown"} => Top.svc \in Service
        /\ Below \in Seq(Frame)
    BY <1>1, TopFacts
  <1>3. UNCHANGED graphVars => GraphTypeOK'
    BY DEF TypeOK, GraphTypeOK, graphVars
  <1>4. ASSUME NEW f \in Frame PROVE Append(Below, f) \in Seq(Frame)
    BY <1>2, PushFacts
  <1>5. ASSUME NEW f \in Frame, NEW g \in Frame
        PROVE  Append(Append(Below, f), g) \in Seq(Frame)
    BY <1>4, PushFacts
  <1>6. ASSUME NEW f \in Frame, NEW g \in Frame, NEW h \in Frame
        PROVE  Append(Append(Append(Below, f), g), h) \in Seq(Frame)
    BY <1>5, PushFacts
  <1>7. ASSUME NEW s \in Service, NEW w \in Reason
        PROVE  /\ startRecurse(s) \in Frame /\ stopRecurse(s, w) \in Frame
               /\ \A k \in {"starting", "stopping", "heal", "remove"},
                     t \in SUBSET Service : NewFrame(k, s, w, t) \in Frame
    <2>1. /\ "other" \in Reason
          /\ {"start", "stop", "starting", "stopping", "heal", "remove"} \subseteq Kind
      BY DEF Reason, Kind
    <2> QED BY <2>1, FrameFacts DEF startRecurse, stopRecurse
  <1>8. ASSUME NEW s \in Service
        PROVE  \E f \in Frame : AfterVisit(s) = Append(Below, f)
    BY <1>1, VisitFacts
  <1>9. \A w \in {"Disabled", "Unmet dependency", "Healthy", "other"} : w \in Reason
    BY DEF Reason
  <1>10. CASE StartReturns
    <2>1. Top.svc \in Service BY <1>2, <1>10 DEF StartReturns
    <2>2. stack' \in Seq(Frame) BY <1>2, <1>10 DEF StartReturns
    <2>3. reason' \in [Service -> Reason] /\ bumped' \in SUBSET Service
      BY <1>10, <2>1, UnmetTypes DEF StartReturns, TypeOK
    <2> QED BY <1>1, <1>3, <1>10, <2>2, <2>3 DEF StartReturns, TypeOK
  <1>11. CASE StartRefused
    BY <1>1, <1>2, <1>3, <1>11 DEF StartRefused, TypeOK
  <1>12. CASE StartFails
    <2>1. Top.svc \in Service BY <1>2, <1>12 DEF StartFails, StartAttempted
    <2>2. starts' \in [Service -> 0 .. RateLimit] /\ recent' \in SUBSET Service
      BY <1>12, <2>1, CountTypes DEF StartFails, StartAttempted
    <2> QED
      BY <1>1, <1>2, <1>3, <1>9, <1>12, <2>1, <2>2 DEF StartFails, StartAttempted, TypeOK
  <1>13. CASE StartSucceeds
    <2>1. Top.svc \in Service BY <1>2, <1>13 DEF StartSucceeds, StartAttempted
    <2>2. starts' \in [Service -> 0 .. RateLimit] /\ recent' \in SUBSET Service
      BY <1>13, <2>1, CountTypes DEF StartSucceeds, StartAttempted
    <2>3. children[Top.svc] \in SUBSET Service BY <2>1 DEF TypeOK, GraphTypeOK
    <2>4. stack' \in Seq(Frame)
      BY <1>4, <1>7, <1>9, <1>13, <2>1, <2>3 DEF StartSucceeds
    <2> QED
      BY <1>1, <1>3, <1>9, <1>13, <2>1, <2>2, <2>4
      DEF StartSucceeds, StartAttempted, TypeOK
  <1>14. CASE StartNextChild
    <2>1. PICK c \in Service : stack' = Append(AfterVisit(c), startRecurse(c))
      BY <1>2, <1>14 DEF StartNextChild
    <2>2. stack' \in Seq(Frame) BY <1>5, <1>7, <1>8, <1>9, <2>1
    <2> QED BY <1>1, <1>3, <1>14, <2>2 DEF StartNextChild, serviceVars, TypeOK
  <1>15. CASE StopReturns
    BY <1>1, <1>2, <1>3, <1>15 DEF StopReturns, serviceVars, TypeOK
  <1>16. CASE StopBegins
    <2>1. Top.svc \in Service BY <1>2, <1>16 DEF StopBegins
    <2>2. children[Top.svc] \in SUBSET Service BY <2>1 DEF TypeOK, GraphTypeOK
    <2>3. stack' \in Seq(Frame) BY <1>2, <1>4, <1>7, <1>16, <2>1, <2>2 DEF StopBegins
    <2> QED BY <1>1, <1>3, <1>16, <2>1, <2>3 DEF StopBegins, TypeOK
  <1>17. CASE SpareChild
    <2>1. stack' \in Seq(Frame) BY <1>2, <1>4, <1>8, <1>17 DEF SpareChild
    <2> QED BY <1>1, <1>3, <1>17, <2>1 DEF SpareChild, serviceVars, TypeOK
  <1>18. CASE StopNextChild
    <2>1. PICK c \in Service :
            /\ NoteUnmet(c)
            /\ stack' = Append(AfterVisit(c), stopRecurse(c, "Unmet dependency"))
      BY <1>2, <1>18 DEF StopNextChild
    <2>2. stack' \in Seq(Frame) BY <1>5, <1>7, <1>8, <1>9, <2>1
    <2>3. reason' \in [Service -> Reason] /\ bumped' \in SUBSET Service
      BY <2>1, UnmetTypes
    <2> QED BY <1>1, <1>3, <1>18, <2>2, <2>3 DEF StopNextChild, TypeOK
  <1>19. CASE StopEnds
    <2>1. Top.svc \in Service BY <1>2, <1>19 DEF StopEnds
    <2> QED BY <1>1, <1>2, <1>3, <1>19, <2>1 DEF StopEnds, TypeOK
  <1>20. CASE SelfHeal
    <2>1. Top.svc \in Service BY <1>2, <1>20 DEF SelfHeal
    <2>2. stack' \in Seq(Frame) BY <1>2, <1>4, <1>7, <1>9, <1>20, <2>1 DEF SelfHeal
    <2> QED BY <1>1, <1>3, <1>20, <2>2 DEF SelfHeal, serviceVars, TypeOK
  <1>21. CASE MonitorVisit
    <2>1. PICK s \in Service :
            IF s \in enabled
            THEN CheckService(s, AfterVisit(s), bumped)
            ELSE stack' = AfterVisit(s) /\ UNCHANGED <<failed, reason, bumped>>
      BY <1>2, <1>21 DEF MonitorVisit
    <2>2. /\ AfterVisit(s) \in Seq(Frame)
          /\ healAfter(s, AfterVisit(s)) \in Seq(Frame)
          /\ Append(healAfter(s, AfterVisit(s)), stopRecurse(s, "other")) \in Seq(Frame)
      <3>1. PICK f \in Frame : AfterVisit(s) = Append(Below, f) BY <1>8
      <3>2. NewFrame("heal", s, "other", {}) \in Frame /\ stopRecurse(s, "other") \in Frame
        BY <1>7, <1>9
      <3> QED BY <1>4, <1>5, <1>6, <3>1, <3>2 DEF healAfter
    <2>3. /\ stack' \in Seq(Frame) /\ failed' \in SUBSET Service
          /\ reason' \in [Service -> Reason] /\ bumped' \in SUBSET Service
      BY <1>9, <2>1, <2>2 DEF CheckService, TypeOK
    <2> QED BY <1>1, <1>3, <1>21, <2>3 DEF MonitorVisit, TypeOK
  <1>22. CASE RestartResumes
    <2>1. Top.svc \in Service BY <1>2, <1>22 DEF RestartResumes
    <2>2. starts' \in [Service -> 0 .. RateLimit] /\ recent' \in SUBSET Service
      BY <1>22, <2>1, CountTypes DEF RestartResumes
    <2>3. stack' \in Seq(Frame) BY <1>4, <1>7, <1>9, <1>22, <2>1 DEF RestartResumes
    <2> QED
      BY <1>1, <1>3, <1>9, <1>22, <2>1, <2>2, <2>3 DEF RestartResumes, TypeOK
  <1>23. CASE ShutdownVisit
    <2>1. PICK s \in Service :
            /\ enabled' = enabled \ {s}
            /\ stack' = Append(Append(AfterVisit(s), NewFrame("remove", s, "other", {})),
                               stopRecurse(s, "other"))
      BY <1>2, <1>23 DEF ShutdownVisit
    <2>2. NewFrame("remove", s, "other", {}) \in Frame /\ stopRecurse(s, "other") \in Frame
      BY <1>7, <1>9
    <2>3. PICK f \in Frame : AfterVisit(s) = Append(Below, f) BY <1>8
    <2>4. stack' \in Seq(Frame) BY <1>6, <2>1, <2>2, <2>3
    <2> QED BY <1>1, <1>3, <1>23, <2>1, <2>4 DEF ShutdownVisit, TypeOK
  <1>24. CASE ShutdownRemoves
    <2>1. Top.svc \in Service BY <1>2, <1>24 DEF ShutdownRemoves
    <2>2. GraphTypeOK' BY <1>24, <2>1, GraphTypes DEF ShutdownRemoves, TypeOK
    <2> QED BY <1>1, <1>2, <1>9, <1>24, <2>1, <2>2 DEF ShutdownRemoves, TypeOK
  <1>25. CASE LoopEnds
    BY <1>1, <1>2, <1>3, <1>25 DEF LoopEnds, serviceVars, TypeOK
  <1> QED
    BY <1>10, <1>11, <1>12, <1>13, <1>14, <1>15, <1>16, <1>17, <1>18, <1>19,
       <1>20, <1>21, <1>22, <1>23, <1>24, <1>25 DEF Step

\* Every operation that takes the lock stays within the types.
LEMMA LockType ==
    ASSUME TypeOK, Lock
    PROVE  TypeOK'
  <1>1. UNCHANGED sick BY DEF Lock
  <1>2. UNCHANGED graphVars => GraphTypeOK'
    BY DEF TypeOK, GraphTypeOK, graphVars
  <1>3. ASSUME NEW s \in Service, NEW w \in Reason
        PROVE  /\ startRecurse(s) \in Frame /\ stopRecurse(s, w) \in Frame
               /\ NewFrame("restart", s, w, {}) \in Frame
               /\ NewFrame("heal", s, w, {}) \in Frame
    <2>1. "other" \in Reason /\ {"start", "stop", "restart", "heal"} \subseteq Kind
      BY DEF Reason, Kind
    <2> QED BY <2>1, FrameFacts DEF startRecurse, stopRecurse
  <1>4. \A k \in {"monitor", "shutdown"} :
           NewFrame(k, NoService, "other", services) \in Frame
    <2>1. "other" \in Reason /\ {"monitor", "shutdown"} \subseteq Kind
      BY DEF Reason, Kind
    <2>2. services \in SUBSET Service BY DEF TypeOK, GraphTypeOK
    <2> QED BY <2>1, <2>2, FrameFacts
  <1>5. \A f \in Frame : Idle => Call(f) \in Seq(Frame)
    BY DEF Call, Idle
  <1>6. \A w \in {"Disabled", "Unmet dependency", "Healthy", "other"} : w \in Reason
    BY DEF Reason
  <1>7. ASSUME NEW s \in Service, AddService(s) \/ DeleteService(s)
        PROVE  TypeOK'
    <2>1. GraphTypeOK' BY <1>7, GraphTypes DEF AddService, DeleteService, TypeOK
    <2>2. reason' \in [Service -> Reason]
      BY <1>6, <1>7 DEF AddService, DeleteService, TypeOK
    <2> QED BY <1>1, <1>7, <2>1, <2>2 DEF AddService, DeleteService, TypeOK
  <1>8. ASSUME NEW s \in Service, Operation(s)
        PROVE  /\ GraphTypeOK' /\ Idle
               /\ running' \in SUBSET Service /\ stopping' \in SUBSET Service
               /\ monitoring' \in BOOLEAN /\ sick' \in SUBSET Service
               /\ bumped' \in SUBSET Service /\ listBumped' \in BOOLEAN
    BY <1>1, <1>2, <1>8 DEF Operation, TypeOK
  <1>9. ASSUME NEW s \in Service, ForgetStarts(s)
        PROVE  starts' \in [Service -> 0 .. RateLimit] /\ recent' \in SUBSET Service
    BY <1>9, CountTypes
  <1>10. ASSUME NEW s \in Service, EnableRefused(s) PROVE TypeOK'
    <2>1. Operation(s) BY <1>10 DEF EnableRefused
    <2> QED BY <1>6, <1>8, <1>10, <2>1 DEF EnableRefused, TypeOK
  <1>11. ASSUME NEW s \in Service, Enable(s) PROVE TypeOK'
    <2>1. Operation(s) /\ ForgetStarts(s) BY <1>11 DEF Enable
    <2>2. stack' \in Seq(Frame) BY <1>3, <1>5, <1>6, <1>8, <1>11, <2>1 DEF Enable
    <2> QED BY <1>6, <1>8, <1>9, <1>11, <2>1, <2>2 DEF Enable, TypeOK
  <1>12. ASSUME NEW s \in Service, Disable(s) PROVE TypeOK'
    <2>1. Operation(s) BY <1>12 DEF Disable
    <2>2. stack' \in Seq(Frame) BY <1>3, <1>5, <1>6, <1>8, <1>12, <2>1 DEF Disable
    <2> QED BY <1>6, <1>8, <1>12, <2>1, <2>2 DEF Disable, TypeOK
  <1>13. ASSUME NEW s \in Service, Restart(s) PROVE TypeOK'
    <2>1. Operation(s) BY <1>13 DEF Restart
    <2>2. NewFrame("restart", s, "other", {}) \in Frame /\ stopRecurse(s, "other") \in Frame
      BY <1>3, <1>6
    <2>3. Call(NewFrame("restart", s, "other", {})) \in Seq(Frame)
      BY <1>5, <1>8, <2>1, <2>2
    <2>4. stack' \in Seq(Frame) BY <1>13, <2>2, <2>3, PushFacts DEF Restart
    <2> QED BY <1>8, <1>13, <2>1, <2>4 DEF Restart, TypeOK
  <1>14. ASSUME NEW s \in Service, Clear(s) PROVE TypeOK'
    <2>1. Operation(s) /\ ForgetStarts(s) BY <1>14 DEF Clear
    <2>2. stack' \in Seq(Frame) BY <1>3, <1>5, <1>6, <1>8, <1>14, <2>1 DEF Clear
    <2> QED BY <1>6, <1>8, <1>9, <1>14, <2>1, <2>2 DEF Clear, TypeOK
  <1>15. ASSUME NEW s \in Service, SetRestart(s) PROVE TypeOK'
    <2>1. Operation(s) BY <1>15 DEF SetRestart
    <2> QED BY <1>8, <1>15, <2>1 DEF SetRestart, TypeOK
  <1>16. ASSUME NEW s \in Service, SetRate(s) PROVE TypeOK'
    <2>1. Operation(s) /\ ForgetStarts(s) BY <1>16 DEF SetRate
    <2> QED BY <1>8, <1>9, <1>16, <2>1 DEF SetRate, TypeOK
  <1>17. ASSUME NEW s \in Service, Notify(s) PROVE TypeOK'
    <2>1. /\ <<>> \in Seq(Frame) /\ healAfter(s, <<>>) \in Seq(Frame)
          /\ Append(healAfter(s, <<>>), stopRecurse(s, "other")) \in Seq(Frame)
      <3>1. NewFrame("heal", s, "other", {}) \in Frame /\ stopRecurse(s, "other") \in Frame
        BY <1>3, <1>6
      <3>2. <<>> \in Seq(Frame) BY EmptySeq
      <3>3. healAfter(s, <<>>) \in Seq(Frame) BY <3>1, <3>2, PushFacts DEF healAfter
      <3> QED BY <3>1, <3>2, <3>3, PushFacts
    <2>2. CheckService(s, <<>>, {}) BY <1>17 DEF Notify
    <2>3. /\ stack' \in Seq(Frame) /\ failed' \in SUBSET Service
          /\ reason' \in [Service -> Reason] /\ bumped' \in SUBSET Service
      BY <1>6, <2>1, <2>2 DEF CheckService, TypeOK
    <2> QED BY <1>1, <1>2, <1>17, <2>3 DEF Notify, TypeOK
  <1>18. ASSUME MonitorPass \/ Shutdown PROVE TypeOK'
    <2>1. Idle BY <1>18 DEF MonitorPass, Shutdown
    <2>2. stack' \in Seq(Frame) BY <1>4, <1>5, <1>18, <2>1 DEF MonitorPass, Shutdown
    <2> QED
      BY <1>1, <1>2, <1>18, <2>2 DEF MonitorPass, Shutdown, serviceVars, TypeOK
  <1>19. ASSUME SetMonitoring PROVE TypeOK'
    BY <1>1, <1>2, <1>19 DEF SetMonitoring, serviceVars, TypeOK
  <1> QED
    BY <1>7, <1>10, <1>11, <1>12, <1>13, <1>14, <1>15, <1>16, <1>17, <1>18, <1>19
    DEF Lock

LEMMA EnvironmentType ==
    ASSUME TypeOK, Environment
    PROVE  TypeOK'
  <1>1. /\ UNCHANGED <<graphVars, enabled, running, stopping, failed, restart,
                      rateLog, reason, starts, monitoring, stack, bumped, listBumped>>
        /\ sick' \in SUBSET Service /\ recent' \in SUBSET Service
    BY DEF Environment, Fault, Recover, PeriodElapses, TypeOK
  <1>2. GraphTypeOK' BY <1>1 DEF TypeOK, GraphTypeOK, graphVars
  <1> QED BY <1>1, <1>2 DEF TypeOK

LEMMA NextType ==
    ASSUME TypeOK, Shape, [Next]_vars
    PROVE  TypeOK'
  <1>1. CASE UNCHANGED vars
    BY <1>1 DEF vars, graphVars, serviceVars, TypeOK, GraphTypeOK
  <1> QED BY <1>1, StepType, LockType, EnvironmentType DEF Next

-----------------------------------------------------------------------------
(* What every step does to the stack, frame by frame.                      *)

\* The stack after a pop, and after the top frame is replaced by one, two or
\* three frames.
LEMMA Replacements ==
    ASSUME TypeOK, Shape, ~Idle
    PROVE  LET n == Len(stack)
               Same == \A i \in 1 .. (n - 1) : stack'[i] = stack[i]
           IN
           /\ n \in Nat \ {0} /\ Top = stack[n]
           /\ stack' = Below => Len(stack') = n - 1 /\ Same
           /\ \A f \in Frame : stack' = Append(Below, f) =>
                Len(stack') = n /\ Same /\ stack'[n] = f
           /\ \A f, g \in Frame : stack' = Append(Append(Below, f), g) =>
                Len(stack') = n + 1 /\ Same /\ stack'[n] = f /\ stack'[n + 1] = g
           /\ \A f, g, h \in Frame :
                stack' = Append(Append(Append(Below, f), g), h) =>
                /\ Len(stack') = n + 2 /\ Same /\ stack'[n] = f
                /\ stack'[n + 1] = g /\ stack'[n + 2] = h
  <1> DEFINE n == Len(stack)
             Same(k) == \A i \in 1 .. k : stack'[i] = stack[i]
  <1>1. /\ n \in Nat \ {0} /\ Top = stack[n]
        /\ Below \in Seq(Frame) /\ Len(Below) = n - 1
        /\ \A i \in 1 .. (n - 1) : Below[i] = stack[i]
    BY TopFacts
  <1>2. ASSUME NEW f \in Frame, stack' = Append(Below, f)
        PROVE  Len(stack') = n /\ Same(n - 1) /\ stack'[n] = f
    <2>1. /\ Len(stack') = Len(Below) + 1
          /\ \A i \in 1 .. Len(Below) : stack'[i] = Below[i]
          /\ stack'[Len(Below) + 1] = f
      BY <1>1, <1>2, PushFacts
    <2> QED BY <1>1, <2>1
  <1>3. ASSUME NEW f \in Frame, NEW g \in Frame,
               stack' = Append(Append(Below, f), g)
        PROVE  /\ Len(stack') = n + 1 /\ Same(n - 1)
               /\ stack'[n] = f /\ stack'[n + 1] = g
    <2>1. /\ Len(stack') = Len(Below) + 2
          /\ \A i \in 1 .. Len(Below) : stack'[i] = Below[i]
          /\ stack'[Len(Below) + 1] = f /\ stack'[Len(Below) + 2] = g
      BY <1>1, <1>3, TwoPushFacts
    <2> QED BY <1>1, <2>1
  <1>4. ASSUME NEW f \in Frame, NEW g \in Frame, NEW h \in Frame,
               stack' = Append(Append(Append(Below, f), g), h)
        PROVE  /\ Len(stack') = n + 2 /\ Same(n - 1) /\ stack'[n] = f
               /\ stack'[n + 1] = g /\ stack'[n + 2] = h
    <2>1. /\ Len(stack') = Len(Below) + 3
          /\ \A i \in 1 .. Len(Below) : stack'[i] = Below[i]
          /\ stack'[Len(Below) + 1] = f /\ stack'[Len(Below) + 2] = g
          /\ stack'[Len(Below) + 3] = h
      BY <1>1, <1>4, ThreePushFacts
    <2> QED BY <1>1, <2>1
  <1>5. stack' = Below => Len(stack') = n - 1 /\ Same(n - 1) BY <1>1
  <1> HIDE DEF n, Same
  <1>6. /\ \A f \in Frame : stack' = Append(Below, f) =>
             Len(stack') = n /\ Same(n - 1) /\ stack'[n] = f
        /\ \A f, g \in Frame : stack' = Append(Append(Below, f), g) =>
             /\ Len(stack') = n + 1 /\ Same(n - 1)
             /\ stack'[n] = f /\ stack'[n + 1] = g
        /\ \A f, g, h \in Frame : stack' = Append(Append(Append(Below, f), g), h) =>
             /\ Len(stack') = n + 2 /\ Same(n - 1) /\ stack'[n] = f
             /\ stack'[n + 1] = g /\ stack'[n + 2] = h
    BY <1>2, <1>3, <1>4
  <1> QED BY <1>1, <1>5, <1>6 DEF n, Same

\* Abbreviations for the next state: frame i is a call of this kind for s, and
\* the loop of the call on top has visited c.
Is(i, kind, s) == stack'[i].kind = kind /\ stack'[i].svc = s
Visits(i, c) ==
    /\ c \in Top.todo /\ c \in Service
    /\ Is(i, Top.kind, Top.svc) /\ stack'[i].todo = Top.todo \ {c}

Pops == StartReturns \/ StartRefused \/ StartFails \/ StopReturns \/ StopEnds
        \/ ShutdownRemoves \/ LoopEnds

\* What every action of Step leaves on the stack; n is the old top.
StackAfter(n) ==
    /\ \A i \in 1 .. (n - 1) : stack'[i] = stack[i]
    /\ Len(stack') \in {n - 1, n, n + 1, n + 2}
    /\ Pops => Len(stack') = n - 1
    /\ StartSucceeds => Len(stack') = n /\ Is(n, "starting", Top.svc)
    /\ StartNextChild => \E c \in Service :
          Len(stack') = n + 1 /\ Visits(n, c) /\ Is(n + 1, "start", c)
    /\ StopBegins => /\ Len(stack') = n /\ Is(n, "stopping", Top.svc)
                     /\ stack'[n].todo = children[Top.svc]
    /\ SpareChild => \E c \in Service :
          canRun(c) /\ Len(stack') = n /\ Visits(n, c)
    /\ StopNextChild => \E c \in Service :
          Len(stack') = n + 1 /\ Visits(n, c) /\ Is(n + 1, "stop", c)
    /\ SelfHeal => \/ Len(stack') = n - 1
                   \/ Len(stack') = n /\ Is(n, "start", Top.svc)
    /\ MonitorVisit => \E s \in Service :
          /\ Visits(n, s)
          /\ \/ Len(stack') = n /\ UNCHANGED failed
             \/ Len(stack') = n + 1 /\ UNCHANGED failed /\ Is(n + 1, "heal", s)
             \/ /\ Len(stack') = n + 2 /\ failed' = failed \cup {s}
                /\ s \in running
                /\ Is(n + 1, "heal", s) /\ Is(n + 2, "stop", s)
    /\ RestartResumes => Len(stack') = n /\ Is(n, "start", Top.svc)
    /\ ShutdownVisit => \E s \in Service :
          /\ Len(stack') = n + 2 /\ Visits(n, s) /\ enabled' = enabled \ {s}
          /\ Is(n + 1, "remove", s) /\ Is(n + 2, "stop", s)

LEMMA StepStack ==
    ASSUME TypeOK, Shape, Step
    PROVE  StackAfter(Len(stack))
  <1> DEFINE n == Len(stack)
             Same == \A i \in 1 .. (n - 1) : stack'[i] = stack[i]
  <1>1. ~Idle BY DEF Step
  <1>2. /\ n \in Nat \ {0}
        /\ stack' = Below => Len(stack') = n - 1 /\ Same
        /\ \A f \in Frame : stack' = Append(Below, f) =>
             Len(stack') = n /\ Same /\ stack'[n] = f
        /\ \A f, g \in Frame : stack' = Append(Append(Below, f), g) =>
             Len(stack') = n + 1 /\ Same /\ stack'[n] = f /\ stack'[n + 1] = g
        /\ \A f, g, h \in Frame : stack' = Append(Append(Append(Below, f), g), h) =>
             /\ Len(stack') = n + 2 /\ Same /\ stack'[n] = f
             /\ stack'[n + 1] = g /\ stack'[n + 2] = h
    BY <1>1, Replacements
  <1>3. /\ Top.todo \in SUBSET Service /\ Top.why \in Reason
        /\ Top.kind \notin {"monitor", "shutdown"} => Top.svc \in Service
    BY <1>1, TopFacts
  <1>7. ASSUME NEW c \in Service
        PROVE  \E f \in Frame :
                 /\ f.kind = Top.kind /\ f.svc = Top.svc
                 /\ f.todo = Top.todo \ {c}
                 /\ AfterVisit(c) = Append(Below, f)
    BY <1>1, VisitFacts
  <1> HIDE DEF n, Same
  <1>8. Pops => Len(stack') = n - 1 /\ Same
    BY <1>2 DEF Pops, StartReturns, StartRefused, StartFails, StopReturns, StopEnds,
                ShutdownRemoves, LoopEnds
  <1>9. StartSucceeds => Len(stack') = n /\ Same /\ Is(n, "starting", Top.svc)
    <2> SUFFICES ASSUME StartSucceeds
                 PROVE  Len(stack') = n /\ Same /\ Is(n, "starting", Top.svc)
      OBVIOUS
    <2>1. Top.svc \in Service BY <1>3 DEF StartSucceeds, StartAttempted
    <2>2. children[Top.svc] \in SUBSET Service BY <2>1 DEF TypeOK, GraphTypeOK
    <2> DEFINE f == NewFrame("starting", Top.svc, "other", children[Top.svc])
    <2>3. f \in Frame /\ f.kind = "starting" /\ f.svc = Top.svc
      <3>1. "other" \in Reason BY ReasonFacts
      <3> QED BY <2>1, <2>2, <3>1, LoopFacts
    <2>4. stack' = Append(Below, f) BY DEF StartSucceeds
    <2> HIDE DEF f
    <2> QED BY <1>2, <2>3, <2>4 DEF Is
  <1>10. StartNextChild => \E c \in Service :
           /\ Len(stack') = n + 1 /\ Same
           /\ Visits(n, c) /\ Is(n + 1, "start", c)
    <2> SUFFICES ASSUME StartNextChild
                 PROVE  \E c \in Service :
                          /\ Len(stack') = n + 1 /\ Same
                          /\ Visits(n, c) /\ Is(n + 1, "start", c)
      OBVIOUS
    <2>1. PICK c \in Service :
            c \in Top.todo /\ stack' = Append(AfterVisit(c), startRecurse(c))
      BY <1>3 DEF StartNextChild
    <2>2. PICK f \in Frame : /\ f.kind = Top.kind /\ f.svc = Top.svc
                             /\ f.todo = Top.todo \ {c}
                             /\ AfterVisit(c) = Append(Below, f)
      BY <1>7
    <2>3. PICK g \in Frame : g = startRecurse(c) /\ g.kind = "start" /\ g.svc = c
      BY CallFrames
    <2>4. stack' = Append(Append(Below, f), g) BY <2>1, <2>2, <2>3
    <2>5. Len(stack') = n + 1 /\ Same /\ stack'[n] = f /\ stack'[n + 1] = g
      BY <1>2, <2>4
    <2> QED BY <2>1, <2>2, <2>3, <2>5 DEF Visits, Is
  <1>11. StopBegins => /\ Len(stack') = n /\ Same /\ Is(n, "stopping", Top.svc)
                       /\ stack'[n].todo = children[Top.svc]
    <2> SUFFICES ASSUME StopBegins
                 PROVE  /\ Len(stack') = n /\ Same /\ Is(n, "stopping", Top.svc)
                        /\ stack'[n].todo = children[Top.svc]
      OBVIOUS
    <2>1. Top.svc \in Service BY <1>3 DEF StopBegins
    <2>2. children[Top.svc] \in SUBSET Service BY <2>1 DEF TypeOK, GraphTypeOK
    <2> QED BY <1>2, <1>3, <2>1, <2>2, LoopFacts DEF StopBegins, Is
  <1>12. SpareChild => \E c \in Service :
           canRun(c) /\ Len(stack') = n /\ Same /\ Visits(n, c)
    BY <1>2, <1>3, <1>7 DEF SpareChild, Visits, Is
  <1>13. StopNextChild => \E c \in Service :
           /\ Len(stack') = n + 1 /\ Same
           /\ Visits(n, c) /\ Is(n + 1, "stop", c)
    <2> SUFFICES ASSUME StopNextChild
                 PROVE  \E c \in Service :
                          /\ Len(stack') = n + 1 /\ Same
                          /\ Visits(n, c) /\ Is(n + 1, "stop", c)
      OBVIOUS
    <2>1. PICK c \in Service :
            /\ c \in Top.todo
            /\ stack' = Append(AfterVisit(c), stopRecurse(c, "Unmet dependency"))
      BY <1>3 DEF StopNextChild
    <2>2. PICK f \in Frame : /\ f.kind = Top.kind /\ f.svc = Top.svc
                             /\ f.todo = Top.todo \ {c}
                             /\ AfterVisit(c) = Append(Below, f)
      BY <1>7
    <2>3. PICK g \in Frame : /\ g = stopRecurse(c, "Unmet dependency")
                             /\ g.kind = "stop" /\ g.svc = c
      BY CallFrames
    <2>4. stack' = Append(Append(Below, f), g) BY <2>1, <2>2, <2>3
    <2>5. Len(stack') = n + 1 /\ Same /\ stack'[n] = f /\ stack'[n + 1] = g
      BY <1>2, <2>4
    <2> QED BY <2>1, <2>2, <2>3, <2>5 DEF Visits, Is
  <1>14. SelfHeal => /\ Same
                     /\ \/ Len(stack') = n - 1
                        \/ Len(stack') = n /\ Is(n, "start", Top.svc)
    <2> SUFFICES ASSUME SelfHeal
                 PROVE  /\ Same
                        /\ \/ Len(stack') = n - 1
                           \/ Len(stack') = n /\ Is(n, "start", Top.svc)
      OBVIOUS
    <2>1. Top.svc \in Service BY <1>3 DEF SelfHeal
    <2>2. PICK f \in Frame : f = startRecurse(Top.svc) /\ f.kind = "start" /\ f.svc = Top.svc
      BY <2>1, CallFacts
    <2>3. stack' = Below \/ stack' = Append(Below, f) BY <2>2 DEF SelfHeal
    <2> QED BY <1>2, <2>2, <2>3 DEF Is
  <1>15. MonitorVisit => \E s \in Service :
           /\ Same /\ Visits(n, s)
           /\ \/ Len(stack') = n /\ UNCHANGED failed
              \/ Len(stack') = n + 1 /\ UNCHANGED failed /\ Is(n + 1, "heal", s)
              \/ /\ Len(stack') = n + 2 /\ failed' = failed \cup {s}
                 /\ s \in running
                 /\ Is(n + 1, "heal", s) /\ Is(n + 2, "stop", s)
    <2> SUFFICES ASSUME MonitorVisit
                 PROVE  \E s \in Service :
                          /\ Same /\ Visits(n, s)
                          /\ \/ Len(stack') = n /\ UNCHANGED failed
                             \/ /\ Len(stack') = n + 1 /\ UNCHANGED failed
                                /\ Is(n + 1, "heal", s)
                             \/ /\ Len(stack') = n + 2 /\ failed' = failed \cup {s}
                                /\ s \in running
                                /\ Is(n + 1, "heal", s) /\ Is(n + 2, "stop", s)
      OBVIOUS
    <2>1. PICK s \in Service :
            /\ s \in Top.todo
            /\ IF s \in enabled
               THEN CheckService(s, AfterVisit(s), bumped)
               ELSE stack' = AfterVisit(s) /\ UNCHANGED <<failed, reason, bumped>>
      BY <1>3 DEF MonitorVisit
    <2>2. PICK f \in Frame : /\ f.kind = Top.kind /\ f.svc = Top.svc
                             /\ f.todo = Top.todo \ {s}
                             /\ AfterVisit(s) = Append(Below, f)
      BY <1>7
    <2>3. PICK h \in Frame : /\ h = NewFrame("heal", s, "other", {})
                             /\ h.kind = "heal" /\ h.svc = s
      BY CallFrames
    <2>4. PICK g \in Frame : g = stopRecurse(s, "other") /\ g.kind = "stop" /\ g.svc = s
      BY CallFrames
    <2>5. \/ stack' = Append(Below, f) /\ UNCHANGED failed
          \/ stack' = Append(Append(Below, f), h) /\ UNCHANGED failed
          \/ /\ stack' = Append(Append(Append(Below, f), h), g)
             /\ failed' = failed \cup {s} /\ s \in running
      BY <2>1, <2>2, <2>3, <2>4 DEF CheckService, healAfter
    <2>6. \/ Len(stack') = n /\ Same /\ stack'[n] = f /\ UNCHANGED failed
          \/ /\ Len(stack') = n + 1 /\ Same /\ stack'[n] = f /\ stack'[n + 1] = h
             /\ UNCHANGED failed
          \/ /\ Len(stack') = n + 2 /\ Same /\ stack'[n] = f
             /\ stack'[n + 1] = h /\ stack'[n + 2] = g
             /\ failed' = failed \cup {s} /\ s \in running
      BY <1>2, <2>5
    <2>7. Visits(n, s) BY <2>1, <2>2, <2>6 DEF Visits, Is
    <2> QED BY <2>3, <2>4, <2>6, <2>7 DEF Is
  <1>16. RestartResumes => Len(stack') = n /\ Same /\ Is(n, "start", Top.svc)
    <2> SUFFICES ASSUME RestartResumes
                 PROVE  Len(stack') = n /\ Same /\ Is(n, "start", Top.svc)
      OBVIOUS
    <2>1. Top.svc \in Service BY <1>3 DEF RestartResumes
    <2>2. PICK f \in Frame : f = startRecurse(Top.svc) /\ f.kind = "start" /\ f.svc = Top.svc
      BY <2>1, CallFacts
    <2>3. stack' = Append(Below, f) BY <2>2 DEF RestartResumes
    <2> QED BY <1>2, <2>2, <2>3 DEF Is
  <1>17. ShutdownVisit => \E s \in Service :
           /\ Len(stack') = n + 2 /\ Same /\ Visits(n, s) /\ enabled' = enabled \ {s}
           /\ Is(n + 1, "remove", s) /\ Is(n + 2, "stop", s)
    <2> SUFFICES ASSUME ShutdownVisit
                 PROVE  \E s \in Service :
                          /\ Len(stack') = n + 2 /\ Same /\ Visits(n, s)
                          /\ enabled' = enabled \ {s}
                          /\ Is(n + 1, "remove", s) /\ Is(n + 2, "stop", s)
      OBVIOUS
    <2>1. PICK s \in Service :
            /\ s \in Top.todo /\ enabled' = enabled \ {s}
            /\ stack' = Append(Append(AfterVisit(s), NewFrame("remove", s, "other", {})),
                               stopRecurse(s, "other"))
      BY <1>3 DEF ShutdownVisit
    <2>2. PICK f \in Frame : /\ f.kind = Top.kind /\ f.svc = Top.svc
                             /\ f.todo = Top.todo \ {s}
                             /\ AfterVisit(s) = Append(Below, f)
      BY <1>7
    <2>3. PICK r \in Frame : /\ r = NewFrame("remove", s, "other", {})
                             /\ r.kind = "remove" /\ r.svc = s
      BY CallFrames
    <2>4. PICK g \in Frame : g = stopRecurse(s, "other") /\ g.kind = "stop" /\ g.svc = s
      BY CallFrames
    <2>5. stack' = Append(Append(Append(Below, f), r), g)
      BY <2>1, <2>2, <2>3, <2>4
    <2>6. /\ Len(stack') = n + 2 /\ Same /\ stack'[n] = f
          /\ stack'[n + 1] = r /\ stack'[n + 2] = g
      BY <1>2, <2>5
    <2>7. Visits(n, s) BY <2>1, <2>2, <2>6 DEF Visits, Is
    <2> QED BY <2>1, <2>3, <2>4, <2>6, <2>7 DEF Is
  <1>18. Same /\ Len(stack') \in {n - 1, n, n + 1, n + 2}
    BY <1>8, <1>9, <1>10, <1>11, <1>12, <1>13, <1>14, <1>15, <1>16, <1>17 DEF Step, Pops
  <1> QED
    BY <1>8, <1>9, <1>10, <1>11, <1>12, <1>13, <1>14, <1>15, <1>16, <1>17, <1>18
    DEF StackAfter, n, Same

\* What every operation puts on the empty stack.
LockStackAfter ==
    /\ \A s \in Service :
         /\ \/ AddService(s) \/ DeleteService(s) \/ EnableRefused(s)
            \/ SetRestart(s) \/ SetRate(s)
            => Len(stack') = 0
         /\ Enable(s) \/ Clear(s) => Len(stack') = 1 /\ Is(1, "start", s)
         /\ Disable(s) => Len(stack') = 1 /\ Is(1, "stop", s)
         /\ Restart(s) =>
              Len(stack') = 2 /\ Is(1, "restart", s) /\ Is(2, "stop", s)
         /\ Notify(s) =>
              \/ Len(stack') = 0 /\ UNCHANGED failed
              \/ Len(stack') = 1 /\ UNCHANGED failed /\ Is(1, "heal", s)
              \/ /\ Len(stack') = 2 /\ failed' = failed \cup {s} /\ s \in running
                 /\ Is(1, "heal", s) /\ Is(2, "stop", s)
    /\ MonitorPass => Len(stack') = 1 /\ Is(1, "monitor", NoService)
    /\ SetMonitoring => Len(stack') = 0
    /\ Shutdown => Len(stack') = 1 /\ Is(1, "shutdown", NoService)

LEMMA LockStack ==
    ASSUME TypeOK, Lock
    PROVE  Idle /\ Len(stack) = 0 /\ LockStackAfter
  <1>1. Idle
    BY DEF Lock, AddService, DeleteService, EnableRefused, Enable, Disable, Restart,
           Clear, SetRestart, SetRate, Notify, MonitorPass, SetMonitoring, Shutdown,
           Operation
  <1>2. Len(stack) = 0 /\ stack = <<>> /\ <<>> \in Seq(Frame) /\ Len(<<>>) = 0
    BY <1>1 DEF Idle
  <1>3. ASSUME NEW f \in Frame
        PROVE  /\ Append(<<>>, f) \in Seq(Frame)
               /\ Len(Append(<<>>, f)) = 1 /\ Append(<<>>, f)[1] = f
    OBVIOUS
  <1>4. ASSUME NEW f \in Frame, NEW g \in Frame
        PROVE  /\ Len(Append(Append(<<>>, f), g)) = 2
               /\ Append(Append(<<>>, f), g)[1] = f
               /\ Append(Append(<<>>, f), g)[2] = g
    <2> DEFINE st == Append(<<>>, f)
               up == Append(st, g)
    <2>1. st \in Seq(Frame) /\ Len(st) = 1 /\ st[1] = f BY <1>3
    <2> HIDE DEF st
    <2>2. Len(up) = Len(st) + 1 /\ up[Len(st) + 1] = g BY <2>1, PushFacts
    <2>3. \A i \in 1 .. Len(st) : up[i] = st[i] BY <2>1, PushFacts
    <2> HIDE DEF up
    <2>4. Len(up) = 2 /\ up[1] = f /\ up[2] = g BY <2>1, <2>2, <2>3
    <2> QED BY <2>4 DEF up, st
  <1>5. ASSUME NEW s \in Service
        PROVE  \/ AddService(s) \/ DeleteService(s) \/ EnableRefused(s)
               \/ SetRestart(s) \/ SetRate(s)
               => Len(stack') = 0
    BY <1>2 DEF AddService, DeleteService, EnableRefused, SetRestart, SetRate
  <1>6. ASSUME NEW s \in Service, Enable(s) \/ Clear(s)
        PROVE  Len(stack') = 1 /\ Is(1, "start", s)
    <2>1. stack' = Append(<<>>, startRecurse(s))
      BY <1>2, <1>6 DEF Enable, Clear, Call
    <2> QED BY <1>3, <2>1, CallFacts DEF Is
  <1>7. ASSUME NEW s \in Service, Disable(s)
        PROVE  Len(stack') = 1 /\ Is(1, "stop", s)
    <2>1. stack' = Append(<<>>, stopRecurse(s, "Disabled"))
      BY <1>2, <1>7 DEF Disable, Call
    <2>2. /\ stopRecurse(s, "Disabled") \in Frame
          /\ stopRecurse(s, "Disabled").kind = "stop"
          /\ stopRecurse(s, "Disabled").svc = s
      BY CallFacts, ReasonFacts
    <2> QED BY <1>3, <2>1, <2>2 DEF Is
  <1>8. ASSUME NEW s \in Service
        PROVE  /\ stopRecurse(s, "other") \in Frame
               /\ stopRecurse(s, "other").kind = "stop"
               /\ stopRecurse(s, "other").svc = s
    BY CallFacts, ReasonFacts
  <1>9. ASSUME NEW s \in Service, Restart(s)
        PROVE  Len(stack') = 2 /\ Is(1, "restart", s) /\ Is(2, "stop", s)
    <2> DEFINE f == NewFrame("restart", s, "other", {})
               g == stopRecurse(s, "other")
    <2>1. stack' = Append(Append(<<>>, f), g) BY <1>2, <1>9 DEF Restart, Call
    <2>2. f \in Frame /\ f.kind = "restart" /\ f.svc = s BY CallFacts
    <2>3. g \in Frame /\ g.kind = "stop" /\ g.svc = s BY <1>8
    <2> HIDE DEF f, g
    <2> QED BY <1>4, <2>1, <2>2, <2>3 DEF Is
  <1>10. ASSUME NEW s \in Service, Notify(s)
         PROVE  \/ Len(stack') = 0 /\ UNCHANGED failed
                \/ Len(stack') = 1 /\ UNCHANGED failed /\ Is(1, "heal", s)
                \/ /\ Len(stack') = 2 /\ failed' = failed \cup {s} /\ s \in running
                   /\ Is(1, "heal", s) /\ Is(2, "stop", s)
    <2> DEFINE f == NewFrame("heal", s, "other", {})
               g == stopRecurse(s, "other")
    <2>1. \/ stack' = <<>> /\ UNCHANGED failed
          \/ stack' = Append(<<>>, f) /\ UNCHANGED failed
          \/ /\ stack' = Append(Append(<<>>, f), g)
             /\ failed' = failed \cup {s} /\ s \in running
      BY <1>10 DEF Notify, CheckService, healAfter
    <2>2. f \in Frame /\ f.kind = "heal" /\ f.svc = s BY CallFacts
    <2>3. g \in Frame /\ g.kind = "stop" /\ g.svc = s BY <1>8
    <2> HIDE DEF f, g
    <2>4. \/ Len(stack') = 0 /\ UNCHANGED failed
          \/ Len(stack') = 1 /\ stack'[1] = f /\ UNCHANGED failed
          \/ /\ Len(stack') = 2 /\ stack'[1] = f /\ stack'[2] = g
             /\ failed' = failed \cup {s} /\ s \in running
      BY <1>2, <1>3, <1>4, <2>1, <2>2, <2>3
    <2> QED BY <2>2, <2>3, <2>4 DEF Is
  <1>11. /\ MonitorPass => Len(stack') = 1 /\ Is(1, "monitor", NoService)
         /\ Shutdown => Len(stack') = 1 /\ Is(1, "shutdown", NoService)
    <2>1. services \in SUBSET Service BY DEF TypeOK, GraphTypeOK
    <2>3. \A k \in {"monitor", "shutdown"} :
            /\ NewFrame(k, NoService, "other", services) \in Frame
            /\ NewFrame(k, NoService, "other", services).kind = k
            /\ NewFrame(k, NoService, "other", services).svc = NoService
      BY <2>1 DEF NewFrame, Frame, Kind, Reason
    <2> QED BY <1>2, <1>3, <2>3 DEF MonitorPass, Shutdown, Call, Is
  <1>12. SetMonitoring => Len(stack') = 0 BY <1>2 DEF SetMonitoring
  <1> QED
    BY <1>1, <1>2, <1>5, <1>6, <1>7, <1>9, <1>10, <1>11, <1>12 DEF LockStackAfter

-----------------------------------------------------------------------------
(* Shape is preserved.                                                     *)

LEMMA StepShape ==
    ASSUME TypeOK, Shape, Step
    PROVE  Shape'
  <1> DEFINE n == Len(stack)
             m == Len(stack')
             Old(i) == /\ stack[i].kind \in {"restart", "monitor", "shutdown"} => i = 1
                       /\ stack[i].kind = "remove" => i = 2 /\ stack[1].kind = "shutdown"
                       /\ stack[i].kind \in {"start", "stop"} => i = n
                       /\ stack[i].kind \notin {"monitor", "shutdown"}
                            => stack[i].svc \in Service
             New(i) == /\ stack'[i].kind \in {"restart", "monitor", "shutdown"} => i = 1
                       /\ stack'[i].kind = "remove"
                            => i = 2 /\ stack'[1].kind = "shutdown"
                       /\ stack'[i].kind \in {"start", "stop"} => i = m
                       /\ stack'[i].kind \notin {"monitor", "shutdown"}
                            => stack'[i].svc \in Service
  <1>1. ~Idle BY DEF Step
  <1>2. /\ n \in Nat \ {0} /\ Top = stack[n]
        /\ Top.kind \notin {"monitor", "shutdown"} => Top.svc \in Service
    BY <1>1, TopFacts
  <1>3. StackAfter(n) BY StepStack
  <1>4. \A i \in 1 .. n : Old(i) BY DEF Shape, Frames
  <1> SUFFICES \A i \in 1 .. m : New(i)
    BY DEF Shape, Frames
  <1>5. m \in {n - 1, n, n + 1, n + 2} /\ \A i \in 1 .. (n - 1) : stack'[i] = stack[i]
    BY <1>3 DEF StackAfter
  <1> HIDE DEF n, m
  \* Below the top nothing changes, and no call there was about to begin.
  <1>6. \A i \in 1 .. (n - 1) : New(i)
    BY <1>2, <1>4, <1>5
  <1>7. CASE Pops
    <2>1. m = n - 1 BY <1>3, <1>7 DEF StackAfter, n, m
    <2> QED BY <1>2, <1>6, <2>1
  <1>8. CASE m = n /\ Top.kind \notin {"monitor", "shutdown", "restart", "remove"}
                   /\ \E k \in {"start", "starting", "stopping"} : Is(n, k, Top.svc)
    <2>1. New(n) BY <1>2, <1>8 DEF Is
    <2> QED BY <1>2, <1>6, <1>8, <2>1
  <1>9. CASE m = n /\ Top.kind = "restart" /\ Is(n, "start", Top.svc)
    <2>1. New(n) BY <1>2, <1>9 DEF Is
    <2> QED BY <1>2, <1>6, <1>9, <2>1
  <1>10. CASE /\ Top.kind \in {"starting", "stopping", "monitor"}
              /\ Is(n, Top.kind, Top.svc)
              /\ \/ m = n
                 \/ m = n + 1 /\ \E s \in Service, k \in {"start", "stop", "heal"} :
                                    Is(n + 1, k, s)
                 \/ m = n + 2 /\ \E s \in Service :
                                    Is(n + 1, "heal", s) /\ Is(n + 2, "stop", s)
    <2>1. New(n) BY <1>2, <1>4, <1>10 DEF Is
    <2>2. m >= n + 1 => New(n + 1) BY <1>2, <1>10 DEF Is
    <2>3. m = n + 2 => New(n + 2) BY <1>2, <1>10 DEF Is
    <2> QED BY <1>2, <1>6, <1>10, <2>1, <2>2, <2>3
  <1>11. CASE ShutdownVisit
    <2>1. PICK s \in Service :
            /\ m = n + 2 /\ Is(n, Top.kind, Top.svc)
            /\ Is(n + 1, "remove", s) /\ Is(n + 2, "stop", s)
      BY <1>3, <1>11 DEF StackAfter, Visits, n, m
    <2>2. Top.kind = "shutdown" BY <1>11 DEF ShutdownVisit
    <2>3. n = 1 BY <1>2, <1>4, <2>2
    <2>4. New(n) /\ New(n + 1) /\ New(n + 2) BY <2>1, <2>2, <2>3 DEF Is
    <2> QED BY <1>2, <1>6, <2>1, <2>4
  <1>12. StartSucceeds =>
           /\ m = n /\ Top.kind = "start" /\ Is(n, "starting", Top.svc)
    BY <1>3 DEF StackAfter, StartSucceeds, StartAttempted, n, m
  <1>13. StopBegins => m = n /\ Top.kind = "stop" /\ Is(n, "stopping", Top.svc)
    BY <1>3 DEF StackAfter, StopBegins, n, m
  <1>14. SelfHeal => /\ Top.kind = "heal"
                     /\ \/ m = n - 1
                        \/ m = n /\ Is(n, "start", Top.svc)
    <2>1. SelfHeal => Top.kind = "heal" BY DEF SelfHeal
    <2>2. SelfHeal => \/ Len(stack') = n - 1
                      \/ Len(stack') = n /\ Is(n, "start", Top.svc)
      BY <1>3 DEF StackAfter
    <2> QED BY <2>1, <2>2 DEF m
  <1>15. RestartResumes => m = n /\ Top.kind = "restart" /\ Is(n, "start", Top.svc)
    BY <1>3 DEF StackAfter, RestartResumes, n, m
  <1>16. StartNextChild => /\ Top.kind = "starting" /\ Is(n, Top.kind, Top.svc)
                           /\ m = n + 1 /\ \E s \in Service : Is(n + 1, "start", s)
    BY <1>3 DEF StackAfter, Visits, StartNextChild, n, m
  <1>17. SpareChild => Top.kind = "stopping" /\ Is(n, Top.kind, Top.svc) /\ m = n
    BY <1>3 DEF StackAfter, Visits, SpareChild, n, m
  <1>18. StopNextChild => /\ Top.kind = "stopping" /\ Is(n, Top.kind, Top.svc)
                          /\ m = n + 1 /\ \E s \in Service : Is(n + 1, "stop", s)
    BY <1>3 DEF StackAfter, Visits, StopNextChild, n, m
  <1>19. MonitorVisit => /\ Top.kind = "monitor" /\ Is(n, Top.kind, Top.svc)
                         /\ \/ m = n
                            \/ m = n + 1 /\ \E s \in Service : Is(n + 1, "heal", s)
                            \/ m = n + 2 /\ \E s \in Service :
                                  Is(n + 1, "heal", s) /\ Is(n + 2, "stop", s)
    BY <1>3 DEF StackAfter, Visits, MonitorVisit, n, m
  <1>20. m = n - 1 => \A i \in 1 .. m : New(i) BY <1>6
  <1>21. CASE StartSucceeds \/ StopBegins \/ SelfHeal
    BY <1>8, <1>12, <1>13, <1>14, <1>20, <1>21
  <1>22. CASE StartNextChild \/ SpareChild \/ StopNextChild \/ MonitorVisit
    BY <1>10, <1>16, <1>17, <1>18, <1>19, <1>22
  <1> QED
    BY <1>7, <1>9, <1>11, <1>15, <1>21, <1>22 DEF Step, Pops

LEMMA NextShape ==
    ASSUME TypeOK, Shape, [Next]_vars
    PROVE  Shape'
  <1>1. CASE Step BY <1>1, StepShape
  <1>2. CASE Lock
    <2>1. LockStackAfter BY <1>2, LockStack
    <2>2. \/ Len(stack') = 0
          \/ Len(stack') = 1 /\ \E s \in Service, k \in {"start", "stop", "heal"} : Is(1, k, s)
          \/ Len(stack') = 1 /\ \E k \in {"monitor", "shutdown"} : Is(1, k, NoService)
          \/ Len(stack') = 2 /\ \E s \in Service, k \in {"restart", "heal"} :
                                   Is(1, k, s) /\ Is(2, "stop", s)
      BY <1>2, <2>1 DEF LockStackAfter, Lock
    <2>3. CASE Len(stack') = 0 BY <2>3 DEF Shape, Frames
    <2>4. CASE \/ Len(stack') = 1
                  /\ \E s \in Service, k \in {"start", "stop", "heal"} : Is(1, k, s)
               \/ Len(stack') = 1 /\ \E k \in {"monitor", "shutdown"} : Is(1, k, NoService)
      <3>1. Len(stack') = 1 BY <2>4
      <3>2. Frames' = {1} BY <3>1 DEF Frames
      <3> QED BY <2>4, <3>1, <3>2 DEF Shape, Is
    <2>5. CASE /\ Len(stack') = 2
               /\ \E s \in Service, k \in {"restart", "heal"} :
                     Is(1, k, s) /\ Is(2, "stop", s)
      <3>1. Frames' = {1, 2} BY <2>5 DEF Frames
      <3> QED BY <2>5, <3>1 DEF Shape, Is
    <2> QED BY <2>2, <2>3, <2>4, <2>5
  <1>3. CASE Environment \/ UNCHANGED vars
    <2>1. stack' = stack BY <1>3 DEF Environment, vars
    <2> QED BY <2>1 DEF Shape, Frames
  <1> QED BY <1>1, <1>2, <1>3 DEF Next

\* The state stays within its types: the stack holds only calls that the code
\* makes, for services that exist (the type invariant of Supervisor).
THEOREM TypeCorrect == Spec => []TypeOK
  <1>1. Init => TypeOK /\ Shape BY InitType
  <1>2. (TypeOK /\ Shape) /\ [Next]_vars => (TypeOK /\ Shape)'
    BY NextType, NextShape
  <1> QED BY <1>1, <1>2, PTL DEF Spec

-----------------------------------------------------------------------------
(* The graph.                                                              *)

LEMMA DependsOnNames ==
    ASSUME NEW s \in Service
    PROVE  /\ DependsOn(s) \subseteq NameSet
           /\ \A p \in Service : LinkedBy(s, p) \subseteq NameSet
  <1>1. Depends[s] \in Seq(NameSet) BY NamesAssumption
  <1>2. \A i \in DOMAIN Depends[s] : Depends[s][i] \in NameSet BY <1>1
  <1> QED BY <1>2 DEF DependsOn, LinkedBy

\* setManager links a service that was not a member at both ends of each edge.
LEMMA AddKeepsGraph ==
    ASSUME GraphTypeOK, GraphInv, NEW s \in Service, s \notin services,
           setManager(s)
    PROVE  GraphInv'
  <1>1. ASSUME NEW t \in Service, NEW p \in Service
        PROVE  /\ t \in children'[p] <=> \E d \in NameSet : p \in parents'[t][d]
               /\ t \in children'[p] => {t, p} \subseteq services' /\ t # p
    <2>1. /\ t \in children[p] <=> \E d \in NameSet : p \in parents[t][d]
          /\ t \in children[p] => {t, p} \subseteq services /\ t # p
      BY DEF GraphInv, GraphMirrors
    <2>2. services' = services \cup {s} BY DEF setManager
    <2>3. children'[p] = IF p = s
                         THEN {c \in services : LinkedBy(c, s) # {}}
                         ELSE IF p \in services /\ LinkedBy(s, p) # {}
                              THEN children[p] \cup {s} ELSE children[p]
      BY DEF setManager
    <2>4. \A d \in NameSet :
            parents'[t][d] = IF t = s
                             THEN {q \in services : d \in LinkedBy(s, q)}
                             ELSE IF t \in services /\ d \in LinkedBy(t, s)
                                  THEN parents[t][d] \cup {s} ELSE parents[t][d]
      BY DEF setManager
    <2>5. LinkedBy(s, p) \subseteq NameSet /\ LinkedBy(t, s) \subseteq NameSet
      BY DependsOnNames
    <2>6. CASE t = s BY <2>1, <2>2, <2>3, <2>4, <2>5, <2>6
    <2>7. CASE t # s /\ p = s
      <3>1. \A d \in NameSet : s \notin parents[t][d] BY <2>1, <2>7
      <3>2. t \in children'[p] <=> t \in services /\ LinkedBy(t, s) # {}
        BY <2>3, <2>7
      <3>3. \A d \in NameSet :
              p \in parents'[t][d] <=> t \in services /\ d \in LinkedBy(t, s)
        BY <2>4, <2>7, <3>1
      <3> QED BY <2>2, <2>5, <2>7, <3>2, <3>3
    <2>8. CASE t # s /\ p # s BY <2>1, <2>2, <2>3, <2>4, <2>8
    <2> QED BY <2>6, <2>7, <2>8
  <1>2. ASSUME NEW t \in Service, NEW p \in Service
        PROVE  /\ t \in incompat'[p] <=> p \in incompat'[t]
               /\ t \in incompat'[p] => {t, p} \subseteq services' /\ t # p
    <2>1. /\ t \in incompat[p] <=> p \in incompat[t]
          /\ t \in incompat[p] => {t, p} \subseteq services /\ t # p
      BY DEF GraphInv, GraphMirrors
    <2>2. services' = services \cup {s} BY DEF setManager
    <2>3. \A q \in Service :
            incompat'[q] = IF q = s
                           THEN {c \in services : Clash(s, c)}
                           ELSE IF q \in services /\ Clash(s, q)
                                THEN incompat[q] \cup {s} ELSE incompat[q]
      BY DEF setManager
    <2> QED BY <2>1, <2>2, <2>3
  <1> QED BY <1>1, <1>2 DEF GraphInv, GraphMirrors

\* delManager finds both ends of every edge of the service it removes.
LEMMA RemoveKeepsGraph ==
    ASSUME GraphTypeOK, GraphInv, NEW s \in Service, delManager(s)
    PROVE  GraphInv'
  <1>1. CASE s \notin services
    BY <1>1 DEF delManager, graphVars, GraphInv, GraphMirrors
  <1>2. CASE s \in services
    <2>1. ASSUME NEW t \in Service, NEW p \in Service
          PROVE  /\ t \in children'[p] <=> \E d \in NameSet : p \in parents'[t][d]
                 /\ t \in children'[p] => {t, p} \subseteq services' /\ t # p
      <3>1. /\ t \in children[p] <=> \E d \in NameSet : p \in parents[t][d]
            /\ t \in children[p] => {t, p} \subseteq services /\ t # p
            /\ t \in children[s] <=> \E d \in NameSet : s \in parents[t][d]
            /\ s \in children[p] <=> \E d \in NameSet : p \in parents[s][d]
        BY DEF GraphInv, GraphMirrors
      <3>2. services' = services \ {s} BY <1>2 DEF delManager
      <3>3. children'[p] = IF p = s THEN {}
                           ELSE IF \E d \in NameSet : p \in parents[s][d]
                                THEN children[p] \ {s} ELSE children[p]
        BY <1>2 DEF delManager
      <3>4. \A d \in NameSet :
              parents'[t][d] = IF t = s THEN {}
                               ELSE IF t \in children[s]
                                    THEN parents[t][d] \ {s} ELSE parents[t][d]
        <4>1. parents'[t] = IF t = s THEN NoLinks
                            ELSE IF t \in children[s]
                                 THEN [d \in NameSet |-> parents[t][d] \ {s}]
                                 ELSE parents[t]
          BY <1>2 DEF delManager
        <4> QED BY <4>1 DEF NoLinks
      <3> QED BY <3>1, <3>2, <3>3, <3>4
    <2>2. ASSUME NEW t \in Service, NEW p \in Service
          PROVE  /\ t \in incompat'[p] <=> p \in incompat'[t]
                 /\ t \in incompat'[p] => {t, p} \subseteq services' /\ t # p
      <3>1. /\ t \in incompat[p] <=> p \in incompat[t]
            /\ t \in incompat[p] => {t, p} \subseteq services /\ t # p
            /\ t \in incompat[s] <=> s \in incompat[t]
            /\ p \in incompat[s] <=> s \in incompat[p]
        BY DEF GraphInv, GraphMirrors
      <3>2. services' = services \ {s} BY <1>2 DEF delManager
      <3>3. \A q \in Service :
              incompat'[q] = IF q = s THEN {}
                             ELSE IF q \in incompat[s]
                                  THEN incompat[q] \ {s} ELSE incompat[q]
        BY <1>2 DEF delManager
      <3> QED BY <3>1, <3>2, <3>3
    <2> QED BY <2>1, <2>2 DEF GraphInv, GraphMirrors
  <1> QED BY <1>1, <1>2

\* Only three actions touch the graph.
LEMMA GraphSteps ==
    ASSUME TypeOK, Shape, [Next]_vars
    PROVE  \/ UNCHANGED graphVars
           \/ \E s \in Service : AddService(s) \/ DeleteService(s)
           \/ ShutdownRemoves /\ ~Idle /\ Top.svc \in Service
  <1>1. CASE Step
    <2>1. ShutdownRemoves => Top.svc \in Service
      BY <1>1, TopFacts DEF Step, ShutdownRemoves
    <2> QED
      BY <1>1, <2>1 DEF Step, StartReturns, StartRefused, StartFails, StartSucceeds,
         StartAttempted, StartNextChild, StopReturns, StopBegins, SpareChild,
         StopNextChild, StopEnds, SelfHeal, MonitorVisit, RestartResumes,
         ShutdownVisit, LoopEnds
  <1>2. CASE Lock
    BY <1>2 DEF Lock, EnableRefused, Enable, Disable, Restart, Clear, SetRestart,
       SetRate, Notify, MonitorPass, SetMonitoring, Shutdown, Operation
  <1>3. CASE Environment \/ UNCHANGED vars BY <1>3 DEF Environment, vars
  <1> QED BY <1>1, <1>2, <1>3 DEF Next

LEMMA NextGraph ==
    ASSUME TypeOK, Shape, GraphInv, [Next]_vars
    PROVE  GraphInv'
  <1>1. GraphTypeOK BY DEF TypeOK
  <1>2. CASE UNCHANGED graphVars
    BY <1>2 DEF graphVars, GraphInv, GraphMirrors
  <1>3. ASSUME NEW s \in Service, AddService(s) PROVE GraphInv'
    BY <1>1, <1>3, AddKeepsGraph DEF AddService, NameIsFree
  <1>4. ASSUME NEW s \in Service, DeleteService(s) PROVE GraphInv'
    BY <1>1, <1>4, RemoveKeepsGraph DEF DeleteService
  <1>5. CASE ShutdownRemoves /\ Top.svc \in Service
    BY <1>1, <1>5, RemoveKeepsGraph DEF ShutdownRemoves
  <1> QED BY <1>2, <1>3, <1>4, <1>5, GraphSteps

\* Whatever is added and removed, in whatever order and with whatever names,
\* the two ends of every edge of the graph agree and join members.
THEOREM GraphCorrect == Spec => []GraphMirrors
  <1>1. Init => GraphInv
    BY DEF Init, GraphInit, NoLinks, GraphInv, GraphMirrors
  <1>2. (TypeOK /\ Shape /\ GraphInv) /\ [Next]_vars => (TypeOK /\ Shape /\ GraphInv)'
    BY NextType, NextShape, NextGraph
  <1>3. GraphInv => GraphMirrors BY DEF GraphInv
  <1> QED BY InitType, <1>1, <1>2, <1>3, PTL DEF Spec

\* setManager compares the new service with every member, from both sides.
LEMMA AddKeepsCanonical ==
    ASSUME GraphTypeOK, GraphInv, GraphIsCanonical, NEW s \in Service,
           s \notin services, setManager(s)
    PROVE  GraphIsCanonical'
  <1>1. services \subseteq Service BY DEF GraphTypeOK
  <1>2. services' = services \cup {s} BY DEF setManager
  <1>3. \A t \in services : s \notin incompat[t] /\ \A d \in NameSet : s \notin parents[t][d]
    BY <1>1 DEF GraphInv, GraphMirrors
  <1> SUFFICES ASSUME NEW t \in services', NEW p \in services', t # p
               PROVE  /\ \A d \in NameSet : p \in parents'[t][d] <=> d \in LinkedBy(t, p)
                      /\ t \in incompat'[p] <=> Clash(t, p)
    BY DEF GraphIsCanonical
  <1>4. t \in Service /\ p \in Service BY <1>1, <1>2
  <1>5. \A d \in NameSet :
          parents'[t][d] = IF t = s THEN {q \in services : d \in LinkedBy(s, q)}
                           ELSE IF t \in services /\ d \in LinkedBy(t, s)
                                THEN parents[t][d] \cup {s} ELSE parents[t][d]
    BY <1>4 DEF setManager
  <1>6. incompat'[p] = IF p = s THEN {c \in services : Clash(s, c)}
                       ELSE IF p \in services /\ Clash(s, p)
                            THEN incompat[p] \cup {s} ELSE incompat[p]
    BY <1>4 DEF setManager
  <1>7. t \in services /\ p \in services =>
          /\ \A d \in NameSet : p \in parents[t][d] <=> d \in LinkedBy(t, p)
          /\ t \in incompat[p] <=> Clash(t, p)
    BY DEF GraphIsCanonical
  <1>8. Clash(s, t) <=> Clash(t, s) BY DEF Clash
  <1>9. \A d \in NameSet : p \in parents'[t][d] <=> d \in LinkedBy(t, p)
    <2>1. CASE t = s BY <1>2, <1>5, <2>1
    <2>2. CASE t # s /\ p = s BY <1>2, <1>3, <1>5, <2>2
    <2>3. CASE t # s /\ p # s BY <1>2, <1>5, <1>7, <2>3
    <2> QED BY <2>1, <2>2, <2>3
  <1>10. t \in incompat'[p] <=> Clash(t, p)
    <2>1. CASE p = s BY <1>2, <1>6, <1>8, <2>1
    <2>2. CASE p # s /\ t = s BY <1>2, <1>3, <1>6, <2>2
    <2>3. CASE p # s /\ t # s BY <1>2, <1>6, <1>7, <2>3
    <2> QED BY <2>1, <2>2, <2>3
  <1> QED BY <1>9, <1>10

\* delManager takes nothing away between two others.
LEMMA RemoveKeepsCanonical ==
    ASSUME GraphTypeOK, GraphIsCanonical, NEW s \in Service, delManager(s)
    PROVE  GraphIsCanonical'
  <1>1. CASE s \notin services
    BY <1>1 DEF delManager, graphVars, GraphIsCanonical
  <1>2. CASE s \in services
    <2>1. services' = services \ {s} BY <1>2 DEF delManager
    <2> SUFFICES ASSUME NEW t \in services', NEW p \in services', t # p
                 PROVE  /\ \A d \in NameSet : p \in parents'[t][d] <=> d \in LinkedBy(t, p)
                        /\ t \in incompat'[p] <=> Clash(t, p)
      BY DEF GraphIsCanonical
    <2>2. t \in Service /\ p \in Service /\ t # s /\ p # s
      BY <2>1 DEF GraphTypeOK
    <2>3. \A d \in NameSet :
            parents'[t][d] = IF t \in children[s]
                             THEN parents[t][d] \ {s} ELSE parents[t][d]
      <3>1. parents'[t] = IF t \in children[s]
                          THEN [d \in NameSet |-> parents[t][d] \ {s}] ELSE parents[t]
        BY <1>2, <2>2 DEF delManager
      <3> QED BY <3>1
    <2>4. incompat'[p] = IF p \in incompat[s] THEN incompat[p] \ {s} ELSE incompat[p]
      BY <1>2, <2>2 DEF delManager
    <2>5. /\ \A d \in NameSet : p \in parents[t][d] <=> d \in LinkedBy(t, p)
          /\ t \in incompat[p] <=> Clash(t, p)
      BY <2>1 DEF GraphIsCanonical
    <2> QED BY <2>2, <2>3, <2>4, <2>5
  <1> QED BY <1>1, <1>2

LEMMA NextCanonical ==
    ASSUME TypeOK, Shape, GraphInv, GraphIsCanonical, [Next]_vars
    PROVE  GraphIsCanonical'
  <1>1. GraphTypeOK BY DEF TypeOK
  <1>2. CASE UNCHANGED graphVars
    BY <1>2 DEF graphVars, GraphIsCanonical
  <1>3. ASSUME NEW s \in Service, AddService(s) PROVE GraphIsCanonical'
    BY <1>1, <1>3, AddKeepsCanonical DEF AddService, NameIsFree
  <1>4. ASSUME NEW s \in Service, DeleteService(s) PROVE GraphIsCanonical'
    BY <1>1, <1>4, RemoveKeepsCanonical DEF DeleteService
  <1>5. CASE ShutdownRemoves /\ Top.svc \in Service
    BY <1>1, <1>5, RemoveKeepsCanonical DEF ShutdownRemoves
  <1> QED BY <1>2, <1>3, <1>4, <1>5, GraphSteps

\* The graph is what the names of the members call for, whatever the order in
\* which they were added and whoever came and went in between.
THEOREM GraphCanonical == Spec => []GraphIsCanonical
  <1>1. Init => GraphInv /\ GraphIsCanonical
    BY DEF Init, GraphInit, NoLinks, GraphInv, GraphMirrors, GraphIsCanonical
  <1>2. (TypeOK /\ Shape /\ GraphInv /\ GraphIsCanonical) /\ [Next]_vars
        => (TypeOK /\ Shape /\ GraphInv /\ GraphIsCanonical)'
    BY NextType, NextShape, NextGraph, NextCanonical
  <1> QED BY InitType, <1>1, <1>2, PTL DEF Spec

-----------------------------------------------------------------------------
(* Who is enabled.                                                         *)

\* Within an operation the enabled flags only go down, until a restart comes
\* back, which is the only call on the stack then.
LEMMA StepEnabled ==
    ASSUME TypeOK, Shape, Step
    PROVE  \/ /\ RestartResumes /\ Top.kind = "restart" /\ Top = stack[1]
              /\ 1 \in Frames /\ Len(stack') = 1 /\ stack'[1].kind = "start"
              /\ Top.svc \in Service /\ enabled' = enabled \cup {Top.svc}
           \/ ~RestartResumes /\ enabled' \in SUBSET enabled
  <1>1. ~Idle BY DEF Step
  <1>2. /\ Len(stack) \in Nat \ {0} /\ Top = stack[Len(stack)]
        /\ Top.kind \notin {"monitor", "shutdown"} => Top.svc \in Service
    BY <1>1, TopFacts
  <1>3. CASE RestartResumes
    <2>1. Top.kind = "restart" /\ enabled' = enabled \cup {Top.svc}
      BY <1>3 DEF RestartResumes
    <2>2. Len(stack) = 1
      <3>1. Len(stack) \in Frames BY <1>2 DEF Frames
      <3> QED BY <1>2, <2>1, <3>1 DEF Shape
    <2>3. Len(stack') = 1 /\ Is(1, "start", Top.svc)
      BY <1>3, <2>2, StepStack DEF StackAfter
    <2> QED BY <1>2, <1>3, <2>1, <2>2, <2>3 DEF Frames, Is
  <1>4. CASE ~RestartResumes
    <2>1. UNCHANGED enabled \/ \E s \in Service : enabled' = enabled \ {s}
      BY <1>2, <1>4, StepStack DEF Step, StartReturns, StartRefused, StartFails,
         StartSucceeds, StartAttempted, StartNextChild, StopReturns, StopBegins,
         SpareChild, StopNextChild, StopEnds, SelfHeal, MonitorVisit,
         ShutdownRemoves, LoopEnds, serviceVars, StackAfter
    <2> QED BY <1>4, <2>1
  <1> QED BY <1>3, <1>4

\* The frames of restarts and removals stay as they are; the only new ones are
\* removals of services that have just been disabled.
LEMMA StepPendingFrames ==
    ASSUME TypeOK, Shape, Step, ~RestartResumes, NEW i \in Frames',
           stack'[i].kind \in {"restart", "remove"}
    PROVE  \/ /\ i \in Frames /\ stack[i].kind = stack'[i].kind
              /\ stack[i].svc = stack'[i].svc
           \/ stack'[i].kind = "remove" /\ stack'[i].svc \notin enabled'
  <1> DEFINE n == Len(stack)
             m == Len(stack')
  <1>1. ~Idle BY DEF Step
  <1>2. n \in Nat \ {0} /\ Top = stack[n] BY <1>1, TopFacts
  <1>3. StackAfter(n) BY StepStack
  <1>4. i \in 1 .. m BY DEF Frames
  <1>5. \A j \in 1 .. (n - 1) : stack'[j] = stack[j] BY <1>3 DEF StackAfter
  <1> HIDE DEF n, m
  <1>6. CASE i \in 1 .. (n - 1) BY <1>2, <1>5, <1>6 DEF Frames, n
  <1>7. CASE Pops
    <2>1. m = n - 1 BY <1>3, <1>7 DEF StackAfter, m
    <2> QED BY <1>2, <1>4, <1>6, <2>1
  <1>8. CASE StartSucceeds \/ StopBegins \/ SelfHeal
    <2>1. m = n - 1 \/ (m = n /\ stack'[n].kind \in {"starting", "stopping", "start"})
      BY <1>3, <1>8 DEF StackAfter, Is, m
    <2> QED BY <1>2, <1>4, <1>6, <2>1
  <1>9. CASE StartNextChild \/ SpareChild \/ StopNextChild
    <2>1. /\ m \in {n, n + 1}
          /\ m = n + 1 => stack'[n + 1].kind \in {"start", "stop"}
          /\ stack'[n].kind = Top.kind /\ stack'[n].svc = Top.svc
      BY <1>2, <1>3, <1>9 DEF StackAfter, Visits, Is, m
    <2> QED BY <1>2, <1>4, <1>6, <2>1 DEF Frames, n
  <1>10. CASE MonitorVisit
    <2>1. /\ m \in {n, n + 1, n + 2}
          /\ m \in {n + 1, n + 2} => stack'[n + 1].kind = "heal"
          /\ m = n + 2 => stack'[n + 2].kind = "stop"
          /\ stack'[n].kind = Top.kind /\ stack'[n].svc = Top.svc
      BY <1>2, <1>3, <1>10 DEF StackAfter, Visits, Is, m
    <2> QED BY <1>2, <1>4, <1>6, <2>1 DEF Frames, n
  <1>11. CASE ShutdownVisit
    <2>1. PICK s \in Service :
            /\ m = n + 2 /\ enabled' = enabled \ {s}
            /\ Is(n, Top.kind, Top.svc)
            /\ Is(n + 1, "remove", s) /\ Is(n + 2, "stop", s)
      BY <1>3, <1>11 DEF StackAfter, Visits, m
    <2>2. CASE i = n BY <1>2, <2>1, <2>2 DEF Frames, Is, n
    <2>3. CASE i = n + 1 BY <2>1, <2>3 DEF Is
    <2>4. CASE i = n + 2 BY <2>1, <2>4 DEF Is
    <2> QED BY <1>2, <1>4, <1>6, <2>1, <2>2, <2>3, <2>4
  <1> QED BY <1>7, <1>8, <1>9, <1>10, <1>11 DEF Step, Pops

LEMMA StepPending ==
    ASSUME TypeOK, Shape, GraphInv, Pending, NoConflictEnabled, Step
    PROVE  Pending' /\ NoConflictEnabled'
  <1>1. ~Idle BY DEF Step
  <1>2. enabled \in SUBSET Service /\ \A s \in Service : incompat[s] \in SUBSET Service
    BY DEF TypeOK, GraphTypeOK
  <1>3. CASE RestartResumes
    <2>1. /\ Top.kind = "restart" /\ Top = stack[1] /\ 1 \in Frames
          /\ Len(stack') = 1 /\ stack'[1].kind = "start"
          /\ Top.svc \in Service /\ enabled' = enabled \cup {Top.svc}
      BY <1>3, StepEnabled
    <2>2. UNCHANGED graphVars BY <1>3 DEF RestartResumes
    <2>3. Top.svc \in services /\ incompat[Top.svc] \cap enabled = {}
      BY <2>1 DEF Pending
    <2>4. Frames' = {1} BY <2>1 DEF Frames
    <2>5. Pending' BY <2>1, <2>2, <2>3, <2>4 DEF Pending, graphVars
    <2>6. \A s \in enabled : incompat[s] \cap (enabled \cup {Top.svc}) = {}
      BY <1>2, <2>1, <2>3 DEF NoConflictEnabled, GraphInv, GraphMirrors
    <2>7. incompat[Top.svc] \cap (enabled \cup {Top.svc}) = {}
      BY <2>1, <2>3 DEF GraphInv
    <2>8. NoConflictEnabled'
      BY <2>1, <2>2, <2>6, <2>7 DEF NoConflictEnabled, graphVars
    <2> QED BY <2>5, <2>8
  <1>4. CASE ~RestartResumes
    <2>1. enabled' \in SUBSET enabled BY <1>4, StepEnabled
    <2>2. \A i \in Frames' : stack'[i].kind \in {"restart", "remove"} =>
            \/ /\ i \in Frames /\ stack[i].kind = stack'[i].kind
               /\ stack[i].svc = stack'[i].svc
            \/ stack'[i].kind = "remove" /\ stack'[i].svc \notin enabled'
      BY <1>4, StepPendingFrames
    <2>3. CASE UNCHANGED graphVars
      <3>1. Pending' BY <2>1, <2>2, <2>3 DEF Pending, graphVars
      <3>2. NoConflictEnabled' BY <2>1, <2>3 DEF NoConflictEnabled, graphVars
      <3> QED BY <3>1, <3>2
    <2>4. CASE ShutdownRemoves
      <3>1. /\ Len(stack) \in Nat \ {0} /\ Top = stack[Len(stack)]
            /\ Top.kind = "remove" /\ Top.svc \in Service
        BY <1>1, <2>4, TopFacts DEF ShutdownRemoves
      <3>2. Len(stack) = 2 /\ stack[1].kind = "shutdown" /\ Top.svc \notin enabled
        <4>1. Len(stack) \in Frames BY <3>1 DEF Frames
        <4> QED BY <3>1, <4>1 DEF Shape, Pending
      <3>3. Len(stack') = 1 /\ stack'[1] = stack[1]
        BY <2>4, <3>2, StepStack DEF StackAfter, Pops
      <3>4. delManager(Top.svc) /\ enabled' = enabled BY <2>4 DEF ShutdownRemoves
      <3>5. /\ services \ {Top.svc} \subseteq services'
            /\ \A t \in Service : incompat'[t] \subseteq incompat[t]
        BY <1>2, <3>1, <3>4 DEF delManager, graphVars
      <3>6. Frames' = {1} BY <3>3 DEF Frames
      <3>7. Pending' BY <3>2, <3>3, <3>4, <3>5, <3>6 DEF Pending
      <3>8. NoConflictEnabled' BY <1>2, <3>4, <3>5 DEF NoConflictEnabled
      <3> QED BY <3>7, <3>8
    <2>5. UNCHANGED graphVars \/ ShutdownRemoves
      BY DEF Step, StartReturns, StartRefused, StartFails, StartSucceeds,
         StartAttempted, StartNextChild, StopReturns, StopBegins, SpareChild,
         StopNextChild, StopEnds, SelfHeal, MonitorVisit, RestartResumes,
         ShutdownVisit, LoopEnds
    <2> QED BY <2>3, <2>4, <2>5
  <1> QED BY <1>3, <1>4

\* An operation on a member keeps its promises to the calls it makes.
LEMMA LockPending ==
    ASSUME TypeOK, GraphInv, Pending, NoConflictEnabled, Lock
    PROVE  Pending' /\ NoConflictEnabled'
  <1> DEFINE NoFrames == \A i \in Frames' : stack'[i].kind \notin {"restart", "remove"}
  <1>1. LockStackAfter BY LockStack
  <1>2. /\ services \in SUBSET Service /\ enabled \in SUBSET Service
        /\ \A s \in Service : incompat[s] \in SUBSET Service
    BY DEF TypeOK, GraphTypeOK
  <1>3. ASSUME \/ Len(stack') = 0
               \/ Len(stack') = 1 /\ \E s, k : Is(1, k, s) /\ k \notin {"restart", "remove"}
               \/ /\ Len(stack') = 2
                  /\ \E s, k : Is(1, k, s) /\ k \notin {"restart", "remove"}
                  /\ \E s, k : Is(2, k, s) /\ k \notin {"restart", "remove"}
        PROVE  NoFrames
    <2>1. Len(stack') = 0 => Frames' = {} BY DEF Frames
    <2>2. Len(stack') = 1 => Frames' = {1} BY DEF Frames
    <2>3. Len(stack') = 2 => Frames' = {1, 2} BY DEF Frames
    <2> QED BY <1>3, <2>1, <2>2, <2>3 DEF Is
  <1>4. ASSUME UNCHANGED graphVars, enabled' \in SUBSET enabled, NoFrames
        PROVE  Pending' /\ NoConflictEnabled'
    <2>1. Pending' BY <1>4 DEF Pending, graphVars
    <2>2. NoConflictEnabled' BY <1>4 DEF NoConflictEnabled, graphVars
    <2> QED BY <2>1, <2>2
  <1> HIDE DEF NoFrames
  <1>5. ASSUME NEW s \in Service, AddService(s)
        PROVE  Pending' /\ NoConflictEnabled'
    <2>1. NoFrames BY <1>1, <1>3, <1>5 DEF LockStackAfter
    <2>2. /\ s \notin services /\ s \notin enabled /\ services \subseteq services'
          /\ enabled' = enabled
          /\ \A t \in Service : t # s => incompat'[t] \subseteq incompat[t] \cup {s}
      BY <1>5 DEF AddService, NameIsFree, setManager, Pending
    <2>3. Pending' BY <2>1, <2>2 DEF Pending, NoFrames
    <2>4. NoConflictEnabled' BY <1>2, <2>2 DEF NoConflictEnabled
    <2> QED BY <2>3, <2>4
  <1>6. ASSUME NEW s \in Service, DeleteService(s)
        PROVE  Pending' /\ NoConflictEnabled'
    <2>1. NoFrames BY <1>1, <1>3, <1>6 DEF LockStackAfter
    <2>2. s \notin enabled /\ enabled' = enabled /\ delManager(s)
      BY <1>6 DEF DeleteService
    <2>3. /\ services \ {s} \subseteq services'
          /\ \A t \in Service : incompat'[t] \subseteq incompat[t]
      BY <1>2, <2>2 DEF delManager, graphVars
    <2>4. Pending' BY <2>1, <2>2, <2>3 DEF Pending, NoFrames
    <2>5. NoConflictEnabled' BY <1>2, <2>2, <2>3 DEF NoConflictEnabled
    <2> QED BY <2>4, <2>5
  <1>7. ASSUME NEW s \in Service, Enable(s)
        PROVE  Pending' /\ NoConflictEnabled'
    <2>1. Len(stack') = 1 /\ Is(1, "start", s) BY <1>1, <1>7 DEF LockStackAfter
    <2>2. NoFrames BY <1>3, <2>1
    <2>3. /\ UNCHANGED graphVars /\ s \in services
          /\ enabled' = enabled \cup {s} /\ incompat[s] \cap enabled = {}
      BY <1>7 DEF Enable, Operation
    <2>4. Pending' BY <2>2, <2>3 DEF Pending, NoFrames, graphVars
    <2>5. \A t \in enabled : incompat[t] \cap (enabled \cup {s}) = {}
      BY <1>2, <2>3 DEF NoConflictEnabled, GraphInv, GraphMirrors
    <2>6. incompat[s] \cap (enabled \cup {s}) = {} BY <2>3 DEF GraphInv
    <2>7. NoConflictEnabled' BY <2>3, <2>5, <2>6 DEF NoConflictEnabled, graphVars
    <2> QED BY <2>4, <2>7
  <1>8. ASSUME NEW s \in Service, Restart(s)
        PROVE  Pending' /\ NoConflictEnabled'
    <2>1. Len(stack') = 2 /\ Is(1, "restart", s) /\ Is(2, "stop", s)
      BY <1>1, <1>8 DEF LockStackAfter
    <2>2. /\ UNCHANGED graphVars /\ s \in services
          /\ s \in enabled /\ enabled' = enabled \ {s}
      BY <1>8 DEF Restart, Operation
    <2>3. incompat[s] \cap enabled = {} BY <2>2 DEF NoConflictEnabled
    <2>4. Frames' = {1, 2} BY <2>1 DEF Frames
    <2>5. Pending' BY <2>1, <2>2, <2>3, <2>4 DEF Pending, Is, graphVars
    <2>6. NoConflictEnabled' BY <2>2 DEF NoConflictEnabled, graphVars
    <2> QED BY <2>5, <2>6
  <1>9. ASSUME NEW s \in Service,
               EnableRefused(s) \/ SetRestart(s) \/ SetRate(s) \/ Clear(s)
               \/ Disable(s) \/ Notify(s)
        PROVE  Pending' /\ NoConflictEnabled'
    <2>1. UNCHANGED graphVars /\ enabled' \in SUBSET enabled
      BY <1>9 DEF EnableRefused, SetRestart, SetRate, Clear, Disable, Notify, Operation
    <2>2. \/ Len(stack') = 0
          \/ Len(stack') = 1
             /\ (Is(1, "start", s) \/ Is(1, "stop", s) \/ Is(1, "heal", s))
          \/ Len(stack') = 2 /\ Is(1, "heal", s) /\ Is(2, "stop", s)
      BY <1>1, <1>9 DEF LockStackAfter
    <2>3. NoFrames BY <1>3, <2>2
    <2> QED BY <1>4, <2>1, <2>3
  <1>10. ASSUME MonitorPass \/ SetMonitoring \/ Shutdown
         PROVE  Pending' /\ NoConflictEnabled'
    <2>1. UNCHANGED graphVars /\ enabled' \in SUBSET enabled
      BY <1>10 DEF MonitorPass, SetMonitoring, Shutdown, serviceVars
    <2>2. \/ Len(stack') = 0
          \/ Len(stack') = 1
             /\ (Is(1, "monitor", NoService) \/ Is(1, "shutdown", NoService))
      BY <1>1, <1>10 DEF LockStackAfter
    <2>3. NoFrames BY <1>3, <2>2
    <2> QED BY <1>4, <2>1, <2>3
  <1> QED BY <1>5, <1>6, <1>7, <1>8, <1>9, <1>10 DEF Lock

LEMMA NextPending ==
    ASSUME TypeOK, Shape, GraphInv, Pending, NoConflictEnabled, [Next]_vars
    PROVE  Pending' /\ NoConflictEnabled'
  <1>1. CASE Environment \/ UNCHANGED vars
    <2>1. UNCHANGED <<graphVars, enabled, stack>>
      BY <1>1 DEF Environment, vars, serviceVars
    <2> QED BY <2>1 DEF Pending, Frames, NoConflictEnabled, graphVars
  <1> QED BY <1>1, StepPending, LockPending DEF Next

\* No two conflicting services are ever enabled together: Restart, which raises
\* the flag again without a look at the conflicts, finds none, since whoever
\* would have raised the flag of a rival meanwhile needs the lock.
THEOREM ConflictsExcluded == Spec => []NoConflictEnabled
  <1>1. Init => GraphInv /\ Pending /\ NoConflictEnabled
    BY DEF Init, GraphInit, NoLinks, GraphInv, GraphMirrors, Pending, Frames,
           NoConflictEnabled
  <1>2. (TypeOK /\ Shape /\ GraphInv /\ Pending /\ NoConflictEnabled) /\ [Next]_vars
          => (TypeOK /\ Shape /\ GraphInv /\ Pending /\ NoConflictEnabled)'
    BY NextType, NextShape, NextGraph, NextPending
  <1> QED BY InitType, <1>1, <1>2, PTL DEF Spec

-----------------------------------------------------------------------------
(* Who is being stopped.                                                   *)

\* The calls to stopRecurse past their guard: a step begins the call on top, ends
\* it, or moves its loop on; all the others stay as they are.
LEMMA StepStopping ==
    ASSUME TypeOK, Shape, Step
    PROVE  LET n == Len(stack)
               IsStopping(i) == stack[i].kind = "stopping"
           IN
           /\ \A i \in Frames \ {n} : IsStopping(i) => i \in Frames' /\ stack'[i] = stack[i]
           /\ \A i \in Frames' : stack'[i].kind = "stopping" =>
                \/ i \in Frames \ {n} /\ stack'[i] = stack[i]
                \/ i = n
           /\ StopBegins =>
                n \in Frames' /\ Is(n, "stopping", Top.svc)
           /\ StopEnds => n \notin Frames'
           /\ ~StopBegins /\ ~StopEnds =>
                /\ IsStopping(n) => n \in Frames' /\ Is(n, "stopping", Top.svc)
                /\ n \in Frames' /\ stack'[n].kind = "stopping" =>
                      IsStopping(n) /\ stack'[n].svc = Top.svc
  <1> DEFINE n == Len(stack)
             m == Len(stack')
  <1>1. ~Idle BY DEF Step
  <1>2. n \in Nat \ {0} /\ Top = stack[n] BY <1>1, TopFacts
  <1>3. StackAfter(n) BY StepStack
  <1>4. /\ \A j \in 1 .. (n - 1) : stack'[j] = stack[j]
        /\ m \in {n - 1, n, n + 1, n + 2}
    BY <1>3 DEF StackAfter
  <1>5. Frames = 1 .. n /\ Frames' = 1 .. m BY DEF Frames
  <1> HIDE DEF n, m
  <1>6. \A i \in Frames \ {n} : i \in Frames' /\ stack'[i] = stack[i]
    BY <1>2, <1>4, <1>5
  <1>7. ASSUME m >= n + 1
        PROVE  /\ stack'[n + 1].kind # "stopping"
               /\ m = n + 2 => stack'[n + 2].kind # "stopping"
    <2>1. ~Pops BY <1>2, <1>3, <1>7 DEF StackAfter, m
    <2>2. CASE StartNextChild \/ StopNextChild
      BY <1>2, <1>3, <1>7, <2>2 DEF StackAfter, Is, m
    <2>3. CASE MonitorVisit BY <1>2, <1>3, <1>7, <2>3 DEF StackAfter, Is, m
    <2>4. CASE ShutdownVisit BY <1>2, <1>3, <1>7, <2>4 DEF StackAfter, Is, m
    <2>5. CASE StartSucceeds \/ StopBegins \/ SpareChild \/ SelfHeal \/ RestartResumes
      BY <1>2, <1>3, <1>7, <2>5 DEF StackAfter, m
    <2> QED BY <2>1, <2>2, <2>3, <2>4, <2>5 DEF Step, Pops
  <1>8. \A i \in Frames' : stack'[i].kind = "stopping" =>
           (i \in Frames \ {n} /\ stack'[i] = stack[i]) \/ i = n
    BY <1>2, <1>4, <1>5, <1>7
  <1>9. StopBegins => n \in Frames' /\ Is(n, "stopping", Top.svc)
    BY <1>2, <1>3, <1>5 DEF StackAfter, m
  <1>10. StopEnds => n \notin Frames'
    BY <1>2, <1>3, <1>5 DEF StackAfter, Pops, m
  <1>11. ASSUME ~StopBegins, ~StopEnds
         PROVE  /\ stack[n].kind = "stopping" =>
                     n \in Frames' /\ Is(n, "stopping", Top.svc)
                /\ n \in Frames' /\ stack'[n].kind = "stopping" =>
                     stack[n].kind = "stopping" /\ stack'[n].svc = Top.svc
    <2>1. CASE StartReturns \/ StartRefused \/ StartFails \/ StopReturns
               \/ ShutdownRemoves \/ LoopEnds
      <3>1. m = n - 1 BY <1>3, <2>1 DEF StackAfter, Pops, m
      <3>2. Top.kind # "stopping"
        BY <2>1 DEF StartReturns, StartRefused, StartFails, StartAttempted,
                    StopReturns, ShutdownRemoves, LoopEnds
      <3> QED BY <1>2, <1>5, <3>1, <3>2
    <2>2. CASE StartSucceeds \/ SelfHeal \/ RestartResumes
      <3>1. m = n - 1 \/ stack'[n].kind \in {"starting", "start"}
        BY <1>3, <2>2 DEF StackAfter, Is, m
      <3>2. Top.kind # "stopping"
        BY <2>2 DEF StartSucceeds, StartAttempted, SelfHeal, RestartResumes
      <3> QED BY <1>2, <1>5, <3>1, <3>2
    <2>3. CASE StartNextChild \/ SpareChild \/ StopNextChild \/ MonitorVisit
               \/ ShutdownVisit
      <3>1. m >= n /\ Is(n, Top.kind, Top.svc)
        BY <1>2, <1>3, <2>3 DEF StackAfter, Visits, m
      <3> QED BY <1>2, <1>5, <3>1 DEF Is
    <2> QED BY <1>11, <2>1, <2>2, <2>3 DEF Step
  <1> QED BY <1>6, <1>8, <1>9, <1>10, <1>11 DEF n

LEMMA StepStoppingIsCalled ==
    ASSUME TypeOK, Shape, StoppingIsCalled, Step
    PROVE  StoppingIsCalled'
  <1> DEFINE n == Len(stack)
             Loop(i) == stack[i].kind = "stopping"
             Loop1(i) == stack'[i].kind = "stopping"
  <1>1. ~Idle BY DEF Step
  <1>2. n \in Frames /\ Top = stack[n] BY <1>1, TopFacts DEF Frames
  <1>3. /\ \A i \in Frames \ {n} : Loop(i) => i \in Frames' /\ stack'[i] = stack[i]
        /\ \A i \in Frames' : Loop1(i) =>
             (i \in Frames \ {n} /\ stack'[i] = stack[i]) \/ i = n
        /\ StopBegins => n \in Frames' /\ Loop1(n) /\ stack'[n].svc = Top.svc
        /\ StopEnds => n \notin Frames'
        /\ ~StopBegins /\ ~StopEnds =>
             /\ Loop(n) => n \in Frames' /\ Loop1(n) /\ stack'[n].svc = Top.svc
             /\ n \in Frames' /\ Loop1(n) => Loop(n) /\ stack'[n].svc = Top.svc
    BY StepStopping DEF Is
  <1>4. /\ \A s \in stopping : \E i \in Frames : Loop(i) /\ stack[i].svc = s
        /\ \A i \in Frames : Loop(i) => stack[i].svc \in stopping
        /\ \A i, j \in Frames : Loop(i) /\ Loop(j) /\ stack[i].svc = stack[j].svc => i = j
    BY DEF StoppingIsCalled
  <1> SUFFICES /\ \A s \in stopping' : \E i \in Frames' : Loop1(i) /\ stack'[i].svc = s
               /\ \A i \in Frames' : Loop1(i) => stack'[i].svc \in stopping'
               /\ \A i, j \in Frames' :
                     Loop1(i) /\ Loop1(j) /\ stack'[i].svc = stack'[j].svc => i = j
    BY DEF StoppingIsCalled
  <1>5. CASE StopBegins
    <2>1. /\ Top.kind = "stop" /\ Top.svc \notin stopping
          /\ stopping' = stopping \cup {Top.svc}
      BY <1>5 DEF StopBegins
    <2>2. ~Loop(n) BY <1>2, <2>1
    <2> HIDE DEF n, Loop, Loop1
    <2>3. \A i \in Frames' : Loop1(i) =>
            \/ i = n /\ stack'[i].svc = Top.svc
            \/ i \in Frames /\ Loop(i) /\ stack'[i] = stack[i]
      BY <1>3, <1>5 DEF Loop, Loop1
    <2>4. \A i \in Frames : Loop(i) =>
            i \in Frames' /\ Loop1(i) /\ stack'[i] = stack[i]
      BY <1>3, <2>2 DEF Loop, Loop1
    <2>5. \A i \in Frames : Loop(i) => stack[i].svc # Top.svc
      BY <1>4, <2>1
    <2>6. n \in Frames' /\ Loop1(n) /\ stack'[n].svc = Top.svc
      BY <1>3, <1>5
    <2>7. \A s \in stopping' : \E i \in Frames' : Loop1(i) /\ stack'[i].svc = s
      BY <1>4, <2>1, <2>4, <2>6
    <2>8. \A i \in Frames' : Loop1(i) => stack'[i].svc \in stopping'
      BY <1>4, <2>1, <2>3
    <2>9. \A i, j \in Frames' :
             Loop1(i) /\ Loop1(j) /\ stack'[i].svc = stack'[j].svc => i = j
      BY <1>4, <2>3, <2>5
    <2> QED BY <2>7, <2>8, <2>9
  <1>6. CASE StopEnds
    <2>1. Top.kind = "stopping" /\ stopping' = stopping \ {Top.svc}
      BY <1>6 DEF StopEnds
    <2>2. Loop(n) /\ stack[n].svc = Top.svc BY <1>2, <2>1
    <2> HIDE DEF n, Loop, Loop1
    <2>3. \A i \in Frames' : Loop1(i) =>
            i \in Frames \ {n} /\ Loop(i) /\ stack'[i] = stack[i]
      BY <1>3, <1>6 DEF Loop, Loop1
    <2>4. \A i \in Frames \ {n} : Loop(i) => i \in Frames' /\ Loop1(i)
      BY <1>3 DEF Loop, Loop1
    <2> QED BY <1>2, <1>3, <1>4, <2>1, <2>2, <2>3, <2>4
  <1>7. CASE ~StopBegins /\ ~StopEnds
    <2>1. stopping' = stopping
      BY <1>7 DEF Step, StartReturns, StartRefused, StartFails, StartSucceeds,
         StartAttempted, StartNextChild, StopReturns, SpareChild, StopNextChild,
         SelfHeal, MonitorVisit, RestartResumes, ShutdownVisit, ShutdownRemoves,
         LoopEnds, serviceVars
    <2>2. \A i \in Frames' : Loop1(i) =>
            i \in Frames /\ Loop(i) /\ stack'[i].svc = stack[i].svc
      BY <1>2, <1>3, <1>7
    <2>3. \A i \in Frames : Loop(i) =>
            i \in Frames' /\ Loop1(i) /\ stack'[i].svc = stack[i].svc
      BY <1>2, <1>3, <1>7
    <2> HIDE DEF n, Loop, Loop1
    <2> QED BY <1>4, <2>1, <2>2, <2>3
  <1> QED BY <1>5, <1>6, <1>7

\* When the lock is free nothing is stopping, and nothing is about to be.
LEMMA IdleStopping ==
    ASSUME TypeOK, StoppingIsCalled, Idle
    PROVE  stopping = {} /\ \A s \in Service : ~Doomed(s)
  <1>1. Frames = {} BY DEF Idle, Frames
  <1> QED BY <1>1 DEF StoppingIsCalled, Doomed

LEMMA NextStoppingIsCalled ==
    ASSUME TypeOK, Shape, StoppingIsCalled, [Next]_vars
    PROVE  StoppingIsCalled'
  <1>1. CASE Lock
    <2>1. stopping' = stopping
      BY <1>1 DEF Lock, AddService, DeleteService, EnableRefused, Enable, Disable,
         Restart, Clear, SetRestart, SetRate, Notify, MonitorPass, SetMonitoring,
         Shutdown, Operation, serviceVars
    <2>2. Idle /\ LockStackAfter BY <1>1, LockStack
    <2>3. stopping' = {} BY <2>1, <2>2, IdleStopping
    <2>4. CASE Len(stack') = 0
      <3>1. Frames' = {} BY <2>4 DEF Frames
      <3> QED BY <2>3, <3>1 DEF StoppingIsCalled
    <2>5. CASE Len(stack') = 1 /\ stack'[1].kind # "stopping"
      <3>1. Frames' = {1} BY <2>5 DEF Frames
      <3> QED BY <2>3, <2>5, <3>1 DEF StoppingIsCalled
    <2>6. CASE Len(stack') = 2 /\ stack'[1].kind # "stopping"
                               /\ stack'[2].kind # "stopping"
      <3>1. Frames' = {1, 2} BY <2>6 DEF Frames
      <3> QED BY <2>3, <2>6, <3>1 DEF StoppingIsCalled
    <2> QED BY <1>1, <2>2, <2>4, <2>5, <2>6 DEF LockStackAfter, Lock, Is
  <1>2. CASE Environment \/ UNCHANGED vars
    <2>1. UNCHANGED <<stopping, stack>> BY <1>2 DEF Environment, vars, serviceVars
    <2> QED BY <2>1 DEF StoppingIsCalled, Frames
  <1> QED BY <1>1, <1>2, StepStoppingIsCalled DEF Next

-----------------------------------------------------------------------------
(* Who has failed.                                                         *)

LEMMA NextFailedIsStopping ==
    ASSUME TypeOK, Shape, StoppingIsCalled, FailedIsStopping, [Next]_vars
    PROVE  FailedIsStopping'
  <1> DEFINE OnTop(s) == stack # <<>> /\ Top.kind = "stop" /\ Top.svc = s
  <1>1. CASE Step
    <2>1. ~Idle /\ stack # <<>> BY <1>1 DEF Step, Idle
    <2>2. stack' \in Seq(Frame) BY <1>1, StepType DEF TypeOK
    \* A call to stopRecurse that is pushed is on top.
    <2>3. ASSUME NEW s, Is(Len(stack'), "stop", s), Len(stack') > 0 PROVE OnTop(s)'
      <3>1. stack' # <<>> BY <2>3
      <3>2. Last(stack') = stack'[Len(stack')] BY <2>2, <3>1, PopFacts
      <3> QED BY <2>3, <3>1, <3>2 DEF Top, Is
    <2>4. CASE StartSucceeds
      BY <2>1, <2>4 DEF StartSucceeds, StartAttempted, FailedIsStopping
    <2>5. CASE StartFails
      BY <2>1, <2>5 DEF StartFails, StartAttempted, FailedIsStopping
    <2>6. CASE StartReturns \/ StartRefused \/ StartNextChild \/ SpareChild
               \/ StopNextChild \/ SelfHeal \/ ShutdownVisit \/ ShutdownRemoves
               \/ LoopEnds
      BY <2>1, <2>6 DEF StartReturns, StartRefused, StartNextChild, SpareChild,
         StopNextChild, SelfHeal, ShutdownVisit, ShutdownRemoves, LoopEnds,
         serviceVars, FailedIsStopping
    <2>7. CASE StopReturns
      BY <2>1, <2>7 DEF StopReturns, serviceVars, FailedIsStopping
    <2>8. CASE StopBegins \/ StopEnds
      BY <2>1, <2>8 DEF StopBegins, StopEnds, FailedIsStopping
    <2>9. CASE RestartResumes
      BY <2>1, <2>9 DEF RestartResumes, FailedIsStopping
    <2>10. CASE MonitorVisit
      <3>1. /\ UNCHANGED <<running, stopping>> /\ Top.kind = "monitor"
        BY <2>10 DEF MonitorVisit
      <3>2. PICK s \in Service :
              \/ UNCHANGED failed
              \/ /\ Len(stack') = Len(stack) + 2 /\ failed' = failed \cup {s}
                 /\ Is(Len(stack) + 2, "stop", s)
        BY <1>1, <2>10, StepStack DEF StackAfter
      <3>3. CASE UNCHANGED failed BY <3>1, <3>3 DEF FailedIsStopping
      <3>4. CASE /\ Len(stack') = Len(stack) + 2 /\ failed' = failed \cup {s}
                 /\ Is(Len(stack) + 2, "stop", s)
        <4>1. Len(stack) \in Nat BY DEF TypeOK
        <4>2. OnTop(s)' BY <2>3, <3>4, <4>1
        <4> QED BY <3>1, <3>4, <4>2 DEF FailedIsStopping
      <3> QED BY <3>2, <3>3, <3>4
    <2> QED
      BY <1>1, <2>4, <2>5, <2>6, <2>7, <2>8, <2>9, <2>10 DEF Step
  <1>2. CASE Lock
    <2>1. Idle /\ LockStackAfter BY <1>2, LockStack
    <2>2. failed \cap running = {}
      BY <2>1, IdleStopping DEF Idle, FailedIsStopping
    <2>3. running' = running
      BY <1>2 DEF Lock, AddService, DeleteService, EnableRefused, Enable, Disable,
         Restart, Clear, SetRestart, SetRate, Notify, MonitorPass, SetMonitoring,
         Shutdown, Operation, serviceVars
    <2>4. ASSUME NEW s \in Service, Notify(s) PROVE FailedIsStopping'
      <3>1. \/ UNCHANGED failed
            \/ Len(stack') = 2 /\ failed' = failed \cup {s} /\ Is(2, "stop", s)
        BY <2>1, <2>4 DEF LockStackAfter
      <3>2. CASE UNCHANGED failed BY <2>2, <2>3, <3>2 DEF FailedIsStopping
      <3>3. CASE Len(stack') = 2 /\ failed' = failed \cup {s} /\ Is(2, "stop", s)
        <4>1. stack' \in Seq(Frame) BY <1>2, LockType DEF TypeOK
        <4>2. stack' # <<>> BY <3>3
        <4>3. Last(stack') = stack'[Len(stack')] BY <4>1, <4>2, PopFacts
        <4> QED BY <2>2, <2>3, <3>3, <4>2, <4>3 DEF FailedIsStopping, Top, Is
      <3> QED BY <3>1, <3>2, <3>3
    <2>5. CASE failed' \in SUBSET failed BY <2>2, <2>3, <2>5 DEF FailedIsStopping
    <2>6. failed' \in SUBSET failed \/ \E s \in Service : Notify(s)
      BY <1>2 DEF Lock, AddService, DeleteService, EnableRefused, Enable, Disable,
         Restart, Clear, SetRestart, SetRate, MonitorPass, SetMonitoring,
         Shutdown, serviceVars
    <2> QED BY <2>4, <2>5, <2>6
  <1>3. CASE Environment \/ UNCHANGED vars
    <2>1. UNCHANGED <<failed, running, stopping, stack>>
      BY <1>3 DEF Environment, vars, serviceVars
    <2> QED BY <2>1 DEF FailedIsStopping, Top
  <1> QED BY <1>1, <1>2, <1>3 DEF Next

-----------------------------------------------------------------------------
(* Who has support.                                                        *)

\* What satisfied the dependencies of t still does.
LEMMA DepsKept ==
    ASSUME TypeOK, NEW t \in Service, DepsMet(t), UNCHANGED parents,
           \A d \in Service : Up(d) => Up(d)'
    PROVE  DepsMet(t)'
  <1>1. \A d \in DependsOn(t) : parents[t][d] \subseteq Service
    BY DependsOnNames DEF TypeOK, GraphTypeOK
  <1> QED BY <1>1 DEF DepsMet

LEMMA SoundKept ==
    ASSUME TypeOK, NEW t \in Service, Sound(t), UNCHANGED graphVars,
           t \in enabled', t \notin failed',
           \A d \in Service : Up(d) => Up(d)'
    PROVE  Sound(t)'
  <1>1. DepsMet(t)' BY DepsKept DEF Sound, graphVars
  <1> QED BY <1>1 DEF Sound, graphVars

\* If only s went down, only the children of s can have lost a dependency.
LEMMA SoundLost ==
    ASSUME TypeOK, GraphInv, NEW t \in Service, Sound(t), UNCHANGED graphVars,
           t \in enabled', t \notin failed', NEW s \in Service,
           \A d \in Service \ {s} : Up(d) => Up(d)'
    PROVE  Sound(t)' \/ t \in children[s]
  <1> SUFFICES ASSUME t \notin children[s] PROVE Sound(t)' OBVIOUS
  <1>1. \A d \in DependsOn(t) : parents[t][d] \subseteq Service \ {s}
    <2>1. \A d \in NameSet : s \notin parents[t][d] BY DEF GraphInv, GraphMirrors
    <2> QED BY <2>1, DependsOnNames DEF TypeOK, GraphTypeOK
  <1>2. DepsMet(t) BY DEF Sound
  <1>3. parents' = parents BY DEF graphVars
  <1>4. DepsMet(t)' BY <1>1, <1>2, <1>3 DEF DepsMet
  <1> QED BY <1>4 DEF Sound, graphVars

\* A member that is not enabled supports nobody: it can go.
LEMMA RemovalKeepsSound ==
    ASSUME TypeOK, NEW s \in Service, delManager(s), s \notin enabled,
           UNCHANGED <<enabled, running, stopping, failed>>,
           NEW t \in Service, t # s, Sound(t)
    PROVE  Sound(t)'
  <1>1. \A d \in Service : Up(d) => Up(d)' /\ d # s BY DEF Up
  <1>2. \A d \in NameSet : parents[t][d] \ {s} \subseteq parents'[t][d]
    <2>1. CASE s \notin services BY <2>1 DEF delManager, graphVars
    <2>2. CASE s \in services
      <3>1. parents'[t] = IF t \in children[s]
                          THEN [d \in NameSet |-> parents[t][d] \ {s}]
                          ELSE parents[t]
        BY <2>2 DEF delManager
      <3> QED BY <3>1
    <2> QED BY <2>1, <2>2
  <1>3. \A d \in DependsOn(t) : d \in NameSet /\ parents[t][d] \subseteq Service
    BY DependsOnNames DEF TypeOK, GraphTypeOK
  <1>4. DepsMet(t) BY DEF Sound
  <1>5. DepsMet(t)' BY <1>1, <1>2, <1>3, <1>4 DEF DepsMet
  <1>6. t \in services' BY DEF Sound, delManager, graphVars
  <1> QED BY <1>5, <1>6 DEF Sound

\* A new member supports whom it matches and takes nothing from the others.
LEMMA AdditionKeepsSound ==
    ASSUME TypeOK, NEW s \in Service, setManager(s),
           UNCHANGED <<enabled, running, stopping, failed>>,
           NEW t \in Service, t # s, Sound(t)
    PROVE  Sound(t)'
  <1>1. \A d \in Service : Up(d) => Up(d)' BY DEF Up
  <1>2. \A d \in NameSet : parents[t][d] \subseteq parents'[t][d]
    BY DEF setManager
  <1>3. \A d \in DependsOn(t) : d \in NameSet /\ parents[t][d] \subseteq Service
    BY DependsOnNames DEF TypeOK, GraphTypeOK
  <1>4. DepsMet(t) BY DEF Sound
  <1>5. DepsMet(t)' BY <1>1, <1>2, <1>3, <1>4 DEF DepsMet
  <1>6. t \in services' BY DEF Sound, setManager
  <1> QED BY <1>5, <1>6 DEF Sound

\* When everything that runs is sound, s alone loses its support and a
\* stopRecurse for s is called, whoever depended on s is doomed with it.
LEMMA DoomSpreads ==
    ASSUME TypeOK, GraphInv, stopping = {}, \A t \in running : Sound(t),
           UNCHANGED <<graphVars, running, stopping>>,
           NEW s \in Service,
           \A t \in Service \ {s} :
              (t \in enabled => t \in enabled') /\ (t \notin failed => t \notin failed'),
           NEW i \in Frames', stack'[i].kind = "stop", stack'[i].svc = s
    PROVE  Supported'
  <1> SUFFICES ASSUME NEW t \in running PROVE Sound(t)' \/ Doomed(t)'
    BY DEF Supported
  <1>1. t \in Service /\ Sound(t) BY DEF TypeOK
  <1>2. \A d \in Service \ {s} : Up(d) => Up(d)' BY DEF Up
  <1>3. children' = children BY DEF graphVars
  <1>4. CASE s \in running
    <2>1. t = s \/ t \in children[s] => Doomed(t)' BY <1>3, <1>4 DEF Doomed
    <2>2. CASE t # s /\ t \notin children[s]
      <3>1. t \in enabled' /\ t \notin failed' BY <1>1, <2>2 DEF Sound
      <3> QED BY <1>1, <1>2, <2>2, <3>1, SoundLost
    <2> QED BY <2>1, <2>2
  <1>5. CASE s \notin running
    <2>1. \A d \in Service : Up(d) => Up(d)' BY <1>2, <1>5 DEF Up
    <2>2. t \in enabled' /\ t \notin failed' BY <1>1, <1>5 DEF Sound
    <2> QED BY <1>1, <2>1, <2>2, SoundKept
  <1> QED BY <1>4, <1>5

\* Who is doomed by the call on top, and who by the loops below it, which no
\* step disturbs.
LEMMA DoomedBy ==
    ASSUME TypeOK, Shape, Step, NEW t \in Service, Doomed(t)
    PROVE  \/ /\ Top.kind = "stop" /\ Top.svc \in running \ stopping
              /\ t = Top.svc \/ t \in children[Top.svc]
           \/ Top.kind = "stopping" /\ t \in Top.todo
           \/ Doomed(t)'
  <1> DEFINE n == Len(stack)
  <1>1. ~Idle BY DEF Step
  <1>2. n \in Nat \ {0} /\ Top = stack[n] BY <1>1, TopFacts
  <1>3. StackAfter(n) BY StepStack
  <1>4. \A i \in 1 .. (n - 1) : i \in Frames' /\ stack'[i] = stack[i]
    BY <1>2, <1>3 DEF StackAfter, Frames
  <1>5. PICK i \in Frames :
          \/ /\ stack[i].kind = "stop"
             /\ stack[i].svc \in running \ stopping
             /\ t = stack[i].svc \/ t \in children[stack[i].svc]
          \/ stack[i].kind = "stopping" /\ t \in stack[i].todo
    BY DEF Doomed
  <1>6. CASE i = n BY <1>2, <1>5, <1>6
  <1>7. CASE i # n
    <2>1. i \in 1 .. (n - 1) BY <1>2, <1>7 DEF Frames
    <2>2. stack[i].kind # "stop" BY <1>2, <1>7 DEF Shape
    <2>3. stack'[i].kind = "stopping" /\ t \in stack'[i].todo
      BY <1>4, <1>5, <2>1, <2>2
    <2>4. i \in Frames' BY <1>4, <2>1
    <2> QED BY <2>3, <2>4 DEF Doomed
  <1> QED BY <1>6, <1>7

\* Below a monitor pass and in a shutdown between two services no stopRecurse is
\* in progress.
LEMMA NoCallBelow ==
    ASSUME TypeOK, Shape, StoppingIsCalled, Supported, ~Idle,
           Top.kind \in {"monitor", "shutdown", "remove"}
    PROVE  stopping = {} /\ \A t \in running : Sound(t)
  <1>1. Len(stack) \in Nat \ {0} /\ Top = stack[Len(stack)] BY TopFacts
  <1>2. Len(stack) \in Frames BY <1>1 DEF Frames
  <1>3. \A i \in Frames : stack[i].kind \in {"monitor", "shutdown", "remove"}
    <2>1. CASE Top.kind # "remove"
      <3>1. Len(stack) = 1 BY <1>1, <1>2, <2>1 DEF Shape
      <3>2. Frames = {1} BY <3>1 DEF Frames
      <3> QED BY <1>1, <3>1, <3>2
    <2>2. CASE Top.kind = "remove"
      <3>1. Len(stack) = 2 /\ stack[1].kind = "shutdown" BY <1>1, <1>2, <2>2 DEF Shape
      <3>2. Frames = {1, 2} BY <3>1 DEF Frames
      <3> QED BY <1>1, <3>1, <3>2
    <2> QED BY <2>1, <2>2
  <1>4. stopping = {} BY <1>3 DEF StoppingIsCalled
  <1>5. \A t \in Service : ~Doomed(t) BY <1>3 DEF Doomed
  <1> QED BY <1>4, <1>5 DEF Supported, TypeOK

LEMMA StepSupported ==
    ASSUME TypeOK, Shape, GraphInv, Pending, StoppingIsCalled, FailedIsStopping,
           Supported, Step
    PROVE  Supported'
  <1> DEFINE n == Len(stack)
  <1>1. ~Idle BY DEF Step
  <1>2. n \in Nat \ {0} /\ Top = stack[n] /\ n \in Frames BY <1>1, TopFacts DEF Frames
  <1>3. /\ Top.todo \in SUBSET Service
        /\ Top.kind \notin {"monitor", "shutdown"} => Top.svc \in Service
    BY <1>1, TopFacts
  <1>4. StackAfter(n) BY StepStack
  <1>5. running \in SUBSET Service BY DEF TypeOK
  <1> HIDE DEF n
  \* A step that takes nothing away from anybody, outside stopRecurse.
  <1>6. ASSUME UNCHANGED <<graphVars, running, stopping>>,
               enabled \subseteq enabled', failed' \subseteq failed,
               Top.kind \notin {"stop", "stopping"}
        PROVE  Supported'
    <2> SUFFICES ASSUME NEW t \in running \ stopping PROVE Sound(t)' \/ Doomed(t)'
      BY <1>6 DEF Supported
    <2>1. \A d \in Service : Up(d) => Up(d)' BY <1>6 DEF Up
    <2>2. CASE Sound(t)
      <3>1. t \in enabled' /\ t \notin failed' BY <1>6, <2>2 DEF Sound
      <3> QED BY <1>5, <1>6, <2>1, <2>2, <3>1, SoundKept
    <2>3. CASE Doomed(t) BY <1>5, <1>6, <2>3, DoomedBy
    <2> QED BY <2>2, <2>3 DEF Supported
  <1>7. CASE StartReturns \/ StartRefused \/ StartNextChild \/ SelfHeal \/ LoopEnds
    BY <1>6, <1>7 DEF StartReturns, StartRefused, StartNextChild, SelfHeal,
       LoopEnds, serviceVars
  <1>8. CASE RestartResumes
    BY <1>6, <1>8 DEF RestartResumes
  <1>9. CASE StartFails
    <2>1. /\ UNCHANGED <<graphVars, enabled, running, stopping>>
          /\ failed' = failed \cup {Top.svc} /\ Top.svc \notin running
          /\ Top.kind = "start"
      BY <1>9 DEF StartFails, StartAttempted
    <2> SUFFICES ASSUME NEW t \in running \ stopping PROVE Sound(t)' \/ Doomed(t)'
      BY <2>1 DEF Supported
    <2>2. \A d \in Service : Up(d) => Up(d)' BY <2>1 DEF Up
    <2>3. CASE Sound(t)
      <3>1. t \in enabled' /\ t \notin failed' BY <2>1, <2>3 DEF Sound
      <3> QED BY <1>5, <2>1, <2>2, <2>3, <3>1, SoundKept
    <2>4. CASE Doomed(t) BY <1>5, <2>1, <2>4, DoomedBy
    <2> QED BY <2>3, <2>4 DEF Supported
  <1>10. CASE StartSucceeds
    <2>1. /\ UNCHANGED <<graphVars, enabled, stopping>>
          /\ running' = running \cup {Top.svc} /\ failed' = failed \ {Top.svc}
          /\ Top.kind = "start" /\ canRun(Top.svc)
      BY <1>10 DEF StartSucceeds, StartAttempted
    <2> SUFFICES ASSUME NEW t \in running' \ stopping PROVE Sound(t)' \/ Doomed(t)'
      BY <2>1 DEF Supported
    <2>2. \A d \in Service : Up(d) => Up(d)' BY <2>1 DEF Up
    <2>3. CASE t = Top.svc
      <3>1. Top.svc \in Service BY <1>3, <2>1
      <3>2. Top.svc \in enabled /\ DepsMet(Top.svc) BY <2>1 DEF canRun
      <3>4. Top.svc \in services BY <3>2 DEF Pending
      <3>5. Top.svc \in services' /\ Top.svc \in enabled' /\ Top.svc \notin failed'
        BY <2>1, <3>2, <3>4 DEF graphVars
      <3>6. t \in services' /\ t \in enabled' /\ t \notin failed' BY <2>3, <3>5
      <3>7. DepsMet(t)'
        <4>1. t \in Service BY <2>3, <3>1
        <4>2. DepsMet(t) BY <2>3, <3>2
        <4> QED BY <2>1, <2>2, <4>1, <4>2, DepsKept DEF graphVars
      <3> QED BY <3>6, <3>7 DEF Sound
    <2>4. CASE t # Top.svc /\ Sound(t)
      <3>1. t \in enabled' /\ t \notin failed' BY <2>1, <2>4 DEF Sound
      <3>2. t \in Service BY <1>5, <2>1, <2>4
      <3> QED BY <2>1, <2>2, <2>4, <3>1, <3>2, SoundKept
    <2>5. CASE t # Top.svc /\ Doomed(t)
      <3>1. t \in Service BY <1>5, <2>1, <2>5
      <3> QED BY <2>1, <2>5, <3>1, DoomedBy
    <2> QED BY <2>1, <2>3, <2>4, <2>5 DEF Supported
  <1>11. CASE StopReturns
    <2>1. /\ UNCHANGED <<graphVars, enabled, running, stopping, failed>>
          /\ Top.kind = "stop" /\ Top.svc \notin running \ stopping
      BY <1>11 DEF StopReturns, serviceVars
    <2> SUFFICES ASSUME NEW t \in running \ stopping PROVE Sound(t)' \/ Doomed(t)'
      BY <2>1 DEF Supported
    <2>2. \A d \in Service : Up(d) => Up(d)' BY <2>1 DEF Up
    <2>3. CASE Sound(t)
      <3>1. t \in enabled' /\ t \notin failed' BY <2>1, <2>3 DEF Sound
      <3> QED BY <1>5, <2>1, <2>2, <2>3, <3>1, SoundKept
    <2>4. CASE Doomed(t) BY <1>5, <2>1, <2>4, DoomedBy
    <2> QED BY <2>3, <2>4 DEF Supported
  <1>12. CASE StopBegins
    <2>1. /\ UNCHANGED <<graphVars, enabled, running, failed>>
          /\ stopping' = stopping \cup {Top.svc} /\ Top.kind = "stop"
          /\ Top.svc \in Service
      BY <1>3, <1>12 DEF StopBegins
    <2>2. n \in Frames' /\ Is(n, "stopping", Top.svc) /\ stack'[n].todo = children[Top.svc]
      BY <1>2, <1>4, <1>12 DEF StackAfter, Frames
    <2> SUFFICES ASSUME NEW t \in running \ stopping, t # Top.svc
                 PROVE  Sound(t)' \/ Doomed(t)'
      BY <2>1 DEF Supported
    <2>3. \A d \in Service \ {Top.svc} : Up(d) => Up(d)' BY <2>1 DEF Up
    <2>4. t \in children[Top.svc] => Doomed(t)' BY <2>2 DEF Doomed, Is
    <2>5. CASE Sound(t)
      <3>1. t \in enabled' /\ t \notin failed' BY <2>1, <2>5 DEF Sound
      <3> QED BY <1>5, <2>1, <2>3, <2>4, <2>5, <3>1, SoundLost
    <2>6. CASE Doomed(t) BY <1>5, <2>1, <2>4, <2>6, DoomedBy
    <2> QED BY <2>5, <2>6 DEF Supported
  <1>13. CASE SpareChild
    <2>1. UNCHANGED <<graphVars, enabled, running, stopping, failed>>
          /\ Top.kind = "stopping"
      BY <1>13 DEF SpareChild, serviceVars
    <2>2. PICK c \in Service : canRun(c) /\ Len(stack') = n /\ Visits(n, c)
      BY <1>4, <1>13 DEF StackAfter
    <2>3. n \in Frames' /\ stack'[n].kind = "stopping" /\ stack'[n].todo = Top.todo \ {c}
      BY <1>2, <2>1, <2>2 DEF Visits, Is, Frames
    <2> SUFFICES ASSUME NEW t \in running \ stopping PROVE Sound(t)' \/ Doomed(t)'
      BY <2>1 DEF Supported
    <2>4. \A d \in Service : Up(d) => Up(d)' BY <2>1 DEF Up
    <2>5. CASE Sound(t)
      <3>1. t \in enabled' /\ t \notin failed' BY <2>1, <2>5 DEF Sound
      <3> QED BY <1>5, <2>1, <2>4, <2>5, <3>1, SoundKept
    <2>6. CASE Doomed(t) /\ t # c
      <3>1. t \in Top.todo => Doomed(t)' BY <2>3, <2>6 DEF Doomed
      <3> QED BY <1>5, <2>1, <2>6, <3>1, DoomedBy
    <2>7. CASE t = c
      <3>1. c \in enabled /\ c \in services /\ DepsMet(c) /\ c \notin stopping
        BY <2>2 DEF canRun, Pending
      <3>2. c \notin failed BY <2>1, <2>7 DEF FailedIsStopping
      <3>3. Sound(t) BY <2>7, <3>1, <3>2 DEF Sound
      <3> QED BY <2>5, <3>3
    <2> QED BY <2>5, <2>6, <2>7 DEF Supported
  <1>14. CASE StopNextChild
    <2>1. /\ UNCHANGED <<graphVars, enabled, running, stopping, failed>>
          /\ Top.kind = "stopping"
      BY <1>14 DEF StopNextChild
    <2>2. PICK c \in Service :
            Len(stack') = n + 1 /\ Visits(n, c) /\ Is(n + 1, "stop", c)
      BY <1>4, <1>14 DEF StackAfter
    <2>3. /\ n \in Frames' /\ stack'[n].kind = "stopping"
          /\ stack'[n].todo = Top.todo \ {c}
          /\ n + 1 \in Frames' /\ Is(n + 1, "stop", c)
      BY <1>2, <2>1, <2>2 DEF Visits, Is, Frames
    <2> SUFFICES ASSUME NEW t \in running \ stopping PROVE Sound(t)' \/ Doomed(t)'
      BY <2>1 DEF Supported
    <2>4. \A d \in Service : Up(d) => Up(d)' BY <2>1 DEF Up
    <2>5. t = c => Doomed(t)' BY <2>1, <2>3 DEF Doomed, Is
    <2>6. t \in Top.todo /\ t # c => Doomed(t)' BY <2>3 DEF Doomed
    <2>7. CASE Sound(t)
      <3>1. t \in enabled' /\ t \notin failed' BY <2>1, <2>7 DEF Sound
      <3> QED BY <1>5, <2>1, <2>4, <2>7, <3>1, SoundKept
    <2>8. CASE Doomed(t) BY <1>5, <2>1, <2>5, <2>6, <2>8, DoomedBy
    <2> QED BY <2>7, <2>8 DEF Supported
  <1>15. CASE StopEnds
    <2>1. /\ UNCHANGED <<graphVars, enabled, failed>>
          /\ running' = running \ {Top.svc} /\ stopping' = stopping \ {Top.svc}
          /\ Top.kind = "stopping" /\ Top.todo = {}
      BY <1>15 DEF StopEnds
    <2>2. Top.svc \in stopping BY <1>2, <2>1 DEF StoppingIsCalled
    <2> SUFFICES ASSUME NEW t \in running \ stopping PROVE Sound(t)' \/ Doomed(t)'
      BY <2>1 DEF Supported
    <2>3. \A d \in Service : Up(d) => Up(d)' BY <2>1, <2>2 DEF Up
    <2>4. CASE Sound(t)
      <3>1. t \in enabled' /\ t \notin failed' BY <2>1, <2>4 DEF Sound
      <3> QED BY <1>5, <2>1, <2>3, <2>4, <3>1, SoundKept
    <2>5. CASE Doomed(t) BY <1>5, <2>1, <2>5, DoomedBy
    <2> QED BY <2>4, <2>5 DEF Supported
  <1>16. CASE MonitorVisit
    <2>1. /\ UNCHANGED <<graphVars, enabled, running, stopping>>
          /\ Top.kind = "monitor"
      BY <1>16 DEF MonitorVisit
    <2>2. PICK s \in Service :
            \/ UNCHANGED failed
            \/ /\ Len(stack') = n + 2 /\ failed' = failed \cup {s}
               /\ Is(n + 2, "stop", s)
      BY <1>4, <1>16 DEF StackAfter
    <2>3. CASE UNCHANGED failed BY <1>6, <2>1, <2>3
    <2>4. CASE /\ Len(stack') = n + 2 /\ failed' = failed \cup {s}
               /\ Is(n + 2, "stop", s)
      <3>1. n + 2 \in Frames' BY <1>2, <2>4 DEF Frames
      <3>2. stopping = {} /\ \A t \in running : Sound(t) BY <1>1, <2>1, NoCallBelow
      <3> QED BY <2>1, <2>4, <3>1, <3>2, DoomSpreads DEF Is
    <2> QED BY <2>2, <2>3, <2>4
  <1>17. CASE ShutdownVisit
    <2>1. /\ UNCHANGED <<graphVars, running, stopping, failed>>
          /\ Top.kind = "shutdown"
      BY <1>17 DEF ShutdownVisit
    <2>2. PICK s \in Service :
            Len(stack') = n + 2 /\ enabled' = enabled \ {s} /\ Is(n + 2, "stop", s)
      BY <1>4, <1>17 DEF StackAfter
    <2>3. n + 2 \in Frames' BY <1>2, <2>2 DEF Frames
    <2>4. stopping = {} /\ \A t \in running : Sound(t) BY <1>1, <2>1, NoCallBelow
    <2> QED BY <2>1, <2>2, <2>3, <2>4, DoomSpreads DEF Is
  <1>18. CASE ShutdownRemoves
    <2>1. /\ UNCHANGED <<enabled, running, stopping, failed>>
          /\ Top.kind = "remove" /\ delManager(Top.svc)
      BY <1>18 DEF ShutdownRemoves
    <2>2. stopping = {} /\ \A t \in running : Sound(t) BY <1>1, <2>1, NoCallBelow
    <2>3. Top.svc \notin enabled BY <1>2, <2>1 DEF Pending
    <2>4. Top.svc \in Service BY <1>3, <2>1
    <2> SUFFICES ASSUME NEW t \in running PROVE Sound(t)'
      BY <2>1 DEF Supported
    <2>5. t # Top.svc /\ Sound(t) BY <2>2, <2>3 DEF Sound
    <2> QED BY <1>5, <2>1, <2>3, <2>4, <2>5, RemovalKeepsSound
  <1> QED
    BY <1>7, <1>8, <1>9, <1>10, <1>11, <1>12, <1>13, <1>14, <1>15, <1>16, <1>17,
       <1>18 DEF Step

LEMMA LockSupported ==
    ASSUME TypeOK, GraphInv, StoppingIsCalled, Supported, Lock
    PROVE  Supported'
  <1>1. Idle /\ LockStackAfter BY LockStack
  <1>2. stopping = {} /\ \A t \in running : Sound(t)
    BY <1>1, IdleStopping DEF Supported, TypeOK
  <1>3. running \in SUBSET Service BY DEF TypeOK
  <1>4. ASSUME UNCHANGED <<graphVars, running, stopping>>,
               enabled \subseteq enabled', failed' \subseteq failed
        PROVE  Supported'
    <2> SUFFICES ASSUME NEW t \in running PROVE Sound(t)' BY <1>4 DEF Supported
    <2>1. \A d \in Service : Up(d) => Up(d)' BY <1>4 DEF Up
    <2>2. t \in enabled' /\ t \notin failed' BY <1>2, <1>4 DEF Sound
    <2> QED BY <1>2, <1>3, <1>4, <2>1, <2>2, SoundKept
  <1>5. ASSUME NEW s \in Service, AddService(s) PROVE Supported'
    <2>1. /\ UNCHANGED <<enabled, running, stopping, failed>>
          /\ setManager(s) /\ s \notin services
      BY <1>5 DEF AddService, NameIsFree
    <2> SUFFICES ASSUME NEW t \in running PROVE Sound(t)' BY <2>1 DEF Supported
    <2>2. t # s /\ Sound(t) BY <1>2, <2>1 DEF Sound
    <2> QED BY <1>3, <2>1, <2>2, AdditionKeepsSound
  <1>6. ASSUME NEW s \in Service, DeleteService(s) PROVE Supported'
    <2>1. /\ UNCHANGED <<enabled, running, stopping, failed>>
          /\ delManager(s) /\ s \notin enabled
      BY <1>6 DEF DeleteService
    <2> SUFFICES ASSUME NEW t \in running PROVE Sound(t)' BY <2>1 DEF Supported
    <2>2. t # s /\ Sound(t) BY <1>2, <2>1 DEF Sound
    <2> QED BY <1>3, <2>1, <2>2, RemovalKeepsSound
  <1>7. ASSUME NEW s \in Service, Disable(s) \/ Restart(s) PROVE Supported'
    <2>1. /\ UNCHANGED <<graphVars, running, stopping>>
          /\ enabled' = enabled \ {s} /\ failed' \subseteq failed
      BY <1>7 DEF Disable, Restart, Operation
    <2>2. \/ Len(stack') = 1 /\ Is(1, "stop", s)
          \/ Len(stack') = 2 /\ Is(2, "stop", s)
      BY <1>1, <1>7 DEF LockStackAfter
    <2>3. \E i \in Frames' : stack'[i].kind = "stop" /\ stack'[i].svc = s
      BY <2>2 DEF Frames, Is
    <2> QED BY <1>2, <2>1, <2>3, DoomSpreads
  <1>8. ASSUME NEW s \in Service, Notify(s) PROVE Supported'
    <2>1. UNCHANGED <<graphVars, enabled, running, stopping>>
      BY <1>8 DEF Notify
    <2>2. CASE UNCHANGED failed BY <1>4, <2>1, <2>2
    <2>3. CASE Len(stack') = 2 /\ failed' = failed \cup {s} /\ Is(2, "stop", s)
      <3>1. 2 \in Frames' BY <2>3 DEF Frames
      <3> QED BY <1>2, <2>1, <2>3, <3>1, DoomSpreads DEF Is
    <2> QED BY <1>1, <1>8, <2>2, <2>3 DEF LockStackAfter
  <1>9. CASE \/ \E s \in Service :
                  EnableRefused(s) \/ Enable(s) \/ Clear(s) \/ SetRestart(s)
                  \/ SetRate(s)
             \/ MonitorPass \/ SetMonitoring \/ Shutdown
    BY <1>4, <1>9 DEF EnableRefused, Enable, Clear, SetRestart, SetRate, MonitorPass,
       SetMonitoring, Shutdown, Operation, serviceVars
  <1> QED BY <1>5, <1>6, <1>7, <1>8, <1>9 DEF Lock

LEMMA NextSupported ==
    ASSUME TypeOK, Shape, GraphInv, Pending, StoppingIsCalled, FailedIsStopping,
           Supported, [Next]_vars
    PROVE  Supported'
  <1>1. CASE Environment \/ UNCHANGED vars
    <2>1. UNCHANGED <<graphVars, enabled, running, stopping, failed, stack>>
      BY <1>1 DEF Environment, vars, serviceVars
    <2> QED BY <2>1 DEF Supported, Sound, Doomed, DepsMet, Up, Frames, graphVars
  <1> QED BY <1>1, StepSupported, LockSupported DEF Next

\* The invariant is inductive.  Together its parts say, in the middle of any
\* cascade, what is still to be done before the lock is released.
THEOREM InvariantHolds == Spec => []IInv
  <1>1. Init => IInv
    <2> SUFFICES ASSUME Init PROVE IInv OBVIOUS
    <2>1. TypeOK /\ Shape BY InitType
    <2>2. GraphInv /\ Pending /\ NoConflictEnabled
      BY DEF Init, GraphInit, NoLinks, GraphInv, GraphMirrors, Pending, Frames,
             NoConflictEnabled
    <2>3. running = {} /\ stopping = {} /\ Len(stack) = 0 BY DEF Init
    <2>4. Frames = {} BY <2>3 DEF Frames
    <2>5. StoppingIsCalled BY <2>3, <2>4 DEF StoppingIsCalled
    <2>6. FailedIsStopping /\ Supported BY <2>3 DEF FailedIsStopping, Supported
    <2> QED BY <2>1, <2>2, <2>5, <2>6 DEF IInv
  <1>2. IInv /\ [Next]_vars => IInv'
    <2> SUFFICES ASSUME IInv, [Next]_vars PROVE IInv' OBVIOUS
    <2>1. TypeOK' /\ Shape' BY NextType, NextShape DEF IInv
    <2>2. GraphInv' BY NextGraph DEF IInv
    <2>3. Pending' /\ NoConflictEnabled' BY NextPending DEF IInv
    <2>4. StoppingIsCalled' BY NextStoppingIsCalled DEF IInv
    <2>5. FailedIsStopping' BY NextFailedIsStopping DEF IInv
    <2>6. Supported' BY NextSupported DEF IInv
    <2> QED BY <2>1, <2>2, <2>3, <2>4, <2>5, <2>6 DEF IInv
  <1> QED BY <1>1, <1>2, PTL DEF Spec

\* What it says when the lock is free: whatever the operations, faults and
\* starts, and in whatever order the recursions visit their children, every
\* running service is an enabled member that has not failed and has its
\* dependencies met.
THEOREM RunningIsSupported == Spec => []RunningSupported
  <1>1. IInv => RunningSupported
    <2> SUFFICES ASSUME IInv, Idle PROVE \A s \in running : Sound(s)
      BY DEF RunningSupported, Sound
    <2>1. stopping = {} /\ \A s \in Service : ~Doomed(s) BY IdleStopping DEF IInv
    <2> QED BY <2>1 DEF IInv, Supported, TypeOK
  <1> QED BY <1>1, InvariantHolds, PTL
=============================================================================
