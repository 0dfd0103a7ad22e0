--------------------------- MODULE RefreshProofs ---------------------------
(***************************************************************************)
(* Proofs about Refresh and RestServer, for any number of services and     *)
(* serials of any size.                                                    *)
(***************************************************************************)
EXTENDS Refresh, FiniteSetTheorems, TLAPS

\* A service that is managed has been given a serial, and so has the list.
Numbered ==
    /\ \A s \in services : stamp[s] > 0
    /\ listSerial = 0 => services = {}

\* The loop waits for an answer exactly when it has asked for one.
Waiting ==
    /\ at \in {"start", "items", "post", "watch"} => wire = NoRequest /\ answer = NoAnswer
    /\ at = "list" => wire.kind \in {"list", "lost"}
    /\ at = "item" => wire.kind \in {"service", "lost"}
    /\ at = "manager" => wire.kind \in {"manager", "lost"}
    /\ wire.kind = "lost" => answer.code = 0
    /\ wire.kind = "service" => wire.svc \in Service

\* While getService reads a service, a manager may leave it but none comes, and what
\* it looks like is among what was seen since its serial was read.
Found ==
    reading # "no" =>
        /\ wire.kind = "service" /\ answer.code = 0 /\ up # "down"
        /\ stamp[wire.svc] > 0
        /\ Managed(wire.svc) \in been
        /\ Managed(wire.svc) => been = {TRUE}

\* getService has read the serial, sn, and what it has seen since is in seen.
HasSerial == reading \in Flag \cup {"status", "check"}
Read == HasSerial => sn <= stamp[wire.svc] /\ Shown(wire.svc) \in seen

\* The flags it has read by now.
FlagsRead ==
    CASE reading = "running" -> {"enabled"}
      [] reading = "failed" -> {"enabled", "running"}
      [] reading \in {"status", "check"} -> Flag
      [] OTHER -> {}

\* What getService has read, if there was no manager when it read the serial ...
ReadUnmanaged ==
    HasSerial /\ sn = 0 =>
        /\ been = {FALSE}
        /\ \A f \in FlagsRead : info[f] = FALSE
        /\ reading = "check" => info = Shown(wire.svc)

\* ... and if there was one and the serial is still the same.
ReadManaged ==
    HasSerial /\ sn = stamp[wire.svc] =>
        /\ Managed(wire.svc) => \A f \in FlagsRead : info[f] = flags[wire.svc]
        /\ reading = "check" /\ Managed(wire.svc) => info = Shown(wire.svc)
        /\ reading = "check" /\ TRUE \in been => info \in seen

\* What is known of a getService in progress.
Reading == Found /\ Read /\ ReadUnmanaged /\ ReadManaged

\* A view or a list that came with a serial is the one of that serial.
ViewOf(s, t, v) ==
    t <= serial /\ (up = "up" /\ s \in services /\ t = stamp[s] => v = Shown(s))
ListOf(t, l) ==
    /\ t <= serial
    /\ t = 0 => l = {}
    /\ up = "up" /\ t = listSerial => l = services

\* The views and the lists there are: in an answer, in the cache, posted and shown.
Views ==
    /\ wire.kind = "service" /\ answer.code = 200 =>
           answer.view \in seen /\ ViewOf(wire.svc, answer.tag, answer.view)
    /\ \A i \in items \cup shown \cup UNION ToSet(posted) : ViewOf(i.svc, i.tag, i.view)

Lists ==
    /\ wire.kind = "list" /\ answer.code = 200 => ListOf(answer.tag, answer.list)
    /\ ListOf(ltag, names)

\* The inductive invariant.
FInv == TypeOK /\ Numbered /\ Waiting /\ Reading /\ Views /\ Lists

-----------------------------------------------------------------------------
(* Types.                                                                  *)

\* A step, by what it does to the server and the request.
RestStep ==
    \/ Manager
    \/ Serving
    \/ \E kind \in {"list", "service", "manager"}, s \in Service \cup {NoService}, t \in Tag :
          /\ wire = NoRequest /\ answer = NoAnswer
          /\ kind = "service" => s \in Service
          /\ Ask(kind, s, t)
    \/ Over
    \/ UNCHANGED restVars

\* The loop asks for what it has the names of, with the Etags it has.
LEMMA StepOfRest == TypeOK /\ Waiting /\ [Next]_vars => RestStep
  <1> SUFFICES ASSUME TypeOK, Waiting, [Next]_vars PROVE RestStep
    OBVIOUS
  <1>0. NoTag \in Tag BY RestAssumption DEF NoTag, Tag
  <1>1. CASE AskList BY <1>1 DEF AskList, RestStep, TypeOK, Waiting
  <1>2. CASE AskItem BY <1>0, <1>2 DEF AskItem, RestStep, TypeOK, Waiting
  <1>3. CASE AskManager BY <1>3 DEF AskManager, RestStep, TypeOK, Waiting
  <1>4. CASE HaveList \/ NoList \/ HaveItem \/ NoItem \/ HaveManager \/ NoManager
    BY <1>4 DEF HaveList, NoList, HaveItem, NoItem, HaveManager, NoManager, Answered,
                Failed, RestStep
  <1>5. CASE Post \/ WatchCached \/ Draw \/ SetUserPassword \/ UNCHANGED vars
    BY <1>5 DEF Post, WatchCached, Draw, SetUserPassword, vars, RestStep
  <1>6. CASE Manager \/ Serving BY <1>6 DEF RestStep
  <1> QED BY <1>1, <1>2, <1>3, <1>4, <1>5, <1>6 DEF Next, Loop, Failure

\* Nothing has been asked for.
LEMMA InitFInv == Init => FInv
  <1> SUFFICES ASSUME Init PROVE FInv
    OBVIOUS
  <1> USE RestAssumption, RefreshAssumption DEF Init, RestInit
  <1>0. NoTag \in Tag BY DEF NoTag, Tag
  <1>1. NoRequest \in [kind : {"none", "list", "service", "manager", "lost"},
                       svc : Service \cup {NoService}, tag : Tag]
    BY <1>0 DEF NoRequest
  <1>2. Blank \in View BY DEF Blank, View
  <1>3. NoAnswer \in [code : {0, 200, 304, 404}, tag : Tag,
                      list : SUBSET Service, view : View]
    BY <1>0, <1>2 DEF NoAnswer
  <1>4. RestTypeOK
    <2>1. up \in {"up", "stopping", "down"} /\ serial \in 0 .. MaxSerial
          /\ listSerial \in 0 .. serial /\ services \subseteq Service
      OBVIOUS
    <2>2. /\ stamp \in [Service -> 0 .. serial]
          /\ flags \in [Service -> BOOLEAN] /\ status \in [Service -> BOOLEAN]
      BY <2>1
    <2>3. reading \in {"no", "serial", "status", "check"} \cup Flag /\ been \subseteq BOOLEAN
          /\ sn \in 0 .. MaxSerial /\ seen \subseteq View
      OBVIOUS
    <2> QED BY <1>1, <1>2, <1>3, <2>1, <2>2, <2>3 DEF RestTypeOK
  <1>5. TypeOK
    <2>1. posted \in Seq(SUBSET ItemSet) OBVIOUS
    <2> QED BY <1>0, <1>4, <2>1 DEF TypeOK
  <1>6. Numbered /\ Waiting BY DEF Numbered, Waiting, NoRequest, NoAnswer
  <1>7. Reading BY DEF Reading, Found, Read, ReadUnmanaged, ReadManaged, HasSerial, Flag
  <1>8. Views /\ Lists BY DEF Views, ToSet, Lists, ListOf, NoRequest, NoTag
  <1> QED BY <1>5, <1>6, <1>7, <1>8 DEF FInv

\* The manager's own part of the types.
ManagerTypeOK ==
    /\ up \in {"up", "stopping", "down"}
    /\ serial \in 0 .. MaxSerial /\ listSerial \in 0 .. serial
    /\ services \subseteq Service
    /\ stamp \in [Service -> 0 .. serial]
    /\ flags \in [Service -> BOOLEAN] /\ status \in [Service -> BOOLEAN]

\* What a service looks like is a view.
LEMMA ShownIsView ==
    ASSUME ManagerTypeOK, NEW s \in Service
    PROVE  Shown(s) \in View
  BY DEF ManagerTypeOK, Shown, Managed, View

\* Serials only grow, and no stamp is larger than the last one.
LEMMA ManagerTypes ==
    ASSUME RestTypeOK, Manager
    PROVE  ManagerTypeOK' /\ serial' >= serial
  <1> USE RestAssumption DEF ManagerTypeOK
  <1>0. ManagerTypeOK BY DEF RestTypeOK
  <1>1. ASSUME NEW s \in Service, Change(s) PROVE ManagerTypeOK' /\ serial' >= serial
    <2>1. serial' = serial + 1 /\ serial' \in 0 .. MaxSerial /\ UNCHANGED <<up, listSerial, services>>
      BY <1>0, <1>1 DEF Change, Bump
    <2>2. stamp' \in [Service -> 0 .. serial']
      BY <1>0, <1>1, <2>1 DEF Change, Bump
    <2>3. flags' \in [Service -> BOOLEAN] /\ status' \in [Service -> BOOLEAN]
      BY <1>0, <1>1 DEF Change
    <2> QED BY <1>0, <2>1, <2>2, <2>3
  <1>2. ASSUME NEW s \in Service, NEW ms \in SUBSET Service, Relist(s, ms),
               status' \in [Service -> BOOLEAN]
        PROVE  ManagerTypeOK' /\ serial' >= serial
    <2>1. serial' = serial + 2 /\ listSerial' = serial + 1 /\ serial' \in 0 .. MaxSerial
          /\ UNCHANGED <<up, flags>> /\ services' = ms
      BY <1>0, <1>2 DEF Relist, ListBumped
    <2>2. stamp' \in [Service -> 0 .. serial']
      BY <1>0, <1>2, <2>1 DEF Relist
    <2>3. listSerial' \in 0 .. serial' BY <1>0, <2>1
    <2> QED BY <1>0, <1>2, <2>1, <2>2, <2>3
  <1>3. ASSUME NEW s \in Service, AddService(s) PROVE ManagerTypeOK' /\ serial' >= serial
    BY <1>0, <1>2, <1>3 DEF AddService
  <1>4. ASSUME NEW s \in Service, DeleteService(s) PROVE ManagerTypeOK' /\ serial' >= serial
    BY <1>0, <1>2, <1>4 DEF DeleteService
  <1>5. CASE Shutdown
    <2>1. PICK ran \in SUBSET services :
            /\ serial' = serial + Cardinality(ran) /\ serial' <= MaxSerial
            /\ stamp' \in [Service -> 0 .. serial']
      BY <1>5 DEF Shutdown
    <2>2. IsFiniteSet(services) BY <1>0, FS_Subset
    <2>3. IsFiniteSet(ran) BY <2>2, FS_Subset
    <2>4. Cardinality(ran) \in Nat BY <2>3, FS_CardinalityType
    <2>5. serial' \in 0 .. MaxSerial /\ serial' >= serial BY <1>0, <2>1, <2>4
    <2>6. up' = "stopping" /\ services' = {} /\ listSerial' = listSerial
          /\ flags' \in [Service -> BOOLEAN] /\ status' \in [Service -> BOOLEAN]
      BY <1>0, <1>5 DEF Shutdown
    <2>7. listSerial' \in 0 .. serial' BY <1>0, <2>5, <2>6
    <2> QED BY <2>1, <2>5, <2>6, <2>7
  <1>6. CASE Exit BY <1>0, <1>6 DEF Exit
  <1>7. CASE Boot
    <2>1. serial' = serial + 1 /\ serial' \in 0 .. MaxSerial /\ listSerial' = 0
          /\ up' = "up" /\ services' = {}
      BY <1>0, <1>7 DEF Boot, FirstSerial
    <2>2. stamp' \in [Service -> 0 .. serial'] BY <1>0, <1>7, <2>1 DEF Boot
    <2>3. flags' \in [Service -> BOOLEAN] /\ status' \in [Service -> BOOLEAN]
      BY <1>7 DEF Boot
    <2>4. listSerial' \in 0 .. serial' BY <1>0, <2>1
    <2> QED BY <1>0, <2>1, <2>2, <2>3, <2>4
  <1> QED BY <1>1, <1>3, <1>4, <1>5, <1>6, <1>7 DEF Manager

\* What the manager does to a request that is under way.
LEMMA ManagerAndRequest ==
    ASSUME RestTypeOK, Manager
    PROVE  \/ Noticed
           \/ Exit
           \/ Boot /\ UNCHANGED requestVars
  BY DEF Manager, Change, AddService, DeleteService, Shutdown, Boot

\* The handlers do nothing to the manager.
LEMMA ServingReads == Serving => UNCHANGED <<managerVars, wire>>
  BY DEF Serving, listServices, getManager, findService, readSerial, readFlags,
         readFlag, readStatus, answerService, readAgain, Getter

\* The server and its request stay what they are.
LEMMA NextRestTypeOK == ASSUME TypeOK, Waiting, RestStep PROVE RestTypeOK'
  <1> USE RestAssumption
  <1>0. RestTypeOK /\ ManagerTypeOK BY DEF TypeOK, RestTypeOK, ManagerTypeOK
  <1>a. NoTag \in Tag /\ Blank \in View BY DEF NoTag, Tag, Blank, View
  <1>b. NoRequest \in [kind : {"none", "list", "service", "manager", "lost"},
                       svc : Service \cup {NoService}, tag : Tag]
    BY <1>a DEF NoRequest
  <1>c. NoAnswer \in [code : {0, 200, 304, 404}, tag : Tag,
                      list : SUBSET Service, view : View]
    BY <1>a DEF NoAnswer
  <1>d. serial \in Tag /\ listSerial \in Tag /\ sn \in Tag
    BY <1>0 DEF RestTypeOK, Tag, NoTag
  <1> DEFINE RequestTypeOK ==
        /\ wire \in [kind : {"none", "list", "service", "manager", "lost"},
                     svc : Service \cup {NoService}, tag : Tag]
        /\ reading \in {"no", "serial", "status", "check"} \cup Flag
        /\ been \subseteq BOOLEAN
        /\ sn \in 0 .. MaxSerial /\ info \in View /\ seen \subseteq View
        /\ answer \in [code : {0, 200, 304, 404}, tag : Tag,
                       list : SUBSET Service, view : View]
  <1>e. RestTypeOK' <=> ManagerTypeOK' /\ RequestTypeOK'
    BY DEF RestTypeOK, ManagerTypeOK
  <1>f. RequestTypeOK BY <1>0 DEF RestTypeOK
  <1>1. CASE Manager
    <2>1. ManagerTypeOK' BY <1>0, <1>1, ManagerTypes
    <2>2. CASE Noticed
      <3>1. been' \subseteq BOOLEAN
        <4> SUFFICES ASSUME NEW b \in been' PROVE b \in BOOLEAN
          OBVIOUS
        <4>1. CASE b \in been BY <1>f, <4>1
        <4>2. ASSUME NEW s \in Asked, b = Managed(s)' PROVE b \in BOOLEAN
          BY <4>2 DEF Managed
        <4> QED BY <2>2, <4>1, <4>2 DEF Noticed
      <3>2. seen' \subseteq View
        <4>1. \A s \in Asked : Shown(s)' \in View
          BY <2>1, ShownIsView DEF Asked, Shown, Managed, View, ManagerTypeOK
        <4> QED BY <1>f, <2>2, <4>1 DEF Noticed
      <3> QED BY <1>e, <1>f, <2>1, <2>2, <3>1, <3>2 DEF Noticed
    <2>3. CASE Exit
      <3>1. wire' \in [kind : {"none", "list", "service", "manager", "lost"},
                       svc : Service \cup {NoService}, tag : Tag]
        BY <1>f, <2>3 DEF Exit
      <3>2. reading' = "no" /\ been' = {} /\ sn' = 0 /\ info' = Blank /\ seen' \subseteq View
            /\ answer' = answer
        BY <1>f, <2>3 DEF Exit
      <3> QED BY <1>a, <1>e, <1>f, <2>1, <3>1, <3>2
    <2>4. CASE UNCHANGED requestVars
      BY <1>e, <1>f, <2>1, <2>4 DEF requestVars
    <2> QED BY <1>0, <1>1, <2>2, <2>3, <2>4, ManagerAndRequest
  <1>2. CASE Serving
    <2>1. ManagerTypeOK' /\ UNCHANGED wire
      BY <1>0, <1>2, ServingReads DEF ManagerTypeOK, managerVars
    <2>2. ASSUME NEW tag \in Tag, NEW l \in SUBSET Service, NEW v \in View, Respond(tag, l, v)
          PROVE  answer' \in [code : {0, 200, 304, 404}, tag : Tag,
                              list : SUBSET Service, view : View]
      BY <2>2 DEF Respond
    <2>3. CASE listServices
      BY <1>0, <1>a, <1>d, <1>e, <1>f, <2>1, <2>2, <2>3
      DEF listServices, Services, ManagerTypeOK
    <2>4. CASE getManager
      BY <1>a, <1>d, <1>e, <1>f, <2>1, <2>2, <2>4 DEF getManager, GetInfo
    <2>5. CASE findService
      <3>1. [NoAnswer EXCEPT !.code = 404] \in [code : {0, 200, 304, 404}, tag : Tag,
                                                list : SUBSET Service, view : View]
        BY <1>c DEF NoAnswer
      <3>2. CASE wire.svc \in services
        <4>1. reading' = "serial" /\ been' = {TRUE} /\ UNCHANGED <<answer, sn, info, seen>>
          BY <2>5, <3>2 DEF findService
        <4> QED BY <1>e, <1>f, <2>1, <4>1
      <3>3. CASE wire.svc \notin services
        <4>1. answer' = [NoAnswer EXCEPT !.code = 404]
              /\ UNCHANGED <<reading, been, sn, info, seen>>
          BY <2>5, <3>3 DEF findService
        <4> QED BY <1>e, <1>f, <2>1, <3>1, <4>1
      <3> QED BY <3>2, <3>3
    <2>6. CASE readSerial
      <3>1. wire.svc \in Service BY <2>6 DEF readSerial, Getter, Pending, Waiting
      <3>2. PICK m \in been : sn' = SerialWhen(m) BY <2>6 DEF readSerial
      <3>3. sn' \in 0 .. MaxSerial BY <1>0, <3>1, <3>2 DEF SerialWhen, ManagerTypeOK
      <3>4. seen' \subseteq View BY <1>0, <2>6, <3>1, ShownIsView DEF readSerial
      <3> QED BY <1>e, <1>f, <2>1, <2>6, <3>3, <3>4 DEF readSerial, Getter, Managed, Flag
    <2>7. CASE readFlags
      <3>1. PICK flag \in Flag, next \in Flag \cup {"status"} : readFlag(flag, next)
        BY <2>7 DEF readFlags, Flag
      <3>2. wire.svc \in Service BY <3>1 DEF readFlag, Getter, Pending, Waiting, Flag
      <3>3. info' \in View BY <1>0, <1>f, <3>1, <3>2 DEF readFlag, View, ManagerTypeOK
      <3>4. UNCHANGED <<sn, seen, answer>> /\ reading' = next
            /\ been' = IF next = "no" THEN {} ELSE {Managed(wire.svc)}
        BY <3>1 DEF readFlag, Getter
      <3>5. Managed(wire.svc) \in BOOLEAN BY DEF Managed
      <3>6. been' \subseteq BOOLEAN BY <3>4, <3>5
      <3> QED BY <1>e, <1>f, <2>1, <3>1, <3>3, <3>4, <3>6
    <2>8. CASE readStatus
      <3>1. wire.svc \in Service BY <2>8 DEF readStatus, Getter, Pending, Waiting
      <3>2. info' \in View BY <1>0, <1>f, <2>8, <3>1 DEF readStatus, View, ManagerTypeOK
      <3> QED BY <1>e, <1>f, <2>1, <2>8, <3>2 DEF readStatus, Getter, Managed
    <2>9. CASE answerService
      <3>1. answer' \in [code : {0, 200, 304, 404}, tag : Tag,
                         list : SUBSET Service, view : View]
        BY <1>d, <1>f, <2>2, <2>9 DEF answerService
      <3>2. reading' = "no" /\ been' = {} /\ sn' = 0 /\ info' = Blank /\ seen' = seen
        BY <2>9 DEF answerService, Getter
      <3> QED BY <1>a, <1>e, <1>f, <2>1, <3>1, <3>2
    <2>10. CASE readAgain
      <3>1. reading' = "serial" /\ been' = {Managed(wire.svc)} /\ sn' = 0 /\ info' = Blank
            /\ seen' = {} /\ answer' = answer
        BY <2>10 DEF readAgain, Getter
      <3> QED BY <1>a, <1>e, <1>f, <2>1, <3>1 DEF Managed
    <2> QED BY <1>2, <2>3, <2>4, <2>5, <2>6, <2>7, <2>8, <2>9, <2>10 DEF Serving
  <1>3. ASSUME NEW kind \in {"list", "service", "manager"},
               NEW s \in Service \cup {NoService}, NEW t \in Tag, Ask(kind, s, t)
        PROVE  RestTypeOK'
    BY <1>0, <1>f, <1>e, <1>3 DEF Ask, managerVars, ManagerTypeOK
  <1>4. CASE Over
    BY <1>0, <1>a, <1>b, <1>c, <1>e, <1>4 DEF Over, managerVars, ManagerTypeOK
  <1>5. CASE UNCHANGED restVars
    BY <1>0, <1>e, <1>f, <1>5 DEF restVars, managerVars, requestVars, ManagerTypeOK
  <1> QED BY <1>1, <1>2, <1>3, <1>4, <1>5 DEF RestStep

\* The client and the screen stay what they are.
LEMMA NextTypeOK == TypeOK /\ Waiting /\ [Next]_vars => TypeOK'
  <1> SUFFICES ASSUME TypeOK, Waiting, [Next]_vars PROVE TypeOK'
    OBVIOUS
  <1> USE RefreshAssumption DEF TypeOK
  <1>0. RestTypeOK' BY StepOfRest, NextRestTypeOK
  <1>1. UNCHANGED fails \/ fails' \in 0 .. MaxFails \* of every step
    BY DEF Next, Loop, Failure, AskList, HaveList, AskItem, HaveItem, Post, WatchCached,
           AskManager, HaveManager, NoList, NoItem, NoManager, Answered, Failed, Draw,
           SetUserPassword, loopVars, vars
  <1>2. answer.tag \in Tag /\ answer.list \subseteq Service /\ answer.view \in View
    BY DEF RestTypeOK
  <1>3. CASE UNCHANGED loopVars BY <1>0, <1>3 DEF loopVars
  <1>4. CASE AskList \/ AskItem \/ AskManager
    BY <1>0, <1>1, <1>4 DEF AskList, AskItem, AskManager
  <1>5. CASE HaveList \/ NoList
    BY <1>0, <1>1, <1>2, <1>5 DEF HaveList, NoList
  <1>6. CASE HaveItem
    <2>1. answer.code = 200 => wire.svc \in Service
      BY <1>6 DEF HaveItem, Waiting, Answered
    <2>2. items' \subseteq ItemSet
      BY <1>2, <1>6, <2>1 DEF HaveItem, Modified, ItemSet
    <2> QED BY <1>0, <1>1, <1>6, <2>2 DEF HaveItem
  <1>7. CASE NoItem BY <1>0, <1>1, <1>7 DEF NoItem
  <1>8. CASE SetUserPassword \/ WatchCached
    BY <1>0, <1>1, <1>8 DEF SetUserPassword, WatchCached
  <1>10. CASE Post \/ Draw
    <2>1. posted' \in Seq(SUBSET ItemSet) /\ items' \subseteq ItemSet /\ shown' \subseteq ItemSet
      <3>1. posted \in Seq(SUBSET ItemSet) /\ items \in SUBSET ItemSet /\ shown \in SUBSET ItemSet
        OBVIOUS
      <3>2. CASE Post
        <4>1. posted' = Append(posted, items) /\ items' = {} /\ shown' = shown
          BY <3>2 DEF Post
        <4>2. posted' \in Seq(SUBSET ItemSet) BY <3>1, <4>1
        <4> QED BY <3>1, <4>1, <4>2
      <3>3. CASE Draw
        <4>1. posted # <<>> /\ posted' = Tail(posted) /\ shown' = Head(posted) /\ items' = items
          BY <3>3 DEF Draw
        <4>2. posted' \in Seq(SUBSET ItemSet) BY <3>1, <4>1
        <4>3. shown' \in SUBSET ItemSet BY <3>1, <4>1
        <4> QED BY <3>1, <4>1, <4>2, <4>3
      <3> QED BY <1>10, <3>2, <3>3
    <2> QED BY <1>0, <1>1, <1>10, <2>1 DEF Post, Draw
  <1>9. CASE HaveManager \/ NoManager
    <2>1. NoTag \in Tag BY RestAssumption DEF NoTag, Tag
    <2> QED BY <1>0, <1>1, <1>2, <1>9, <2>1 DEF HaveManager, NoManager
  <1> QED BY <1>3, <1>4, <1>5, <1>6, <1>7, <1>8, <1>9, <1>10 DEF Next, Loop, Failure, vars

-----------------------------------------------------------------------------
(* The manager.                                                            *)

\* Whatever is added or changes gets a serial that is larger than all there are.
LEMMA NextNumbered == ASSUME RestTypeOK, Numbered, RestStep PROVE Numbered'
  <1>0. ManagerTypeOK BY DEF RestTypeOK, ManagerTypeOK
  <1> USE DEF Numbered, ManagerTypeOK
  <1>1. CASE UNCHANGED managerVars BY <1>1 DEF managerVars
  <1>2. ASSUME NEW x \in Service, Change(x) PROVE Numbered'
    BY <1>0, <1>2 DEF Change, Bump
  <1>3. ASSUME NEW x \in Service, AddService(x) \/ DeleteService(x) PROVE Numbered'
    BY <1>0, <1>3 DEF AddService, DeleteService, Relist, ListBumped
  <1>4. CASE Shutdown \/ Boot BY <1>4 DEF Shutdown, Boot
  <1>5. CASE Exit BY <1>5 DEF Exit
  <1>6. CASE Serving BY <1>1, <1>6, ServingReads
  <1> QED BY <1>1, <1>2, <1>3, <1>4, <1>5, <1>6
          DEF RestStep, Manager, Ask, Over, restVars, managerVars

\* A service that has a serial is not added while the manager runs; it changes only
\* with a larger serial, or by leaving the manager.
Follows(s) ==
    /\ Managed(s)' => Managed(s)
    /\ stamp'[s] = stamp[s] \/ stamp'[s] > serial
    /\ stamp'[s] = stamp[s] /\ Managed(s)' => Shown(s)' = Shown(s) /\ flags'[s] = flags[s]
    /\ ~Managed(s) => Shown(s)' = Shown(s)

\* So it is, whatever the manager does.
LEMMA ServiceFollows ==
    ASSUME RestTypeOK, Manager, up # "down", NEW s \in Service, stamp[s] > 0
    PROVE  Follows(s)
  <1>0. ManagerTypeOK BY DEF RestTypeOK, ManagerTypeOK
  <1> USE DEF Managed, Shown, Follows
  <1>1. ASSUME NEW x \in Service, Change(x) PROVE Follows(s)
    <2>1. services' = services /\ x \in services /\ serial \in Nat
          /\ stamp' = [stamp EXCEPT ![x] = serial + 1]
      BY <1>0, <1>1 DEF Change, Bump, ManagerTypeOK
    <2>2. PICK f, t \in BOOLEAN : flags' = [flags EXCEPT ![x] = f]
                                  /\ status' = [status EXCEPT ![x] = t]
      BY <1>1 DEF Change
    <2>3. CASE x = s BY <1>0, <2>1, <2>3 DEF ManagerTypeOK
    <2>4. CASE x # s BY <1>0, <2>1, <2>2, <2>4 DEF ManagerTypeOK
    <2> QED BY <2>3, <2>4
  <1>2. ASSUME NEW x \in Service, AddService(x) \/ DeleteService(x) PROVE Follows(s)
    <2>1. stamp' = [stamp EXCEPT ![x] = serial + 2] /\ serial \in Nat /\ flags' = flags
      BY <1>0, <1>2 DEF AddService, DeleteService, Relist, ManagerTypeOK
    <2>2. services' \in {services \cup {x}, services \ {x}}
      BY <1>2 DEF AddService, DeleteService, Relist
    <2>3. status' \in {status, [status EXCEPT ![x] = FALSE]}
      BY <1>2 DEF AddService, DeleteService
    <2>4. CASE x = s
      <3>1. DeleteService(x) BY <1>2, <2>4 DEF AddService
      <3>2. stamp'[s] > serial BY <1>0, <2>1, <2>4 DEF ManagerTypeOK
      <3>3. s \in services /\ stamp'[s] # stamp[s]
        BY <1>0, <2>4, <3>1, <3>2 DEF DeleteService, ManagerTypeOK
      <3> QED BY <3>2, <3>3
    <2>5. CASE x # s
      <3>1. stamp'[s] = stamp[s] /\ status'[s] = status[s] /\ (s \in services' <=> s \in services)
        BY <1>0, <2>1, <2>2, <2>3, <2>5 DEF ManagerTypeOK
      <3> QED BY <2>1, <3>1
    <2> QED BY <2>4, <2>5
  <1>3. CASE Shutdown
    <2>1. services' = {} /\ flags'[s] = (s \notin services /\ flags[s])
          /\ status'[s] = (s \notin services /\ status[s])
      BY <1>3 DEF Shutdown
    <2>2. stamp'[s] = stamp[s] \/ stamp'[s] > serial BY <1>3 DEF Shutdown
    <2>3. s \notin services => Shown(s)' = Shown(s)
      BY <1>0, <2>1 DEF ManagerTypeOK
    <2> QED BY <2>1, <2>2, <2>3
  <1>4. CASE Exit BY <1>4 DEF Exit
  <1>5. ~Boot BY DEF Boot
  <1> QED BY <1>1, <1>2, <1>3, <1>4, <1>5 DEF Manager

-----------------------------------------------------------------------------
(* Requests.                                                               *)

\* The loop waits for what it has asked for.
LEMMA NextWaiting == TypeOK /\ Waiting /\ [Next]_vars => Waiting'
  <1> SUFFICES ASSUME TypeOK, Waiting, [Next]_vars PROVE Waiting'
    OBVIOUS
  <1> USE DEF Waiting
  <1>0. /\ wire \in [kind : {"none", "list", "service", "manager", "lost"},
                     svc : Service \cup {NoService}, tag : Tag]
        /\ todo \subseteq Service
    BY DEF TypeOK, RestTypeOK
  <1>1. CASE UNCHANGED <<wire, answer, at>> BY <1>1
  <1>2. CASE Exit /\ UNCHANGED loopVars
    BY <1>0, <1>2 DEF Exit, loopVars, NoRequest
  <1>3. CASE Serving /\ UNCHANGED loopVars
    <2>1. UNCHANGED <<wire, at>> BY <1>3, ServingReads DEF loopVars
    <2>2. wire.kind \notin {"none", "lost"} \/ UNCHANGED answer
      BY <1>3 DEF Serving, listServices, getManager, findService, readSerial, readFlags,
                  readFlag, readStatus, answerService, readAgain, Getter, Pending
    <2> QED BY <2>1, <2>2 DEF NoRequest
  <1>4. CASE AskList \/ AskItem \/ AskManager
    BY <1>0, <1>4 DEF AskList, AskItem, AskManager, Ask, NoAnswer
  <1>5. CASE HaveList \/ NoList \/ HaveItem \/ NoItem \/ HaveManager \/ NoManager
    BY <1>5 DEF HaveList, NoList, HaveItem, NoItem, HaveManager, NoManager, Answered,
                Failed, Over, NoRequest, NoAnswer
  <1>6. CASE Post \/ WatchCached \/ Draw \/ SetUserPassword
    BY <1>6 DEF Post, WatchCached, Draw, SetUserPassword, restVars, requestVars
  <1>7. CASE Manager /\ UNCHANGED loopVars
    BY <1>1, <1>2, <1>7, ManagerAndRequest DEF TypeOK, Noticed, requestVars, loopVars
  <1>8. CASE UNCHANGED vars BY <1>1, <1>8 DEF vars, restVars, requestVars, loopVars
  <1> QED BY <1>3, <1>4, <1>5, <1>6, <1>7, <1>8 DEF Next, Loop, Failure

\* A manager that changes while a service is read.
LEMMA ManagerAndReading ==
    ASSUME RestTypeOK, Waiting, Reading, Manager
    PROVE  Reading'
  <1> USE DEF Reading, Found, Read, ReadUnmanaged, ReadManaged, HasSerial
  <1>0. ManagerTypeOK /\ ManagerTypeOK'
    BY ManagerTypes DEF RestTypeOK, ManagerTypeOK
  <1>1. CASE reading' = "no" BY <1>1 DEF Flag
  <1>2. CASE reading' # "no"
    <2> DEFINE s == wire.svc
    <2>1. up # "down" /\ reading # "no" /\ Noticed
      BY <1>2, ManagerAndRequest DEF Exit, Boot, requestVars, Noticed
    <2>2. UNCHANGED <<wire, reading, sn, info, answer>> BY <2>1 DEF Noticed
    <2>3. s \in Service /\ Asked = {s} BY <2>1 DEF Waiting, Asked
    <2>4. been' = been \cup {Managed(s)'} /\ seen' = seen \cup {Shown(s)'}
      BY <2>1, <2>3 DEF Noticed
    <2>5. stamp[s] > 0 BY <2>1
    <2>6. Follows(s) BY <2>1, <2>3, <2>5, ServiceFollows
    <2>7. up' # "down"
      BY <2>1, <2>2, <1>2 DEF Manager, Change, AddService, DeleteService, Relist,
                              Shutdown, Boot, Exit
    <2>8. stamp'[s] > 0 /\ stamp'[s] >= stamp[s] /\ serial \in Int /\ stamp[s] <= serial
      BY <1>0, <2>3, <2>5, <2>6 DEF Follows, ManagerTypeOK
    <2>9. stamp'[s] \in Int /\ stamp[s] \in Int /\ sn \in Int
      BY <1>0, <2>3 DEF ManagerTypeOK, RestTypeOK
    <2>10. Found' BY <2>1, <2>2, <2>4, <2>6, <2>7, <2>8 DEF Follows
    <2>11. Read' BY <2>2, <2>4, <2>8, <2>9
    <2>12. ReadUnmanaged'
      <3> SUFFICES ASSUME HasSerial, sn = 0 PROVE ReadUnmanaged'
        BY <2>2
      <3>1. been = {FALSE} /\ ~Managed(s) BY <2>1
      <3>2. ~Managed(s)' /\ Shown(s)' = Shown(s) BY <2>6, <3>1 DEF Follows
      <3>3. Managed(s)' = FALSE BY <3>2
      <3>4. been' = {FALSE} BY <2>4, <3>1, <3>3
      <3>5. FlagsRead' = FlagsRead /\ \A f \in FlagsRead : info'[f] = FALSE
        BY <2>1, <2>2 DEF FlagsRead
      <3>6. reading = "check" => info' = Shown(s)' BY <2>2, <3>2
      <3> QED BY <2>2, <3>4, <3>5, <3>6
    <2>13. ReadManaged'
      <3> SUFFICES ASSUME HasSerial, sn = stamp'[s] PROVE ReadManaged'
        BY <2>2
      <3>1. stamp'[s] = stamp[s] BY <2>6, <2>8, <2>9 DEF Follows
      <3>2. FlagsRead' = FlagsRead BY <2>2 DEF FlagsRead
      <3> QED BY <2>1, <2>2, <2>4, <2>6, <3>1, <3>2 DEF Follows
    <2> QED BY <2>10, <2>11, <2>12, <2>13
  <1> QED BY <1>1, <1>2

\* The calls of getService, one after the other.
LEMMA ServingAndReading ==
    ASSUME RestTypeOK, Numbered, Waiting, Reading, Serving
    PROVE  Reading'
  <1> USE DEF Reading, Found, Read, ReadUnmanaged, ReadManaged, HasSerial
  <1>0. ManagerTypeOK BY DEF RestTypeOK, ManagerTypeOK
  <1>a. UNCHANGED <<up, serial, listSerial, services, stamp, flags, status, wire>>
    BY ServingReads DEF managerVars
  <1> DEFINE s == wire.svc
  <1>b. Shown(s)' = Shown(s) /\ Managed(s)' = Managed(s) BY <1>a DEF Shown, Managed
  <1>c. wire.kind = "service" => s \in Service BY DEF Waiting
  <1>1. CASE listServices \/ getManager
    <2>1. wire.kind # "service" /\ UNCHANGED reading
      BY <1>1 DEF listServices, getManager, Pending
    <2> QED BY <2>1 DEF Flag
  <1>2. CASE findService
    <2>1. CASE s \in services
      <3>1. reading' = "serial" /\ been' = {TRUE} /\ UNCHANGED answer
            /\ wire.kind = "service" /\ answer.code = 0 /\ up # "down"
        BY <1>2, <2>1 DEF findService, Pending
      <3>2. stamp[s] > 0 BY <2>1 DEF Numbered
      <3>3. Managed(s)' = TRUE BY <1>b, <2>1 DEF Managed
      <3> QED BY <1>a, <3>1, <3>2, <3>3 DEF Flag
    <2>2. CASE s \notin services
      <3>1. reading' = "no" BY <1>2, <2>2 DEF findService
      <3> QED BY <3>1 DEF Flag
    <2> QED BY <2>1, <2>2
  <1> DEFINE Called(from, to) ==
               /\ reading = from /\ reading' = to /\ been' = {Managed(s)}
               /\ wire.kind = "service" /\ answer.code = 0 /\ up # "down" /\ stamp[s] > 0
               /\ s \in Service
               /\ Managed(s) \in been /\ (Managed(s) => been = {TRUE})
               /\ Managed(s) \in been' /\ (Managed(s) => been' = {TRUE})
  <1>3. ASSUME NEW from \in {"serial", "status", "check"} \cup Flag, NEW to, to # "no",
               Getter(from, to)
        PROVE  Called(from, to)
    <2>1. reading = from /\ reading' = to /\ been' = {Managed(s)} /\ wire.kind = "service"
          /\ answer.code = 0 /\ up # "down" /\ reading # "no"
      BY <1>3 DEF Getter, Pending, Flag
    <2>2. stamp[s] > 0 /\ Managed(s) \in been /\ (Managed(s) => been = {TRUE})
      BY <2>1
    <2>3. Managed(s) => Managed(s) = TRUE BY DEF Managed
    <2> QED BY <1>c, <2>1, <2>2, <2>3
  <1>4. CASE readSerial
    <2>1. PICK m \in been : sn' = SerialWhen(m) BY <1>4 DEF readSerial
    <2>2. Getter("serial", "enabled") /\ seen' = {Shown(s)} /\ UNCHANGED <<info, answer>>
      BY <1>4 DEF readSerial
    <2>3. Called("serial", "enabled") BY <1>3, <2>2
    <2>4. stamp[s] \in Nat /\ stamp[s] > 0 BY <1>0, <2>3 DEF ManagerTypeOK
    <2>5. m \in BOOLEAN BY DEF RestTypeOK
    <2>6. sn' <= stamp[s] BY <2>1, <2>4, <2>5 DEF SerialWhen
    <2>7. sn' = 0 => been' = {FALSE}
      <3> SUFFICES ASSUME sn' = 0 PROVE been' = {FALSE}
        OBVIOUS
      <3>1. m = FALSE BY <2>1, <2>4, <2>5 DEF SerialWhen
      <3>2. ~Managed(s) BY <2>3, <3>1
      <3>3. Managed(s) = FALSE BY <3>2 DEF Managed
      <3> QED BY <2>3, <3>3
    <2>8. Found' BY <1>a, <1>b, <2>2, <2>3
    <2>9. Read' BY <1>a, <1>b, <2>2, <2>3, <2>6
    <2>10. ReadUnmanaged' BY <2>3, <2>7 DEF FlagsRead, Flag
    <2>11. ReadManaged' BY <2>3 DEF FlagsRead, Flag
    <2> QED BY <2>8, <2>9, <2>10, <2>11
  <1>5. ASSUME NEW flag, NEW next, readFlag(flag, next),
               \/ flag = "enabled" /\ next = "running"
               \/ flag = "running" /\ next = "failed"
               \/ flag = "failed" /\ next = "status"
        PROVE  Reading'
    <2>1. PICK m \in been : info' = [info EXCEPT ![flag] = m /\ flags[s]]
      BY <1>5 DEF readFlag
    <2>2. Getter(flag, next) /\ UNCHANGED <<sn, seen, answer>> BY <1>5 DEF readFlag
    <2>3. Called(flag, next) BY <1>3, <1>5, <2>2 DEF Flag
    <2>4. FlagsRead' = FlagsRead \cup {flag} /\ HasSerial /\ FlagsRead \subseteq Flag /\ flag \in Flag
      BY <1>5, <2>3 DEF FlagsRead, Flag
    <2>5. info'[flag] = (m /\ flags[s]) /\ \A f \in FlagsRead : f # flag => info'[f] = info[f]
      <3>1. info \in [Flag \cup {"status"} -> BOOLEAN] BY DEF RestTypeOK, View
      <3> QED BY <2>1, <2>4, <3>1
    <2>6. flags[s] \in BOOLEAN BY <1>0, <2>3 DEF ManagerTypeOK
    <2>7. sn = 0 => been' = {FALSE} /\ \A f \in FlagsRead' : info'[f] = FALSE
      <3> SUFFICES ASSUME sn = 0 PROVE been' = {FALSE} /\ \A f \in FlagsRead' : info'[f] = FALSE
        OBVIOUS
      <3>1. been = {FALSE} /\ \A f \in FlagsRead : info[f] = FALSE BY <2>4
      <3>2. m = FALSE BY <3>1
      <3>3. ~Managed(s) BY <2>3, <3>1
      <3>4. Managed(s) = FALSE BY <3>3 DEF Managed
      <3>5. been' = {FALSE} BY <2>3, <3>4
      <3>6. info'[flag] = FALSE BY <2>5, <3>2
      <3> QED BY <2>4, <2>5, <3>1, <3>5, <3>6
    <2>8. sn = stamp[s] /\ Managed(s) => \A f \in FlagsRead' : info'[f] = flags[s]
      <3> SUFFICES ASSUME sn = stamp[s], Managed(s)
                   PROVE  \A f \in FlagsRead' : info'[f] = flags[s]
        OBVIOUS
      <3>1. m = TRUE BY <2>3
      <3>2. info'[flag] = flags[s] BY <2>5, <2>6, <3>1
      <3>3. \A f \in FlagsRead : info[f] = flags[s] BY <2>4
      <3> QED BY <2>4, <2>5, <3>2, <3>3
    <2>9. Found' BY <1>a, <1>b, <2>2, <2>3
    <2>10. Read' BY <1>a, <1>b, <2>2, <2>3, <2>4
    <2>11. reading' # "check" BY <1>5, <2>3
    <2>12. ReadUnmanaged' BY <2>2, <2>7, <2>11
    <2>13. ReadManaged' BY <1>a, <1>b, <2>2, <2>8, <2>11
    <2> QED BY <2>9, <2>10, <2>12, <2>13
  <1>6. CASE readStatus
    <2>1. info' = [info EXCEPT !["status"] = status[s]] BY <1>6 DEF readStatus
    <2>2. Getter("status", "check") /\ UNCHANGED <<sn, seen, answer>>
      BY <1>6 DEF readStatus
    <2>3. Called("status", "check") BY <1>3, <2>2
    <2>4. /\ info' \in [Flag \cup {"status"} -> BOOLEAN] /\ info'["status"] = status[s]
          /\ \A f \in Flag : info'[f] = info[f]
      <3>1. info \in [Flag \cup {"status"} -> BOOLEAN] BY DEF RestTypeOK, View
      <3>2. status[s] \in BOOLEAN BY <1>0, <2>3 DEF ManagerTypeOK
      <3> QED BY <2>1, <3>1, <3>2 DEF Flag
    <2>a. FlagsRead = Flag /\ FlagsRead' = Flag /\ HasSerial BY <2>3 DEF FlagsRead
    <2>b. ASSUME \A f \in Flag : info[f] = (Managed(s) /\ flags[s]) PROVE info' = Shown(s)
      <3>1. \A f \in Flag : info'[f] = Shown(s)[f] BY <2>4, <2>b DEF Shown
      <3>2. info'["status"] = Shown(s)["status"] BY <2>4 DEF Shown, Flag
      <3>3. Shown(s) \in [Flag \cup {"status"} -> BOOLEAN]
        BY <1>0, <2>3, ShownIsView DEF View
      <3> QED BY <2>4, <3>1, <3>2, <3>3
    <2>5. sn = 0 => been' = {FALSE} /\ info' = Shown(s)
      <3> SUFFICES ASSUME sn = 0 PROVE been' = {FALSE} /\ info' = Shown(s)
        OBVIOUS
      <3>1. been = {FALSE} /\ \A f \in Flag : info[f] = FALSE BY <2>a
      <3>2. ~Managed(s) BY <2>3, <3>1
      <3>3. Managed(s) = FALSE BY <3>2 DEF Managed
      <3>4. info' = Shown(s) BY <2>b, <3>1, <3>3
      <3> QED BY <2>3, <3>3, <3>4
    <2>6. sn = stamp[s] /\ Managed(s) => info' = Shown(s)
      <3> SUFFICES ASSUME sn = stamp[s], Managed(s) PROVE info' = Shown(s)
        OBVIOUS
      <3>1. \A f \in Flag : info[f] = flags[s] BY <2>a
      <3>2. flags[s] \in BOOLEAN BY <1>0, <2>3 DEF ManagerTypeOK
      <3>3. \A f \in Flag : info[f] = (Managed(s) /\ flags[s]) BY <3>1, <3>2
      <3> QED BY <2>b, <3>3
    <2>7. TRUE \in been' => Managed(s) BY <2>3 DEF Managed
    <2>8. Shown(s) \in seen BY <2>a
    <2>9. Found' BY <1>a, <1>b, <2>2, <2>3
    <2>10. Read' BY <1>a, <1>b, <2>2, <2>a
    <2>c. Shown(s)["status"] = status[s]
          /\ \A f \in Flag : Shown(s)[f] = (Managed(s) /\ flags[s])
      BY DEF Shown, Flag
    <2>d. flags[s] \in BOOLEAN BY <1>0, <2>3 DEF ManagerTypeOK
    <2>11. ReadUnmanaged'
      <3> SUFFICES ASSUME sn = 0 PROVE ReadUnmanaged'
        BY <2>2
      <3>1. been = {FALSE} BY <2>a
      <3>2. Managed(s) = FALSE BY <2>3, <3>1 DEF Managed
      <3> QED BY <1>a, <1>b, <2>2, <2>3, <2>5, <2>a, <2>c, <3>2
    <2>12. ReadManaged'
      <3> SUFFICES ASSUME sn = stamp[s] PROVE ReadManaged'
        BY <1>a, <2>2
      <3>1. Managed(s) => \A f \in Flag : info'[f] = flags[s] BY <2>6, <2>c, <2>d
      <3> QED BY <1>a, <1>b, <2>2, <2>3, <2>6, <2>7, <2>8, <2>a, <3>1
    <2> QED BY <2>9, <2>10, <2>11, <2>12
  <1>7. CASE answerService
    <2>1. reading' = "no" BY <1>7 DEF answerService, Getter
    <2> QED BY <2>1 DEF Flag
  <1>8. CASE readAgain
    <2>1. Getter("check", "serial") /\ UNCHANGED answer
      BY <1>8 DEF readAgain
    <2>2. Called("check", "serial") BY <1>3, <2>1
    <2>3. Found' BY <1>a, <1>b, <2>1, <2>2
    <2>4. ~HasSerial' BY <2>2 DEF Flag
    <2> QED BY <2>3, <2>4
  <1>9. CASE readFlags BY <1>5, <1>9 DEF readFlags
  <1> QED BY <1>1, <1>2, <1>4, <1>6, <1>7, <1>8, <1>9 DEF Serving

\* What is read of a service is of one moment, whatever comes between.
LEMMA NextReading == ASSUME RestTypeOK, Numbered, Waiting, Reading, RestStep PROVE Reading'
  <1>1. CASE Manager BY <1>1, ManagerAndReading
  <1>2. CASE Serving BY <1>2, ServingAndReading
  <1>3. ASSUME NEW kind, NEW s, NEW t, wire = NoRequest, Ask(kind, s, t) PROVE Reading'
    <2>1. reading' = "no" BY <1>3 DEF Ask, Reading, Found, NoRequest
    <2> QED BY <2>1 DEF Reading, Found, Read, ReadUnmanaged, ReadManaged, HasSerial, Flag
  <1>4. CASE Over
    BY <1>4 DEF Over, Reading, Found, Read, ReadUnmanaged, ReadManaged, HasSerial, Flag
  <1>5. CASE UNCHANGED restVars
    BY <1>5 DEF restVars, managerVars, requestVars, Reading, Found, Read, ReadUnmanaged,
                ReadManaged, HasSerial, FlagsRead, Managed, Shown
  <1> QED BY <1>1, <1>2, <1>3, <1>4, <1>5 DEF RestStep

-----------------------------------------------------------------------------
(* Answers and what is kept of them.                                       *)

\* A view stays the one of its serial, and a list that of its own, whatever the
\* manager does and although its successor numbers the services anew.
LEMMA CopiesStay ==
    ASSUME RestTypeOK, Numbered, Manager
    PROVE  /\ \A s \in Service, v \in View, t \in Tag : ViewOf(s, t, v) => ViewOf(s, t, v)'
           /\ \A l \in SUBSET Service, t \in Tag : ListOf(t, l) => ListOf(t, l)'
  <1>0. ManagerTypeOK /\ ManagerTypeOK' /\ serial' >= serial
    BY ManagerTypes DEF RestTypeOK, ManagerTypeOK
  <1>a. serial \in Int /\ serial' \in Int /\ \A t \in Tag : t \in Int
    BY <1>0 DEF ManagerTypeOK, Tag, NoTag
  <1>1. ASSUME NEW s \in Service, NEW v \in View, NEW t \in Tag, ViewOf(s, t, v)
        PROVE  ViewOf(s, t, v)'
    <2>1. t <= serial' BY <1>0, <1>1, <1>a DEF ViewOf
    <2> SUFFICES ASSUME up' = "up", s \in services', t = stamp'[s] PROVE v = Shown(s)'
      BY <2>1 DEF ViewOf
    <2>2. ~(stamp'[s] > serial) BY <1>1, <1>a DEF ViewOf
    <2>3. up = "up"
      BY DEF Manager, Change, AddService, DeleteService, Relist, Shutdown, Exit, Boot
    <2>4. CASE stamp[s] > 0
      <3>1. Follows(s) BY <2>3, <2>4, ServiceFollows
      <3> QED BY <1>1, <2>2, <2>3, <3>1 DEF Follows, ViewOf, Managed
    <2>5. CASE ~(stamp[s] > 0)
      <3>1. s \notin services BY <2>5 DEF Numbered
      <3>2. AddService(s)
        BY <2>3, <3>1 DEF Manager, Change, AddService, DeleteService, Relist, Shutdown,
                          Exit, Boot
      <3>3. stamp'[s] = serial + 2
        BY <1>0, <3>2 DEF AddService, Relist, ManagerTypeOK
      <3> QED BY <1>a, <2>2, <3>3
    <2> QED BY <2>4, <2>5
  <1>2. ASSUME NEW l \in SUBSET Service, NEW t \in Tag, ListOf(t, l)
        PROVE  ListOf(t, l)'
    <2>1. t <= serial' /\ (t = 0 => l = {}) BY <1>0, <1>2, <1>a DEF ListOf
    <2> SUFFICES ASSUME up' = "up", t = listSerial' PROVE l = services'
      BY <2>1 DEF ListOf
    <2>2. CASE Boot BY <1>2, <2>2 DEF Boot, ListOf
    <2>3. ASSUME NEW x \in Service, Change(x) PROVE l = services'
      BY <1>2, <2>3 DEF Change, ListOf
    <2>4. ASSUME NEW x \in Service, AddService(x) \/ DeleteService(x) PROVE l = services'
      <3>1. listSerial' = serial + 1
        BY <2>4 DEF AddService, DeleteService, Relist, ListBumped
      <3> QED BY <1>2, <1>a, <3>1 DEF ListOf
    <2>5. ~Shutdown /\ ~Exit BY <1>2 DEF Shutdown, Exit
    <2> QED BY <2>2, <2>3, <2>4, <2>5 DEF Manager
  <1> QED BY <1>1, <1>2

\* The loop of getService ends with a view that was seen, and with the one of the
\* serial if that is still the same (server.go:139-157).
LEMMA AnswerIsSeen ==
    ASSUME RestTypeOK, Numbered, Waiting, Reading, answerService
    PROVE  info \in seen /\ ViewOf(wire.svc, sn, info)
  <1> DEFINE s == wire.svc
  <1>0. ManagerTypeOK BY DEF RestTypeOK, ManagerTypeOK
  <1>1. reading = "check" /\ wire.kind = "service" /\ s \in Service
    BY DEF answerService, Getter, Pending, Waiting
  <1>2. PICK m \in been : SerialWhen(m) = sn BY DEF answerService, Rechecked
  <1>3. m \in BOOLEAN BY DEF RestTypeOK
  <1>4. stamp[s] > 0 /\ Managed(s) \in been /\ (Managed(s) => been = {TRUE})
    BY <1>1 DEF Reading, Found
  <1>5. stamp[s] \in Int /\ serial \in Int /\ sn \in Int /\ stamp[s] <= serial
    BY <1>0, <1>1 DEF ManagerTypeOK, RestTypeOK
  <1>6. HasSerial BY <1>1 DEF HasSerial
  <1>7. sn <= stamp[s] /\ Shown(s) \in seen BY <1>6 DEF Reading, Read
  <1>8. CASE m = FALSE
    <2>1. sn = 0 BY <1>2, <1>8 DEF SerialWhen
    <2>2. info = Shown(s) BY <1>1, <1>6, <2>1 DEF Reading, ReadUnmanaged
    <2>3. 0 <= serial BY <1>4, <1>5
    <2> QED BY <1>7, <2>1, <2>2, <2>3 DEF ViewOf
  <1>9. CASE m = TRUE
    <2>1. sn = stamp[s] /\ TRUE \in been BY <1>2, <1>9 DEF SerialWhen
    <2>2. info \in seen /\ (Managed(s) => info = Shown(s))
      BY <1>1, <1>6, <2>1 DEF Reading, ReadManaged
    <2> QED BY <1>5, <1>7, <2>1, <2>2 DEF ViewOf, Managed
  <1> QED BY <1>3, <1>8, <1>9

\* The view and the list of an answer are those of its serial.
AnswerView ==
    wire.kind = "service" /\ answer.code = 200 =>
        answer.view \in seen /\ ViewOf(wire.svc, answer.tag, answer.view)
AnswerList == wire.kind = "list" /\ answer.code = 200 => ListOf(answer.tag, answer.list)

\* An answer is true when it is given and stays so until it is there.
LEMMA NextAnswer ==
    ASSUME FInv, RestStep
    PROVE  AnswerView' /\ AnswerList'
  <1> USE DEF AnswerView, AnswerList
  <1>0. /\ RestTypeOK /\ Numbered /\ Waiting /\ Reading /\ AnswerView /\ AnswerList
        /\ ManagerTypeOK
    BY DEF FInv, TypeOK, RestTypeOK, Views, Lists, ManagerTypeOK
  <1>1. CASE Manager
    <2>1. /\ answer.tag \in Tag /\ answer.view \in View /\ answer.list \in SUBSET Service
          /\ wire.kind = "service" => wire.svc \in Service
      BY <1>0 DEF RestTypeOK, Waiting
    <2>2. PICK s, t, v, l : s = wire.svc /\ t = answer.tag /\ v = answer.view /\ l = answer.list
      OBVIOUS
    <2>3. /\ s \in Service /\ ViewOf(s, t, v) => ViewOf(s, t, v)'
          /\ ListOf(t, l) => ListOf(t, l)'
      <3>1. t \in Tag /\ v \in View /\ l \in SUBSET Service BY <2>1, <2>2
      <3>2. s \in Service /\ ViewOf(s, t, v) => ViewOf(s, t, v)'
        BY <1>0, <1>1, <3>1, CopiesStay DEF ViewOf, Shown, Managed
      <3>3. ListOf(t, l) => ListOf(t, l)'
        BY <1>0, <1>1, <3>1, CopiesStay DEF ListOf
      <3> QED BY <3>2, <3>3
    <2>4. UNCHANGED answer /\ ((wire' = wire /\ seen \subseteq seen') \/ answer.code = 0)
      <3>1. CASE Noticed BY <3>1 DEF Noticed
      <3>2. CASE Exit BY <3>2 DEF Exit
      <3>3. CASE UNCHANGED requestVars BY <3>3 DEF requestVars
      <3> QED BY <1>0, <1>1, <3>1, <3>2, <3>3, ManagerAndRequest
    <2>5. CASE answer.code = 0 BY <2>4, <2>5
    <2>6. CASE wire' = wire /\ seen \subseteq seen'
      <3>1. ViewOf(s, t, v)' <=> ViewOf(wire.svc, answer.tag, answer.view)'
        BY <2>2, <2>4, <2>6 DEF ViewOf, Shown, Managed
      <3>2. ListOf(t, l)' <=> ListOf(answer.tag, answer.list)'
        BY <2>2, <2>4 DEF ListOf
      <3>3. AnswerView' BY <1>0, <2>1, <2>2, <2>3, <2>4, <2>6, <3>1
      <3>4. AnswerList' BY <1>0, <2>2, <2>3, <2>4, <2>6, <3>2
      <3> QED BY <3>3, <3>4
    <2> QED BY <2>4, <2>5, <2>6
  <1>2. CASE Serving
    <2>1. UNCHANGED <<up, serial, listSerial, services, stamp, flags, status, wire>>
      BY <1>2, ServingReads DEF managerVars
    <2>2. CASE listServices
      <3>1. answer'.tag = listSerial /\ answer'.list = services /\ wire.kind = "list"
        BY <2>2 DEF listServices, Respond, Services, Pending
      <3>2. ListOf(listSerial, services)
        BY <1>0 DEF ListOf, Numbered, ManagerTypeOK
      <3>3. ListOf(answer.tag, answer.list)' BY <2>1, <3>1, <3>2 DEF ListOf
      <3> QED BY <2>1, <3>1, <3>3
    <2>3. CASE getManager BY <2>1, <2>3 DEF getManager, Pending
    <2>4. CASE findService
      <3>1. answer' = answer \/ answer' = [NoAnswer EXCEPT !.code = 404]
        BY <2>4 DEF findService
      <3>2. answer'.code # 200 BY <2>4, <3>1 DEF findService, Pending, NoAnswer
      <3> QED BY <3>2
    <2>5. CASE readSerial \/ readFlags \/ readStatus \/ readAgain
      <3>1. answer'.code # 200
        BY <2>5 DEF readSerial, readFlags, readFlag, readStatus, readAgain, Getter, Pending
      <3> QED BY <3>1
    <2>6. CASE answerService
      <3>1. info \in seen /\ ViewOf(wire.svc, sn, info) BY <1>0, <2>6, AnswerIsSeen
      <3>2. answer'.tag = sn /\ answer'.view = info /\ seen' = seen /\ wire.kind = "service"
        BY <2>6 DEF answerService, Respond, Getter, Pending
      <3>3. ViewOf(wire.svc, answer.tag, answer.view)'
        BY <2>1, <3>1, <3>2 DEF ViewOf, Shown, Managed
      <3> QED BY <2>1, <3>1, <3>2, <3>3
    <2> QED BY <1>2, <2>2, <2>3, <2>4, <2>5, <2>6 DEF Serving
  <1>3. ASSUME NEW kind, NEW s, NEW t, answer = NoAnswer, Ask(kind, s, t)
        PROVE  AnswerView' /\ AnswerList'
    BY <1>3 DEF Ask, NoAnswer
  <1>4. CASE Over BY <1>4 DEF Over, NoAnswer
  <1>5. CASE UNCHANGED restVars
    BY <1>0, <1>5 DEF restVars, managerVars, requestVars, ViewOf, ListOf, Shown, Managed
  <1> QED BY <1>1, <1>2, <1>3, <1>4, <1>5 DEF RestStep

\* A view that was the one of its serial still is, whatever the step.
LEMMA ViewsStay ==
    ASSUME RestTypeOK, Numbered, RestStep
    PROVE  /\ \A s \in Service, v \in View, t \in Tag : ViewOf(s, t, v) => ViewOf(s, t, v)'
           /\ \A l \in SUBSET Service, t \in Tag : ListOf(t, l) => ListOf(t, l)'
  <1>1. CASE Manager BY <1>1, CopiesStay
  <1>2. CASE UNCHANGED managerVars
    BY <1>2 DEF managerVars, ViewOf, ListOf, Shown, Managed
  <1> QED BY <1>1, <1>2, ServingReads DEF RestStep, Ask, Over, restVars

\* What is posted is appended to the lists that wait, and the first of them is drawn.
LEMMA QueueStep ==
    ASSUME TypeOK, [Next]_vars
    PROVE  \/ /\ Post
              /\ ToSet(posted') = ToSet(posted) \cup {items}
              /\ DOMAIN posted' = 1 .. Len(posted) + 1
              /\ \A k \in DOMAIN posted : posted'[k] = posted[k]
              /\ posted'[Len(posted) + 1] = items
              /\ shown' = shown /\ items' = {}
           \/ /\ Draw
              /\ 1 \in DOMAIN posted /\ shown' = posted[1]
              /\ ToSet(posted') \subseteq ToSet(posted)
              /\ DOMAIN posted' = 1 .. Len(posted) - 1
              /\ \A k \in DOMAIN posted' : k + 1 \in DOMAIN posted /\ posted'[k] = posted[k + 1]
              /\ items' = items
           \/ posted' = posted /\ (shown' = shown \/ shown' = {})
  <1>0. posted \in Seq(SUBSET ItemSet) /\ items \in SUBSET ItemSet BY DEF TypeOK
  <1>1. CASE Post
    <2>1. posted' = Append(posted, items) /\ shown' = shown /\ items' = {} BY <1>1 DEF Post
    <2>2. /\ DOMAIN posted' = 1 .. Len(posted) + 1 /\ DOMAIN posted = 1 .. Len(posted)
          /\ Len(posted) \in Nat
          /\ \A k \in 1 .. Len(posted) : posted'[k] = posted[k]
          /\ posted'[Len(posted) + 1] = items
      BY <1>0, <2>1
    <2>3. ToSet(posted') = ToSet(posted) \cup {items} BY <2>2 DEF ToSet
    <2> QED BY <1>1, <2>1, <2>2, <2>3
  <1>2. CASE Draw
    <2>1. posted # <<>> /\ shown' = Head(posted) /\ posted' = Tail(posted) /\ items' = items
      BY <1>2 DEF Draw
    <2>2. /\ DOMAIN posted = 1 .. Len(posted) /\ Len(posted) \in Nat /\ Len(posted) # 0
          /\ DOMAIN posted' = 1 .. Len(posted) - 1 /\ shown' = posted[1]
          /\ \A k \in 1 .. Len(posted) - 1 : posted'[k] = posted[k + 1]
      BY <1>0, <2>1
    <2>3. /\ 1 \in DOMAIN posted
          /\ \A k \in DOMAIN posted' : k + 1 \in DOMAIN posted /\ posted'[k] = posted[k + 1]
      BY <2>2
    <2>4. ToSet(posted') \subseteq ToSet(posted) BY <2>2, <2>3 DEF ToSet
    <2> QED BY <1>2, <2>1, <2>2, <2>3, <2>4
  <1>3. CASE ~Post /\ ~Draw
    BY <1>3 DEF Next, Loop, Failure, AskList, HaveList, AskItem, HaveItem, WatchCached,
           AskManager, HaveManager, NoList, NoItem, NoManager, SetUserPassword,
           loopVars, vars
  <1> QED BY <1>1, <1>2, <1>3

\* What is kept of the answers stays true with them.
LEMMA NextCopies == FInv /\ [Next]_vars => Views' /\ Lists'
  <1> SUFFICES ASSUME FInv, [Next]_vars PROVE Views' /\ Lists'
    OBVIOUS
  <1>0. /\ TypeOK /\ RestTypeOK /\ Numbered /\ Waiting /\ Views /\ Lists
    BY DEF FInv, TypeOK
  <1>1. RestStep BY <1>0, StepOfRest
  <1>2. AnswerView' /\ AnswerList' BY <1>1, NextAnswer
  <1>3. /\ \A s \in Service, v \in View, t \in Tag : ViewOf(s, t, v) => ViewOf(s, t, v)'
        /\ \A l \in SUBSET Service, t \in Tag : ListOf(t, l) => ListOf(t, l)'
    BY <1>0, <1>1, ViewsStay
  <1> DEFINE kept == items \cup shown \cup UNION ToSet(posted)
  <1>4. ASSUME NEW i \in kept PROVE i.svc \in Service /\ i.tag \in Tag /\ ViewOf(i.svc, i.tag, i.view)'
    <2>1. i \in ItemSet BY <1>0 DEF TypeOK, ToSet
    <2>2. i.svc \in Service /\ i.tag \in Tag /\ i.view \in View BY <2>1 DEF ItemSet
    <2>3. ViewOf(i.svc, i.tag, i.view) BY <1>0 DEF Views
    <2> QED BY <1>3, <2>2, <2>3 DEF ViewOf, Shown, Managed
  <1>5. \A i \in kept' : ViewOf(i.svc, i.tag, i.view)'
    <2>1. CASE kept' \subseteq kept BY <1>4, <2>1
    <2>2. CASE HaveItem /\ Modified
      <3>1. wire.kind = "service" /\ answer.code = 200 /\ wire.svc \in Service
            /\ answer.tag \in Tag /\ answer.view \in View
        BY <1>0, <2>2 DEF HaveItem, Modified, Waiting, RestTypeOK
      <3> DEFINE j == [svc |-> wire.svc, tag |-> answer.tag, view |-> answer.view]
      <3>2. ViewOf(j.svc, j.tag, j.view) BY <1>0, <3>1 DEF Views
      <3>3. j.svc \in Service /\ j.tag \in Tag /\ j.view \in View BY <3>1
      <3>4. kept' = kept \cup {j} BY <2>2 DEF HaveItem
      <3> HIDE DEF j
      <3>5. PICK k : k = j
        OBVIOUS
      <3>6. ViewOf(k.svc, k.tag, k.view)' BY <1>3, <3>2, <3>3, <3>5 DEF ViewOf, Shown, Managed
      <3> QED BY <1>4, <3>4, <3>5, <3>6
    <2>3. items' \subseteq items \/ (HaveItem /\ Modified)
      BY DEF Next, Loop, Failure, AskList, HaveList, AskItem, HaveItem, Post, WatchCached,
             AskManager, HaveManager, NoList, NoItem, NoManager, Draw, SetUserPassword,
             loopVars, vars
    <2>4. CASE items' \subseteq items
      <3>1. CASE Post /\ ToSet(posted') = ToSet(posted) \cup {items} /\ shown' = shown
        BY <2>4, <3>1, <2>1
      <3>2. CASE /\ 1 \in DOMAIN posted /\ shown' = posted[1]
                 /\ ToSet(posted') \subseteq ToSet(posted)
        <4>1. shown' \in ToSet(posted) BY <3>2 DEF ToSet
        <4> QED BY <2>1, <2>4, <3>2, <4>1
      <3>3. CASE posted' = posted /\ (shown' = shown \/ shown' = {}) BY <2>1, <2>4, <3>3
      <3> QED BY <1>0, <3>1, <3>2, <3>3, QueueStep
    <2> QED BY <2>2, <2>3, <2>4
  <1>6. ListOf(ltag, names)'
    <2>1. PICK t, l : t = ltag /\ l = names
      OBVIOUS
    <2>2. ListOf(t, l)' BY <1>0, <1>3, <2>1 DEF Lists, ListOf, TypeOK
    <2>3. CASE UNCHANGED <<ltag, names>> BY <2>1, <2>2, <2>3 DEF ListOf
    <2>4. CASE HaveList /\ Modified
      <3>1. /\ wire.kind = "list" /\ answer.code = 200
            /\ answer.tag \in Tag /\ answer.list \in SUBSET Service
        BY <1>0, <2>4 DEF HaveList, Answered, Modified, Waiting, RestTypeOK
      <3>2. PICK u, m : u = answer.tag /\ m = answer.list
        OBVIOUS
      <3>3. ListOf(u, m)' BY <1>0, <1>3, <3>1, <3>2 DEF Lists, ListOf
      <3>4. ltag' = u /\ names' = m BY <2>4, <3>2 DEF HaveList
      <3> QED BY <3>3, <3>4 DEF ListOf
    <2>5. UNCHANGED <<ltag, names>> \/ (HaveList /\ Modified)
      BY DEF Next, Loop, Failure, AskList, HaveList, AskItem, HaveItem, Post, WatchCached,
             AskManager, HaveManager, NoList, NoItem, NoManager, Draw, SetUserPassword,
             loopVars, vars
    <2> QED BY <2>3, <2>4, <2>5
  <1> QED BY <1>2, <1>5, <1>6 DEF Views, Lists, AnswerView, AnswerList

\* The invariant of all that follows.
THEOREM FInvHolds == Spec => []FInv
  <1>1. FInv /\ [Next]_vars => FInv'
    <2> SUFFICES ASSUME FInv, [Next]_vars PROVE FInv'
      OBVIOUS
    <2>1. TypeOK /\ RestTypeOK /\ Numbered /\ Waiting /\ Reading
      BY DEF FInv, TypeOK
    <2>2. RestStep BY <2>1, StepOfRest
    <2>3. TypeOK' /\ Waiting' BY <2>1, NextTypeOK, NextWaiting
    <2>4. Numbered' /\ Reading' BY <2>1, <2>2, NextNumbered, NextReading
    <2> QED BY <2>3, <2>4, NextCopies DEF FInv
  <1> QED BY <1>1, InitFInv, PTL DEF Spec

-----------------------------------------------------------------------------
(* The order of what is drawn.                                             *)

\* What the loop has handed to the goroutine that draws.
Handed == shown \cup UNION ToSet(posted)

\* The answer to a request for one service, with the service.
Served == wire.kind = "service" /\ answer.code = 200

\* No tag is larger than the stamp of its service.  After a restart of the server
\* there may be no stamp to compare with.
AtMostStamp(s, t) == stamp[s] > 0 => t <= stamp[s]
Stamped ==
    /\ \A i \in items \cup Handed : AtMostStamp(i.svc, i.tag)
    /\ Served => AtMostStamp(wire.svc, answer.tag)

\* A tag of a service is not behind those that have been handed on, unless it says
\* that the service was removed.
NotBehind(s, t) == t = 0 \/ \A i \in Handed : i.svc = s => i.tag <= t

\* No state in the list is later than the one in the next list.
Before(list, next) ==
    \A i \in list, j \in next : i.svc = j.svc => i.tag <= j.tag \/ j.tag = 0

\* So it is of what getService reads, answers and the loop collects, until it is
\* handed on itself; and what waits to be drawn waits in its order.
InOrder ==
    /\ HasSerial => NotBehind(wire.svc, sn)
    /\ Served => NotBehind(wire.svc, answer.tag)
    /\ at \in {"items", "item", "post"} => \A j \in items : NotBehind(j.svc, j.tag)
    /\ \A k \in DOMAIN posted : Before(shown, posted[k])
    /\ \A k, m \in DOMAIN posted : k < m => Before(posted[k], posted[m])

\* A list has a service once.
OncePer(list) == \A i, j \in list : i.svc = j.svc => i = j
Once ==
    /\ OncePer(items) /\ OncePer(shown)
    /\ \A list \in ToSet(posted) : OncePer(list)
    /\ at \in {"items", "item"} => \A i \in items : i.svc \notin todo
    /\ at = "item" /\ wire.kind = "service" =>
           wire.svc \notin todo /\ \A i \in items : i.svc # wire.svc

\* The inductive invariant, with the one above.
OInv == Stamped /\ InOrder /\ Once

\* A stamp only grows, to more than all serials there were, until the server starts
\* again and numbers its services anew.
LEMMA StampGrows ==
    ASSUME RestTypeOK, Manager, NEW s \in Service
    PROVE  stamp'[s] = stamp[s] \/ stamp'[s] > serial \/ stamp'[s] = 0
  <1>0. stamp \in [Service -> 0 .. serial] /\ serial \in Nat BY DEF RestTypeOK
  <1>1. ASSUME NEW x \in Service, Change(x) PROVE stamp'[s] = stamp[s] \/ stamp'[s] > serial
    <2>1. stamp' = [stamp EXCEPT ![x] = serial + 1] BY <1>1 DEF Change, Bump
    <2> QED BY <1>0, <2>1
  <1>2. ASSUME NEW x \in Service, AddService(x) \/ DeleteService(x)
        PROVE  stamp'[s] = stamp[s] \/ stamp'[s] > serial
    <2>1. stamp' = [stamp EXCEPT ![x] = serial + 2]
      BY <1>2 DEF AddService, DeleteService, Relist
    <2> QED BY <1>0, <2>1
  <1>3. CASE Shutdown BY <1>3 DEF Shutdown
  <1>4. CASE Exit BY <1>4 DEF Exit
  <1>5. CASE Boot BY <1>5 DEF Boot
  <1> QED BY <1>1, <1>2, <1>3, <1>4, <1>5 DEF Manager

\* What was no larger than the stamp is not, whatever the step.
LEMMA StampedStays ==
    ASSUME RestTypeOK, RestStep, NEW s \in Service, NEW t \in Tag, t <= serial,
           stamp[s] > 0 => t <= stamp[s]
    PROVE  stamp'[s] > 0 => t <= stamp'[s]
  <1>0. stamp[s] \in Int /\ serial \in Int /\ t \in Int
    BY DEF RestTypeOK, Tag, NoTag
  <1>1. CASE Manager
    <2>1. ManagerTypeOK' BY <1>1, ManagerTypes
    <2>2. stamp'[s] \in Int BY <2>1 DEF ManagerTypeOK
    <2> QED BY <1>0, <1>1, <2>2, StampGrows
  <1>2. CASE UNCHANGED managerVars BY <1>2 DEF managerVars
  <1> QED BY <1>1, <1>2, ServingReads DEF RestStep, Ask, Over, restVars

\* Where a service in an answer comes from.
LEMMA WhereServed ==
    ASSUME FInv, RestStep, Served'
    PROVE  /\ wire' = wire
           /\ \/ Served /\ answer' = answer
              \/ HasSerial /\ answer'.tag = sn /\ UNCHANGED managerVars
  <1> USE DEF Served
  <1>0. RestTypeOK /\ Waiting BY DEF FInv, TypeOK
  <1>1. CASE Manager
    <2>1. answer' = answer
      BY <1>1, <1>0, ManagerAndRequest DEF Noticed, Exit, requestVars
    <2>2. wire' = wire
      BY <1>1, <1>0, <2>1, ManagerAndRequest DEF Noticed, Exit, requestVars
    <2> QED BY <2>1, <2>2
  <1>2. CASE Serving
    <2>1. UNCHANGED <<managerVars, wire>> BY <1>2, ServingReads
    <2>2. CASE listServices \/ getManager
      BY <2>1, <2>2 DEF listServices, getManager, Pending
    <2>3. CASE findService
      <3>1. answer' = answer \/ answer' = [NoAnswer EXCEPT !.code = 404]
        BY <2>3 DEF findService
      <3>2. answer'.code # 200 BY <2>3, <3>1 DEF findService, Pending, NoAnswer
      <3> QED BY <3>2
    <2>4. CASE readSerial \/ readFlags \/ readStatus \/ readAgain
      BY <2>4 DEF readSerial, readFlags, readFlag, readStatus, readAgain, Getter, Pending
    <2>5. CASE answerService
      <3>1. answer'.tag = sn /\ reading = "check" BY <2>5 DEF answerService, Respond, Getter
      <3> QED BY <2>1, <3>1 DEF HasSerial
    <2> QED BY <1>2, <2>1, <2>2, <2>3, <2>4, <2>5 DEF Serving
  <1>3. ASSUME NEW kind, NEW s, NEW t, answer = NoAnswer, Ask(kind, s, t) PROVE FALSE
    BY <1>3 DEF Ask, NoAnswer
  <1>4. ~Over BY DEF Over, NoAnswer
  <1>5. CASE UNCHANGED restVars BY <1>5 DEF restVars, requestVars
  <1> QED BY <1>1, <1>2, <1>3, <1>4, <1>5 DEF RestStep

\* Where the serial that getService has read comes from.
LEMMA WhereRead ==
    ASSUME FInv, RestStep, HasSerial'
    PROVE  /\ wire' = wire /\ wire.kind = "service"
           /\ \/ HasSerial /\ sn' = sn
              \/ readSerial /\ stamp[wire.svc] > 0 /\ sn' \in {0, stamp[wire.svc]}
  <1>0. RestTypeOK /\ Waiting /\ Found BY DEF FInv, TypeOK, Reading
  <1> USE DEF HasSerial, Flag
  <1>1. CASE Manager
    <2>1. ~Exit BY DEF Exit
    <2>2. UNCHANGED <<wire, reading, sn>>
      BY <1>0, <1>1, <2>1, ManagerAndRequest DEF Noticed, requestVars
    <2> QED BY <1>0, <2>2 DEF Found
  <1>2. CASE Serving
    <2>1. wire' = wire BY <1>2, ServingReads
    <2>2. CASE listServices \/ getManager
      <3>1. UNCHANGED <<reading, sn>> BY <2>2 DEF listServices, getManager
      <3> QED BY <1>0, <2>1, <3>1 DEF Found
    <2>3. ~findService BY DEF findService
    <2>4. CASE readFlags \/ readStatus
      <3>1. reading \in Flag \cup {"status"} /\ reading # "no" /\ sn' = sn
        BY <2>4 DEF readFlags, readFlag, readStatus, Getter, Flag
      <3> QED BY <1>0, <2>1, <3>1 DEF Found
    <2>5. ~answerService /\ ~readAgain BY DEF answerService, readAgain, Getter
    <2>6. CASE readSerial
      <3>1. reading = "serial" BY <2>6 DEF readSerial, Getter
      <3>2. wire.kind = "service" /\ stamp[wire.svc] > 0 BY <1>0, <3>1 DEF Found
      <3>3. sn' \in {0, stamp[wire.svc]} BY <2>6 DEF readSerial, SerialWhen
      <3> QED BY <2>1, <2>6, <3>2, <3>3
    <2> QED BY <1>2, <2>2, <2>3, <2>4, <2>5, <2>6 DEF Serving
  <1>3. ASSUME NEW kind, NEW s, NEW t, wire = NoRequest, Ask(kind, s, t) PROVE FALSE
    <2>1. reading' = reading BY <1>3 DEF Ask
    <2> QED BY <1>0, <1>3, <2>1 DEF Found, NoRequest
  <1>4. ~Over BY DEF Over
  <1>5. CASE UNCHANGED restVars BY <1>0, <1>5 DEF restVars, requestVars, Found
  <1> QED BY <1>1, <1>2, <1>3, <1>4, <1>5 DEF RestStep

\* What is handed on has been collected, and that has been an answer.
LEMMA WhereHanded ==
    ASSUME TypeOK, [Next]_vars
    PROVE  /\ \/ Handed' \subseteq Handed
              \/ Post /\ Handed' = Handed \cup items
           /\ \/ items' \subseteq items
              \/ HaveItem /\ Modified
  <1>1. items' \subseteq items \/ (HaveItem /\ Modified)
    BY DEF Next, Loop, Failure, AskList, HaveList, AskItem, HaveItem, Post, WatchCached,
           AskManager, HaveManager, NoList, NoItem, NoManager, Draw, SetUserPassword,
           loopVars, vars
  <1>2. CASE Post /\ ToSet(posted') = ToSet(posted) \cup {items} /\ shown' = shown
    BY <1>1, <1>2 DEF Handed
  <1>3. CASE 1 \in DOMAIN posted /\ shown' = posted[1] /\ ToSet(posted') \subseteq ToSet(posted)
    <2>1. shown' \in ToSet(posted) BY <1>3 DEF ToSet
    <2> QED BY <1>1, <1>3, <2>1 DEF Handed
  <1>4. CASE posted' = posted /\ (shown' = shown \/ shown' = {}) BY <1>1, <1>4 DEF Handed
  <1> QED BY <1>2, <1>3, <1>4, QueueStep

\* The items are items.
LEMMA ItemTypes ==
    ASSUME FInv
    PROVE  \A i \in items \cup Handed :
               i.svc \in Service /\ i.tag \in Tag /\ i.tag \in Int /\ i.tag <= serial
  <1> SUFFICES ASSUME NEW i \in items \cup Handed
               PROVE  i.svc \in Service /\ i.tag \in Tag /\ i.tag \in Int /\ i.tag <= serial
    OBVIOUS
  <1>1. i \in ItemSet BY DEF FInv, TypeOK, Handed, ToSet
  <1>2. ViewOf(i.svc, i.tag, i.view) BY DEF FInv, Views, Handed
  <1> QED BY <1>1, <1>2 DEF ItemSet, Tag, NoTag, ViewOf

\* No tag overtakes the stamp.
LEMMA NextStamped == FInv /\ Stamped /\ [Next]_vars => Stamped'
  <1> SUFFICES ASSUME FInv, Stamped, [Next]_vars PROVE Stamped'
    OBVIOUS
  <1>0. /\ TypeOK /\ RestTypeOK /\ Waiting /\ Reading /\ Views
    BY DEF FInv, TypeOK
  <1>1. RestStep BY <1>0, StepOfRest
  <1>2. ASSUME NEW s \in Service, NEW t \in Tag, t <= serial, AtMostStamp(s, t)
        PROVE  stamp'[s] > 0 => t <= stamp'[s]
    BY <1>0, <1>1, <1>2, StampedStays DEF AtMostStamp
  <1>3. ASSUME Served
        PROVE  /\ wire.svc \in Service /\ answer.tag \in Tag
               /\ stamp'[wire.svc] > 0 => answer.tag <= stamp'[wire.svc]
    <2>1. wire.svc \in Service /\ answer.tag \in Tag
      BY <1>0, <1>3 DEF Served, Waiting, RestTypeOK
    <2>2. answer.tag <= serial BY <1>0, <1>3 DEF Served, Views, ViewOf
    <2>3. AtMostStamp(wire.svc, answer.tag) BY <1>3 DEF Stamped
    <2> QED BY <1>2, <2>1, <2>2, <2>3
  <1>4. ASSUME NEW i \in (items \cup Handed)' PROVE stamp'[i.svc] > 0 => i.tag <= stamp'[i.svc]
    <2>1. CASE i \in items \cup Handed
      <3>1. AtMostStamp(i.svc, i.tag) BY <2>1 DEF Stamped
      <3> QED BY <1>2, <2>1, <3>1, ItemTypes
    <2>2. CASE i \notin items \cup Handed
      <3>1. HaveItem /\ Modified BY <1>0, <1>4, <2>2, WhereHanded
      <3>2. Served
        BY <1>0, <3>1 DEF HaveItem, Modified, Waiting, Served
      <3>3. i = [svc |-> wire.svc, tag |-> answer.tag, view |-> answer.view]
        BY <1>4, <2>2, <3>1 DEF HaveItem, Handed, ToSet
      <3>4. i.svc = wire.svc /\ i.tag = answer.tag BY <3>3
      <3> QED BY <1>3, <3>2, <3>4
    <2> QED BY <2>1, <2>2
  <1>5. ASSUME Served' PROVE stamp'[wire'.svc] > 0 => answer'.tag <= stamp'[wire'.svc]
    <2>1. CASE Served /\ answer' = answer BY <1>1, <1>3, <1>5, <2>1, WhereServed
    <2>2. CASE HasSerial /\ answer'.tag = sn /\ UNCHANGED managerVars
      <3>1. sn <= stamp[wire.svc] BY <1>0, <2>2 DEF Reading, Read
      <3> QED BY <1>1, <1>5, <2>2, <3>1, WhereServed DEF managerVars
    <2> QED BY <1>1, <1>5, <2>1, <2>2, WhereServed
  <1> QED BY <1>4, <1>5 DEF Stamped, AtMostStamp, Served

\* What is not behind stays so while nothing more is handed on.
LEMMA NotBehindStays ==
    ASSUME Handed' \subseteq Handed, NEW s, NEW t, NotBehind(s, t)
    PROVE  t = 0 \/ \A i \in Handed' : i.svc = s => i.tag <= t
  BY DEF NotBehind

\* Everything that is read, answered or collected comes after what has been handed
\* on, whatever fails or starts again in between.
LEMMA NextInOrder == FInv /\ OInv /\ [Next]_vars => InOrder'
  <1> SUFFICES ASSUME FInv, Stamped, InOrder, Once, [Next]_vars PROVE InOrder'
    BY DEF OInv
  <1>0. /\ TypeOK /\ RestTypeOK /\ Waiting /\ Reading
    BY DEF FInv, TypeOK
  <1>1. RestStep BY <1>0, StepOfRest
  <1>a. /\ \A k \in DOMAIN posted' : Before(shown', posted'[k])
        /\ \A k, m \in DOMAIN posted' : k < m => Before(posted'[k], posted'[m])
    <2>0. posted \in Seq(SUBSET ItemSet) /\ Len(posted) \in Nat /\ DOMAIN posted = 1 .. Len(posted)
      BY <1>0 DEF TypeOK
    <2>1. CASE /\ Post
               /\ DOMAIN posted' = 1 .. Len(posted) + 1
               /\ \A k \in DOMAIN posted : posted'[k] = posted[k]
               /\ posted'[Len(posted) + 1] = items
               /\ shown' = shown
      <3>1. at \in {"items", "post"} BY <2>1 DEF Post
      <3>2. ASSUME NEW list, list \subseteq Handed PROVE Before(list, items)
        BY <3>1, <3>2 DEF InOrder, NotBehind, Before
      <3>3. Before(shown, items) BY <3>2 DEF Handed
      <3>4. \A k \in DOMAIN posted : Before(posted[k], items) BY <3>2 DEF Handed, ToSet
      <3>5. \A k \in DOMAIN posted' : k \in DOMAIN posted \/ k = Len(posted) + 1
        BY <2>0, <2>1
      <3>6. \A k \in DOMAIN posted' : Before(shown', posted'[k])
        BY <2>1, <3>3, <3>5 DEF InOrder
      <3>7. \A k, m \in DOMAIN posted' : k < m => k \in DOMAIN posted BY <2>0, <2>1
      <3>8. ASSUME NEW k \in DOMAIN posted', NEW m \in DOMAIN posted', k < m
            PROVE  Before(posted'[k], posted'[m])
        <4>1. CASE m \in DOMAIN posted BY <2>1, <3>7, <3>8, <4>1 DEF InOrder
        <4>2. CASE m = Len(posted) + 1 BY <2>1, <3>4, <3>7, <3>8, <4>2
        <4> QED BY <3>5, <4>1, <4>2
      <3> QED BY <3>6, <3>8
    <2>2. CASE /\ 1 \in DOMAIN posted /\ shown' = posted[1]
               /\ DOMAIN posted' = 1 .. Len(posted) - 1
               /\ \A k \in DOMAIN posted' : k + 1 \in DOMAIN posted /\ posted'[k] = posted[k + 1]
      <3>1. ASSUME NEW k \in DOMAIN posted' PROVE Before(shown', posted'[k])
        <4>1. 1 < k + 1 BY <2>0, <2>2, <3>1
        <4> QED BY <2>2, <3>1, <4>1 DEF InOrder
      <3>2. ASSUME NEW k \in DOMAIN posted', NEW m \in DOMAIN posted', k < m
            PROVE  Before(posted'[k], posted'[m])
        <4>1. k + 1 < m + 1 BY <2>0, <2>2, <3>2
        <4> QED BY <2>2, <3>2, <4>1 DEF InOrder
      <3> QED BY <3>1, <3>2
    <2>3. CASE posted' = posted /\ (shown' = shown \/ shown' = {})
      BY <2>3 DEF InOrder, Before
    <2> QED BY <1>0, <2>1, <2>2, <2>3, QueueStep
  <1>2. CASE Handed' \subseteq Handed
    <2>1. ASSUME NEW s, NEW t, NotBehind(s, t)
          PROVE  t = 0 \/ \A i \in Handed' : i.svc = s => i.tag <= t
      BY <1>2, <2>1, NotBehindStays
    <2>2. HasSerial' => NotBehind(wire.svc, sn)'
      <3> SUFFICES ASSUME HasSerial'
                   PROVE  sn' = 0 \/ \A i \in Handed' : i.svc = wire'.svc => i.tag <= sn'
        BY DEF NotBehind
      <3>1. wire' = wire BY <1>1, WhereRead
      <3>2. CASE HasSerial /\ sn' = sn
        <4>1. NotBehind(wire.svc, sn) BY <3>2 DEF InOrder
        <4> QED BY <2>1, <3>1, <3>2, <4>1
      <3>3. CASE stamp[wire.svc] > 0 /\ sn' \in {0, stamp[wire.svc]}
        <4>1. \A i \in Handed : i.svc = wire.svc => i.tag <= stamp[wire.svc]
          BY <3>3 DEF Stamped, AtMostStamp
        <4> QED BY <1>2, <3>1, <3>3, <4>1
      <3> QED BY <1>1, <3>2, <3>3, WhereRead
    <2>3. Served' => NotBehind(wire.svc, answer.tag)'
      <3> SUFFICES ASSUME Served'
                   PROVE  \/ answer'.tag = 0
                          \/ \A i \in Handed' : i.svc = wire'.svc => i.tag <= answer'.tag
        BY DEF NotBehind
      <3>1. wire' = wire BY <1>1, WhereServed
      <3>2. NotBehind(wire.svc, answer'.tag)
        BY <1>1, WhereServed DEF InOrder
      <3> QED BY <2>1, <3>1, <3>2
    <2>4. at' \in {"items", "item", "post"} => \A j \in items' : NotBehind(j.svc, j.tag)'
      <3> SUFFICES ASSUME at' \in {"items", "item", "post"}, NEW j \in items'
                   PROVE  j.tag = 0 \/ \A i \in Handed' : i.svc = j.svc => i.tag <= j.tag
        BY DEF NotBehind
      <3>1. CASE HaveItem /\ Modified
        <4>1. Served /\ at = "item" BY <1>0, <3>1 DEF HaveItem, Modified, Waiting, Served
        <4>2. CASE j \in items
          <5>1. NotBehind(j.svc, j.tag) BY <4>1, <4>2 DEF InOrder
          <5> QED BY <2>1, <5>1
        <4>3. CASE j \notin items
          <5>1. j = [svc |-> wire.svc, tag |-> answer.tag, view |-> answer.view]
            BY <3>1, <4>3 DEF HaveItem
          <5>2. j.svc = wire.svc /\ j.tag = answer.tag BY <5>1
          <5>3. NotBehind(wire.svc, answer.tag) BY <4>1 DEF InOrder
          <5> QED BY <2>1, <5>2, <5>3
        <4> QED BY <4>2, <4>3
      <3>2. CASE items' = {} BY <3>2
      <3>3. CASE items' = items /\ at \in {"items", "item", "post"}
        <4>1. NotBehind(j.svc, j.tag) BY <3>3 DEF InOrder
        <4> QED BY <2>1, <4>1
      <3>4. \/ HaveItem /\ Modified
            \/ items' = {}
            \/ items' = items /\ at \in {"items", "item", "post"}
        BY DEF Next, Loop, Failure, AskList, HaveList, AskItem, HaveItem, Post, WatchCached,
               AskManager, HaveManager, NoList, NoItem, NoManager, Draw, SetUserPassword,
               loopVars, vars
      <3> QED BY <3>1, <3>2, <3>3, <3>4
    <2> QED BY <1>a, <2>2, <2>3, <2>4 DEF InOrder
  <1>3. CASE Post
    <2>1. at \in {"items", "post"} /\ at' = "watch" /\ UNCHANGED <<wire, answer, reading>>
      BY <1>3 DEF Post, restVars, requestVars
    <2>2. wire = NoRequest BY <1>0, <2>1 DEF Waiting
    <2>3. ~HasSerial' /\ ~Served'
      BY <1>0, <2>1, <2>2 DEF NoRequest, HasSerial, Served, Reading, Found, Flag
    <2> QED BY <1>a, <2>1, <2>3 DEF InOrder
  <1> QED BY <1>0, <1>2, <1>3, WhereHanded

\* A service is asked for once in a round of the loop.
LEMMA NextOnce == FInv /\ Once /\ [Next]_vars => Once'
  <1> SUFFICES ASSUME FInv, Once, [Next]_vars PROVE Once'
    OBVIOUS
  <1>0. TypeOK /\ RestTypeOK /\ Waiting /\ Reading BY DEF FInv, TypeOK
  <1> USE DEF Once, OncePer
  <1>1. CASE UNCHANGED loopVars
    <2>1. UNCHANGED <<at, todo, items, posted, shown>> BY <1>1 DEF loopVars
    <2>2. wire'.kind = "service" => wire' = wire
      <3>1. wire' = wire \/ wire'.kind \in {"lost", "none"}
        <4>1. CASE Manager /\ UNCHANGED loopVars
          <5>1. CASE Exit BY <1>0, <5>1 DEF Exit, RestTypeOK
          <5> QED BY <1>0, <4>1, <5>1, ManagerAndRequest DEF Noticed, requestVars
        <4>2. CASE Serving /\ UNCHANGED loopVars BY <4>2, ServingReads
        <4>3. CASE UNCHANGED vars BY <4>3 DEF vars, restVars, requestVars
        <4>4. CASE Loop \/ Failure
          BY <4>4, <1>1 DEF Loop, Failure, AskList, HaveList, AskItem, HaveItem, Post,
                      WatchCached, AskManager, HaveManager, NoList, NoItem, NoManager,
                      loopVars
        <4>5. CASE Draw \/ SetUserPassword
          BY <4>5 DEF Draw, SetUserPassword, restVars, requestVars
        <4> QED BY <4>1, <4>2, <4>3, <4>4, <4>5 DEF Next
      <3> QED BY <3>1
    <2> QED BY <2>1, <2>2
  <1>2. CASE AskItem
    <2>1. PICK s \in todo : Ask("service", s, NoTag) /\ todo' = todo \ {s} BY <1>2 DEF AskItem
    <2>2. at = "items" /\ at' = "item" /\ wire'.svc = s /\ UNCHANGED <<items, posted, shown>>
      BY <1>2, <2>1 DEF AskItem, Ask
    <2> QED BY <2>1, <2>2
  <1>3. CASE HaveItem
    <2>1. at = "item" /\ at' = "items" /\ UNCHANGED <<todo, posted, shown>>
      BY <1>3 DEF HaveItem
    <2>2. CASE Modified
      <3>1. wire.kind = "service"
        BY <1>0, <1>3, <2>2 DEF HaveItem, Modified, Waiting
      <3> DEFINE j == [svc |-> wire.svc, tag |-> answer.tag, view |-> answer.view]
      <3>2. items' = items \cup {j} /\ j.svc = wire.svc BY <1>3, <2>2 DEF HaveItem
      <3> HIDE DEF j
      <3> QED BY <2>1, <3>1, <3>2
    <2>3. CASE ~Modified
      <3>1. items' = items BY <1>3, <2>3 DEF HaveItem
      <3> QED BY <2>1, <3>1
    <2> QED BY <2>2, <2>3
  <1>4. CASE HaveList \/ NoList BY <1>4 DEF HaveList, NoList
  <1>5. CASE NoItem BY <1>5 DEF NoItem
  <1>6. CASE Post
    <2>1. at' = "watch" /\ items' = {} /\ shown' = shown BY <1>6 DEF Post
    <2>2. ToSet(posted') = ToSet(posted) \cup {items}
      <3>1. ~Draw BY <1>6 DEF Post, Draw
      <3>2. posted' # posted \/ items \in ToSet(posted)
        BY <1>0, <1>6 DEF Post, TypeOK
      <3> QED BY <1>0, <3>1, <3>2, QueueStep
    <2> QED BY <2>1, <2>2
  <1>7. CASE Draw
    <2>1. shown' \in ToSet(posted) /\ ToSet(posted') \subseteq ToSet(posted)
      <3>1. ~Post BY <1>7 DEF Post, Draw
      <3>2. posted' # posted BY <1>0, <1>7 DEF Draw, TypeOK
      <3> QED BY <1>0, <3>1, <3>2, QueueStep DEF ToSet
    <2>2. UNCHANGED <<at, todo, items, wire>>
      BY <1>7 DEF Draw, restVars, requestVars
    <2> QED BY <2>1, <2>2
  <1>8. CASE SetUserPassword
    <2>1. shown' = {} /\ UNCHANGED <<at, todo, items, posted, wire>>
      BY <1>8 DEF SetUserPassword, restVars, requestVars
    <2> QED BY <2>1
  <1>9. CASE AskList \/ WatchCached \/ AskManager \/ HaveManager \/ NoManager
    <2>1. at' \in {"list", "start", "manager"} /\ UNCHANGED <<items, posted, shown>>
      BY <1>9 DEF AskList, WatchCached, AskManager, HaveManager, NoManager
    <2> QED BY <2>1
  <1> QED BY <1>1, <1>2, <1>3, <1>4, <1>5, <1>6, <1>7, <1>8, <1>9
          DEF Next, Loop, Failure, vars

\* The invariant of the order.
THEOREM OInvHolds == Spec => [](FInv /\ OInv)
  <1>1. Init => OInv
    <2> SUFFICES ASSUME Init PROVE OInv
      OBVIOUS
    <2>1. items = {} /\ Handed = {} /\ ~HasSerial /\ wire.kind = "none" /\ at = "start"
          /\ shown = {} /\ posted = <<>>
      BY DEF Init, RestInit, Handed, HasSerial, NoRequest, ToSet, Flag
    <2>2. DOMAIN posted = {} /\ ToSet(posted) = {} BY <2>1 DEF ToSet
    <2>3. Stamped /\ InOrder BY <2>1, <2>2 DEF Stamped, InOrder, Served
    <2>4. Once BY <2>1, <2>2 DEF Once, OncePer
    <2> QED BY <2>3, <2>4 DEF OInv
  <1>2. FInv /\ OInv /\ [Next]_vars => OInv'
    BY NextStamped, NextInOrder, NextOnce DEF OInv
  <1>3. FInv /\ OInv /\ [Next]_vars /\ FInv' => (FInv /\ OInv)' BY <1>2
  <1> QED BY <1>1, <1>3, InitFInv, FInvHolds, PTL DEF Spec

-----------------------------------------------------------------------------
(* The properties.                                                         *)

\* What getService answers the service was at one moment, although it reads it by
\* six calls that each lock for themselves (server.go:139-157), for any number of
\* services.
THEOREM ViewsAreConsistent == Spec => []ConsistentView
  <1>1. FInv => ConsistentView BY DEF FInv, Views, ConsistentView
  <1> QED BY <1>1, FInvHolds, PTL

\* A serial stands for what its service looks like, in all that the loop of the
\* interface keeps, also across restarts of the server.
THEOREM EtagsAreTrusted == Spec => []EtagTellsAll
  <1>1. FInv => EtagTellsAll BY DEF FInv, Views, ViewOf, EtagTellsAll
  <1> QED BY <1>1, FInvHolds, PTL

\* The names in the client's cache are the ones of its Etag.
THEOREM NamesAreRight == Spec => []NamesMatchTag
  <1>1. FInv => NamesMatchTag BY DEF FInv, Lists, ListOf, NamesMatchTag
  <1> QED BY <1>1, FInvHolds, PTL

\* What is drawn of a service comes after what was drawn of it before, or says that
\* it was removed (app.go:268-294): no answer that was late, no request that failed
\* and no restart of the server, after which it numbers anew, brings an older state
\* back.
THEOREM DrawnInOrder == Spec => NeverBackwards
  <1> DEFINE Forward ==
        \A i \in shown, j \in shown' : i.svc = j.svc => j.tag >= i.tag \/ j.tag = 0
  <1>1. FInv /\ OInv /\ [Next]_vars => Forward
    <2> SUFFICES ASSUME FInv, InOrder, Once, [Next]_vars, NEW i \in shown, NEW j \in shown',
                        i.svc = j.svc
                 PROVE  j.tag >= i.tag \/ j.tag = 0
      BY DEF OInv
    <2>1. i.tag \in Int BY ItemTypes DEF Handed
    <2>0. TypeOK BY DEF FInv
    <2>2. CASE 1 \in DOMAIN posted /\ shown' = posted[1]
      <3>1. j \in UNION ToSet(posted) BY <2>2 DEF ToSet
      <3>2. j.tag \in Int BY <3>1, ItemTypes DEF Handed
      <3>3. Before(shown, posted[1]) BY <2>2 DEF InOrder
      <3> QED BY <2>1, <2>2, <3>2, <3>3 DEF Before
    <2>3. CASE shown' = {} BY <2>3
    <2>4. CASE shown' = shown
      <3>1. i = j BY <2>4 DEF Once, OncePer
      <3> QED BY <2>1, <3>1
    <2> QED BY <2>0, <2>2, <2>3, <2>4, QueueStep
  <1>2. FInv /\ OInv /\ [Next]_vars => [Forward]_vars BY <1>1
  <1> HIDE DEF Forward
  <1>3. Spec => [][Forward]_vars BY <1>2, OInvHolds, PTL DEF Spec
  <1> QED BY <1>3 DEF Forward, NeverBackwards
=============================================================================
