----------------------------- MODULE RestServer -----------------------------
(***************************************************************************)
(* The REST server (server/server.go) in front of a manager that changes   *)
(* while it is read: the list of services, one service, and the long poll  *)
(* of the manager's serial.  Serial numbers are the Etags.                 *)
(*                                                                         *)
(* A request for one service is answered from a handle found first, by     *)
(* calls that take the manager's lock one after the other: Serial,         *)
(* Enabled, Running, Failed, Status, and Serial again.  Each of them reads *)
(* s.mgr without the lock and returns a constant when there is no manager  *)
(* any more.  Two BOOLEANs stand for what they read: flags for each of     *)
(* Enabled, Running and Failed, which change together here, and status for *)
(* Status, FALSE for "Removed service" among others.                       *)
(*                                                                         *)
(* The manager is described by what its operations do to serials and       *)
(* fields (manager.go, service.go); its process may shut down and start    *)
(* again (govisord/main.go).                                               *)
(***************************************************************************)
EXTENDS Integers, FiniteSets

CONSTANTS
    Service,    \* the services govisord has manifests for
    NoService,  \* the service of a request that is not for one
    MaxSerial   \* bound: the manager's serial numbers

ASSUME RestAssumption ==
    NoService \notin Service /\ IsFiniteSet(Service) /\ MaxSerial \in Nat \ {0}

VARIABLES
    up,          \* "up", "stopping" (Shutdown has run), "down"
    serial,      \* Manager.serial
    listSerial,  \* Manager.listSerial
    services,    \* Manager.services: those whose s.mgr is set
    stamp,       \* Service.serial
    flags,       \* Service.enabled, .running and .failed
    status,      \* Service.reason
    wire,        \* the request of the client that is under way
    reading,     \* how far getService has come with it
    been,        \* the values s.mgr # nil has had since its last call
    sn, info,    \* its variables
    seen,        \* ghost: what the service looked like since sn was read
    answer       \* the response

managerVars == <<up, serial, listSerial, services, stamp, flags, status>>
requestVars == <<wire, reading, been, sn, info, seen, answer>>
restVars == <<managerVars, requestVars>>

NoTag == -1
Tag == NoTag .. MaxSerial
Flag == {"enabled", "running", "failed"}
View == [Flag \cup {"status"} -> BOOLEAN]
Blank == [f \in Flag \cup {"status"} |-> FALSE]
NoAnswer == [code |-> 0, tag |-> NoTag, list |-> {}, view |-> Blank]
NoRequest == [kind |-> "none", svc |-> NoService, tag |-> NoTag]

RestTypeOK ==
    /\ up \in {"up", "stopping", "down"}
    /\ serial \in 0 .. MaxSerial /\ listSerial \in 0 .. serial
    /\ services \subseteq Service
    /\ stamp \in [Service -> 0 .. serial]
    /\ flags \in [Service -> BOOLEAN] /\ status \in [Service -> BOOLEAN]
    /\ wire \in [kind : {"none", "list", "service", "manager", "lost"},
                 svc : Service \cup {NoService}, tag : Tag]
    /\ reading \in {"no", "serial", "status", "check"} \cup Flag
    /\ been \subseteq BOOLEAN
    /\ sn \in 0 .. MaxSerial /\ info \in View /\ seen \subseteq View
    /\ answer \in [code : {0, 200, 304, 404}, tag : Tag,
                   list : SUBSET Service, view : View]

\* NewManager, whose first serial is the time, and no service yet.
RestInit ==
    /\ up = "up" /\ serial = 1 /\ listSerial = 0
    /\ services = {}
    /\ stamp = [s \in Service |-> 0]
    /\ flags = [s \in Service |-> FALSE] /\ status = [s \in Service |-> FALSE]
    /\ wire = NoRequest /\ reading = "no" /\ been = {}
    /\ sn = 0 /\ info = Blank /\ seen = {}
    /\ answer = NoAnswer

-----------------------------------------------------------------------------
(* The manager.                                                            *)

\* s.mgr # nil, and what the getters return of s.
Managed(s) == s \in services
Shown(s) == [f \in Flag \cup {"status"} |->
                IF f \in Flag THEN Managed(s) /\ flags[s] ELSE status[s]]

\* What a request for a service that is being answered has seen of it by now.
Asked == {s \in Service : reading # "no" /\ s = wire.svc}
Noticed ==
    /\ been' = been \cup {Managed(s)' : s \in Asked}
    /\ seen' = seen \cup {Shown(s)' : s \in Asked}
    /\ UNCHANGED <<wire, reading, sn, info, answer>>

NoBump(s) == UNCHANGED <<serial, stamp>>  \* mutant: no new serial
Bump(s) ==
    /\ serial < MaxSerial
    /\ serial' = serial + 1
    /\ stamp' = [stamp EXCEPT ![s] = serial']

\* An operation changes s, under the lock and with a new serial: one that a post
\* asks for (enableService, disableService, restartService, clearService), or the
\* monitor's.
Change(s) ==
    /\ up = "up" /\ s \in services
    /\ Bump(s)
    /\ \E f, t \in BOOLEAN :
         /\ flags' = [flags EXCEPT ![s] = f]
         /\ status' = [status EXCEPT ![s] = t]
    /\ UNCHANGED <<up, listSerial, services>>
    /\ Noticed

ListUnbumped == listSerial  \* mutant: the list has no new serial
ListBumped == serial + 1

\* The list changes: two bumps, the first for the list.
Relist(s, members) ==
    /\ up = "up" /\ serial + 2 <= MaxSerial
    /\ services' = members
    /\ listSerial' = ListBumped /\ serial' = serial + 2
    /\ stamp' = [stamp EXCEPT ![s] = serial + 2]
    /\ UNCHANGED <<up, flags>>

\* govisord adds a service once, at its start.
AddService(s) ==
    /\ s \notin services /\ stamp[s] = 0
    /\ Relist(s, services \cup {s})
    /\ UNCHANGED status
    /\ Noticed

DeleteService(s) ==
    /\ s \in services /\ ~flags[s]
    /\ Relist(s, services \ {s})
    /\ status' = [status EXCEPT ![s] = FALSE]
    /\ Noticed

\* A signal: Shutdown stops and removes every service.  There is a new serial for
\* those that ran and none for the others and for the list.  Requests are still
\* answered until the process ends.
Shutdown ==
    /\ up = "up"
    /\ up' = "stopping"
    /\ \E ran \in SUBSET services :
         /\ serial' = serial + Cardinality(ran) /\ serial' <= MaxSerial
         /\ stamp' \in {f \in [Service -> 0 .. serial'] : \A s \in Service :
                          IF s \in ran THEN f[s] > serial ELSE f[s] = stamp[s]}
    /\ services' = {}
    /\ flags' = [s \in Service |-> s \notin services /\ flags[s]]
    /\ status' = [s \in Service |-> s \notin services /\ status[s]]
    /\ UNCHANGED listSerial
    /\ Noticed

\* os.Exit: a request without an answer gets none.
Exit ==
    /\ up = "stopping"
    /\ up' = "down"
    /\ wire' = IF wire.kind # "none" /\ answer.code = 0
               THEN [wire EXCEPT !.kind = "lost"] ELSE wire
    /\ reading' = "no" /\ been' = {} /\ sn' = 0 /\ info' = Blank
    /\ seen' = IF answer.code = 0 THEN {} ELSE seen
    /\ UNCHANGED <<serial, listSerial, services, stamp, flags, status, answer>>

FirstIsZero == 0  \* mutant: the serials start at zero
FirstSerial == serial + 1

\* govisord starts again, at a later time: a new manager and new services.
Boot ==
    /\ up = "down" /\ serial < MaxSerial
    /\ up' = "up"
    /\ serial' = FirstSerial /\ listSerial' = 0
    /\ services' = {}
    /\ stamp' = [s \in Service |-> 0]
    /\ flags' = [s \in Service |-> FALSE] /\ status' = [s \in Service |-> FALSE]
    /\ UNCHANGED requestVars

Manager ==
    \/ \E s \in Service : Change(s) \/ AddService(s) \/ DeleteService(s)
    \/ Shutdown \/ Exit \/ Boot

-----------------------------------------------------------------------------
(* The handlers.                                                           *)

\* condCheckGet: the records or "not modified".  No client of ours sends
\* If-Modified-Since.
Respond(tag, list, view) ==
    answer' = [code |-> IF wire.tag = tag THEN 304 ELSE 200,
               tag |-> tag, list |-> list, view |-> view]

\* Manager.Services and Manager.GetInfo, each read under the lock.
Services == [tag |-> listSerial, names |-> services]
GetInfo == [tag |-> serial]

Pending(kind) == up # "down" /\ wire.kind = kind /\ answer.code = 0

listServices ==
    /\ Pending("list")
    /\ Respond(Services.tag, Services.names, Blank)
    /\ UNCHANGED <<managerVars, wire, reading, been, sn, info, seen>>

PollEndsWithNews == wire.tag # serial  \* mutant: not without a change
PollEnds == TRUE

\* Long polls: WatchSerial returns when the serial differs from the Etag of the
\* request, or when the time it gives is up.
getManager ==
    /\ Pending("manager") /\ PollEnds
    /\ Respond(GetInfo.tag, {}, Blank)
    /\ UNCHANGED <<managerVars, wire, reading, been, sn, info, seen>>

findService ==
    /\ Pending("service") /\ reading = "no"
    /\ IF wire.svc \in services
       THEN reading' = "serial" /\ been' = {TRUE} /\ UNCHANGED answer
       ELSE /\ answer' = [NoAnswer EXCEPT !.code = 404]
            /\ UNCHANGED <<reading, been>>
    /\ UNCHANGED <<managerVars, wire, sn, info, seen>>

\* One call of getService: s.mgr had one of the values in `been` when it read it.
Getter(from, to) ==
    /\ Pending("service") /\ reading = from
    /\ reading' = to
    /\ been' = IF to = "no" THEN {} ELSE {Managed(wire.svc)}
    /\ UNCHANGED <<managerVars, wire>>

SerialWhen(managed) == IF managed THEN stamp[wire.svc] ELSE 0

readSerial ==
    /\ Getter("serial", "enabled")
    /\ \E managed \in been : sn' = SerialWhen(managed)
    /\ seen' = {Shown(wire.svc)}
    /\ UNCHANGED <<info, answer>>

readFlag(flag, next) ==
    /\ Getter(flag, next)
    /\ \E managed \in been : info' = [info EXCEPT ![flag] = managed /\ flags[wire.svc]]
    /\ UNCHANGED <<sn, seen, answer>>

readFlags ==
    readFlag("enabled", "running") \/ readFlag("running", "failed") \/ readFlag("failed", "status")

readStatus ==
    /\ Getter("status", "check")
    /\ info' = [info EXCEPT !["status"] = status[wire.svc]]
    /\ UNCHANGED <<sn, seen, answer>>

Unchecked == TRUE  \* mutant: the serial is not read again
Rechecked == \E managed \in been : SerialWhen(managed) = sn

\* The loop ends if the serial is still the same.
answerService ==
    /\ Getter("check", "no")
    /\ Rechecked
    /\ Respond(sn, {}, info)
    /\ sn' = 0 /\ info' = Blank /\ UNCHANGED seen

readAgain ==
    /\ Getter("check", "serial")
    /\ \E managed \in been : SerialWhen(managed) # sn
    /\ sn' = 0 /\ info' = Blank /\ seen' = {} /\ UNCHANGED answer

Serving ==
    \/ listServices \/ getManager \/ findService
    \/ readSerial \/ readFlags \/ readStatus \/ answerService \/ readAgain

-----------------------------------------------------------------------------
\* A response shows a service as it was at some moment after the serial was read
\* that it carries (server.go:139-140: "a consistent view of the service"),
\* although its parts are read one by one and it may be removed in between.
ConsistentView ==
    wire.kind = "service" /\ answer.code = 200 => answer.view \in seen
=============================================================================
