----------------------------- MODULE Supervisor -----------------------------
(***************************************************************************)
(* A govisor manager supervising its services: enabling, disabling,        *)
(* restarting, clearing and checking them, the monitor's passes, the       *)
(* notifications of providers, and Shutdown (service.go, manager.go).      *)
(*                                                                         *)
(* Every one of these runs under the manager's lock, but none of them is   *)
(* atomic: Start, Stop and Check of a provider block, and startRecurse and *)
(* stopRecurse call themselves for the children of a service, in the       *)
(* random order of a Go map.  The calls in progress are the frames of      *)
(* `stack`, the topmost last; the lock is free when it is empty.  A frame  *)
(* is a record                                                             *)
(*     kind  which call it is, and how far it has come,                    *)
(*     svc   the service it was made for,                                  *)
(*     why   the detail given to stopRecurse,                              *)
(*     todo  the services its loop has still to visit.                     *)
(* The provider of a service is a flag the environment raises and lowers   *)
(* at any time: `sick` services fail Start and Check.                      *)
(***************************************************************************)
EXTENDS ServiceGraph, SequencesExt

CONSTANTS
    NoService,   \* the svc of a frame that belongs to no service
    RateLimit    \* Service.rateLimit of every service; 0 is "no limit"

ASSUME SupervisorAssumption ==
    /\ NoService \notin Service
    /\ RateLimit \in Nat

VARIABLES
    enabled,     \* the services whose enabled flag is set
    running,     \* ... running
    stopping,    \* ... stopping: a stopRecurse for them is in progress
    failed,      \* ... failed
    restart,     \* ... restart: the service heals itself
    rateLog,     \* ... rateLog: its last start attempt was refused
    reason,      \* Service.reason, as far as the code compares it
    starts,      \* Service.starts, counted up to RateLimit
    recent,      \* services at the limit, last started less than a period ago
    sick,        \* services whose provider fails Start and Check
    monitoring,  \* Manager.monitoring
    stack,       \* the calls in progress under the manager's lock
    bumped,      \* ghost: services given a new serial since the lock was taken
    listBumped   \* ghost: has the list been given a new serial since then?

serviceVars == <<enabled, running, stopping, failed, restart, rateLog,
                 reason, starts, recent>>
vars == <<graphVars, serviceVars, sick, monitoring, stack, bumped, listBumped>>

\* Everything that any operation reads: the state without the ghosts.
concreteVars == <<graphVars, serviceVars, sick, monitoring, stack>>

Reason == {"Disabled", "Unmet dependency", "Healthy", "other"}
Kind == {"start", "starting", "stop", "stopping",
         "restart", "heal", "monitor", "shutdown", "remove"}
Frame == [kind : Kind, svc : Service \cup {NoService}, why : Reason,
          todo : SUBSET Service]

TypeOK ==
    /\ GraphTypeOK
    /\ enabled \in SUBSET Service
    /\ running \in SUBSET Service
    /\ stopping \in SUBSET Service
    /\ failed \in SUBSET Service
    /\ restart \in SUBSET Service
    /\ rateLog \in SUBSET Service
    /\ reason \in [Service -> Reason]
    /\ starts \in [Service -> 0 .. RateLimit]
    /\ recent \in SUBSET Service
    /\ sick \in SUBSET Service
    /\ monitoring \in BOOLEAN
    /\ stack \in Seq(Frame)
    /\ bumped \in SUBSET Service
    /\ listBumped \in BOOLEAN

\* NewService and NewManager: nothing is managed, no service heals itself.
Init ==
    /\ GraphInit
    /\ enabled = {} /\ running = {} /\ stopping = {} /\ failed = {}
    /\ restart = {} /\ rateLog = {}
    /\ reason = [s \in Service |-> "other"]
    /\ starts = [s \in Service |-> 0]
    /\ recent = {}
    /\ sick = {}
    /\ monitoring = FALSE
    /\ stack = <<>>
    /\ bumped = {}
    /\ listBumped = FALSE

-----------------------------------------------------------------------------
(* Calls.                                                                  *)

NewFrame(kind, s, why, todo) ==
    [kind |-> kind, svc |-> s, why |-> why, todo |-> todo]

startRecurse(s) == NewFrame("start", s, "other", {})
stopRecurse(s, detail) == NewFrame("stop", s, detail, {})

Idle == stack = <<>>
Top == Last(stack)
Below == Front(stack)
Call(f) == Append(stack, f)

\* The call on top has visited (or is about to visit) c.
AfterVisit(c) == Append(Below, [Top EXCEPT !.todo = @ \ {c}])

-----------------------------------------------------------------------------
(* Service.canRun.                                                         *)

\* d satisfies a dependency.
Up(d) == d \in enabled /\ d \in running /\ d \notin stopping /\ d \notin failed

DepsMet(s) == \A d \in DependsOn(s) : \E p \in parents[s][d] : Up(p)

canRun(s) ==
    /\ s \notin stopping /\ s \in enabled
    /\ DepsMet(s)
    /\ incompat[s] \cap enabled = {}

\* What canRun leaves behind: the services (s or none) whose missing
\* dependency is news.
Unmet(s) ==
    IF /\ s \notin stopping /\ s \in enabled
       /\ ~DepsMet(s)
       /\ reason[s] # "Unmet dependency"
    THEN {s} ELSE {}

NoteUnmet(s) ==
    /\ reason' = [t \in Service |->
                    IF t \in Unmet(s) THEN "Unmet dependency" ELSE reason[t]]
    /\ bumped' = bumped \cup Unmet(s)

\* Service.tooQuickly; module RateLimit has the clock and the start times.
tooQuickly(s) ==
    RateLimit > 0 /\ starts[s] = RateLimit /\ s \in recent

\* s.starts++ and the record of the start time, and s.starts = 0.
CountStart(s) ==
    /\ starts' = [starts EXCEPT ![s] = IF @ < RateLimit THEN @ + 1 ELSE @]
    /\ recent' = IF starts'[s] = RateLimit /\ RateLimit > 0
                 THEN recent \cup {s} ELSE recent
ForgetStarts(s) ==
    /\ starts' = [starts EXCEPT ![s] = 0]
    /\ recent' = recent \ {s}

-----------------------------------------------------------------------------
(* Service.startRecurse.                                                   *)

\* The service runs already, or must not run.
StartReturns ==
    LET s == Top.svc IN
    /\ Top.kind = "start"
    /\ s \in running \/ ~canRun(s)
    /\ IF s \in running THEN UNCHANGED <<reason, bumped>> ELSE NoteUnmet(s)
    /\ stack' = Below
    /\ UNCHANGED <<graphVars, enabled, running, stopping, failed, restart,
                   rateLog, starts, recent>>

StartRefusedSilently ==  \* mutant: the refusal is not noted
    LET s == Top.svc IN
    /\ Top.kind = "start"
    /\ s \notin running /\ canRun(s)
    /\ tooQuickly(s)
    /\ stack' = Below
    /\ UNCHANGED <<graphVars, serviceVars, bumped>>

StartRefused ==
    LET s == Top.svc IN
    /\ Top.kind = "start"
    /\ s \notin running /\ canRun(s)
    /\ tooQuickly(s)
    /\ rateLog' = rateLog \cup {s}
    /\ stack' = Below
    /\ UNCHANGED <<graphVars, enabled, running, stopping, failed, restart,
                   reason, starts, recent, bumped>>

StartAttemptedSilently(s) ==  \* mutant: a start gives no new serial
    /\ Top.kind = "start"
    /\ s \notin running /\ canRun(s)
    /\ ~tooQuickly(s)
    /\ CountStart(s)
    /\ rateLog' = IF RateLimit > 0 /\ starts[s] = RateLimit
                  THEN rateLog \ {s} ELSE rateLog
    /\ reason' = [reason EXCEPT ![s] = "other"]
    /\ UNCHANGED <<graphVars, enabled, stopping, restart, bumped>>

\* The attempt counts before its outcome is known.
StartAttempted(s) ==
    /\ Top.kind = "start"
    /\ s \notin running /\ canRun(s)
    /\ ~tooQuickly(s)
    /\ CountStart(s)
    /\ rateLog' = IF RateLimit > 0 /\ starts[s] = RateLimit
                  THEN rateLog \ {s} ELSE rateLog
    /\ bumped' = bumped \cup {s}
    /\ reason' = [reason EXCEPT ![s] = "other"]
    /\ UNCHANGED <<graphVars, enabled, stopping, restart>>

StartFails ==
    LET s == Top.svc IN
    /\ StartAttempted(s)
    /\ s \in sick
    /\ failed' = failed \cup {s}
    /\ stack' = Below
    /\ UNCHANGED running

StartSucceedsAlone ==  \* mutant: the dependents are not told
    LET s == Top.svc IN
    /\ StartAttempted(s)
    /\ s \notin sick
    /\ running' = running \cup {s}
    /\ failed' = failed \ {s}
    /\ stack' = Below

StartSucceeds ==
    LET s == Top.svc IN
    /\ StartAttempted(s)
    /\ s \notin sick
    /\ running' = running \cup {s}
    /\ failed' = failed \ {s}
    /\ stack' = Append(Below, NewFrame("starting", s, "other", children[s]))

StartNextChild ==
    /\ Top.kind = "starting"
    /\ \E c \in Top.todo : stack' = Append(AfterVisit(c), startRecurse(c))
    /\ UNCHANGED <<graphVars, serviceVars, bumped>>

-----------------------------------------------------------------------------
(* Service.stopRecurse.                                                    *)

StopWaits ==  \* mutant: a second call waits for the stop in progress to end
    /\ Top.kind = "stop"
    /\ Top.svc \notin running
    /\ stack' = Below
    /\ UNCHANGED <<graphVars, serviceVars, bumped>>

StopReturns ==
    /\ Top.kind = "stop"
    /\ Top.svc \notin running \/ Top.svc \in stopping
    /\ stack' = Below
    /\ UNCHANGED <<graphVars, serviceVars, bumped>>

StopBeginsUnmarked ==  \* mutant: the stopping flag is not raised
    LET s == Top.svc IN
    /\ Top.kind = "stop"
    /\ s \in running /\ s \notin stopping
    /\ stack' = Append(Below, NewFrame("stopping", s, Top.why, children[s]))
    /\ UNCHANGED <<graphVars, serviceVars, bumped>>

StopsItselfFirst ==  \* mutant: the provider is stopped before its dependents
    LET s == Top.svc IN
    /\ Top.kind = "stop"
    /\ s \in running /\ s \notin stopping
    /\ stopping' = stopping \cup {s}
    /\ running' = running \ {s}
    /\ stack' = Append(Below, NewFrame("stopping", s, Top.why, children[s]))
    /\ UNCHANGED <<graphVars, enabled, failed, restart, rateLog, reason,
                   starts, recent, bumped>>

StopBegins ==
    LET s == Top.svc IN
    /\ Top.kind = "stop"
    /\ s \in running /\ s \notin stopping
    /\ stopping' = stopping \cup {s}
    /\ stack' = Append(Below, NewFrame("stopping", s, Top.why, children[s]))
    /\ UNCHANGED <<graphVars, enabled, running, failed, restart, rateLog,
                   reason, starts, recent, bumped>>

SpareAnyChild ==  \* mutant: a child is spared as long as it is enabled
    /\ Top.kind = "stopping"
    /\ \E c \in Top.todo : c \in enabled /\ stack' = AfterVisit(c)
    /\ UNCHANGED <<graphVars, serviceVars, bumped>>

\* A child that has another provider for what s offered keeps running.
SpareChild ==
    /\ Top.kind = "stopping"
    /\ \E c \in Top.todo : canRun(c) /\ stack' = AfterVisit(c)
    /\ UNCHANGED <<graphVars, serviceVars, bumped>>

StopEveryChild ==  \* mutant: no child is spared
    /\ Top.kind = "stopping"
    /\ \E c \in Top.todo :
         /\ NoteUnmet(c)
         /\ stack' = Append(AfterVisit(c), stopRecurse(c, "Unmet dependency"))
    /\ UNCHANGED <<graphVars, enabled, running, stopping, failed, restart,
                   rateLog, starts, recent>>

StopNextChild ==
    /\ Top.kind = "stopping"
    /\ \E c \in Top.todo :
         /\ ~canRun(c)
         /\ NoteUnmet(c)
         /\ stack' = Append(AfterVisit(c), stopRecurse(c, "Unmet dependency"))
    /\ UNCHANGED <<graphVars, enabled, running, stopping, failed, restart,
                   rateLog, starts, recent>>

\* Only now, with its children down, is the service's own provider stopped.
StopEnds ==
    LET s == Top.svc IN
    /\ Top.kind = "stopping" /\ Top.todo = {}
    /\ running' = running \ {s}
    /\ stopping' = stopping \ {s}
    /\ reason' = [reason EXCEPT ![s] = Top.why]
    /\ bumped' = bumped \cup {s}
    /\ stack' = Below
    /\ UNCHANGED <<graphVars, enabled, failed, restart, rateLog, starts, recent>>

-----------------------------------------------------------------------------
(* Service.checkService and selfHeal, as Manager.monitor and Manager.notify *)
(* use them; `rest` is the stack they return to, `b` what was bumped so far.*)

healAfter(s, rest) == Append(rest, NewFrame("heal", s, "other", {}))

CheckService(s, rest, b) ==
    \/ /\ s \in failed
       /\ stack' = healAfter(s, rest)
       /\ bumped' = b
       /\ UNCHANGED <<failed, reason>>
    \/ /\ s \notin failed /\ s \notin running   \* ErrNotRunning: not a fault
       /\ stack' = rest
       /\ bumped' = b
       /\ UNCHANGED <<failed, reason>>
    \/ /\ s \notin failed /\ s \in running /\ s \in sick
       /\ failed' = failed \cup {s}
       /\ bumped' = b \cup {s}
       /\ stack' = Append(healAfter(s, rest), stopRecurse(s, "other"))
       /\ UNCHANGED reason
    \/ /\ s \notin failed /\ s \in running /\ s \notin sick
       /\ reason' = [reason EXCEPT ![s] = "Healthy"]
       /\ bumped' = IF reason[s] = "Healthy" THEN b ELSE b \cup {s}
       /\ stack' = rest
       /\ UNCHANGED failed

SelfHealIfRunning ==  \* mutant: only what still runs is healed
    LET s == Top.svc IN
    /\ Top.kind = "heal"
    /\ stack' = IF s \in failed /\ s \in restart /\ s \in running
                THEN Append(Below, startRecurse(s)) ELSE Below
    /\ UNCHANGED <<graphVars, serviceVars, bumped>>

SelfHeal ==
    LET s == Top.svc IN
    /\ Top.kind = "heal"
    /\ stack' = IF s \in failed /\ s \in restart
                THEN Append(Below, startRecurse(s)) ELSE Below
    /\ UNCHANGED <<graphVars, serviceVars, bumped>>

MonitorVisit ==
    /\ Top.kind = "monitor"
    /\ \E s \in Top.todo :
         IF s \in enabled
         THEN CheckService(s, AfterVisit(s), bumped)
         ELSE stack' = AfterVisit(s) /\ UNCHANGED <<failed, reason, bumped>>
    /\ UNCHANGED <<graphVars, enabled, running, stopping, restart, rateLog,
                   starts, recent>>

-----------------------------------------------------------------------------
(* The rest of Restart and of Shutdown, and the end of every loop that has *)
(* nothing to do after it.                                                 *)

RestartResumes ==
    LET s == Top.svc IN
    /\ Top.kind = "restart"
    /\ reason' = [reason EXCEPT ![s] = "other"]
    /\ ForgetStarts(s)
    /\ failed' = failed \ {s}
    /\ enabled' = enabled \cup {s}
    /\ stack' = Append(Below, startRecurse(s))
    /\ UNCHANGED <<graphVars, running, stopping, restart, rateLog, bumped>>

ShutdownVisit ==
    /\ Top.kind = "shutdown"
    /\ \E s \in Top.todo :
         /\ enabled' = enabled \ {s}
         /\ stack' = Append(Append(AfterVisit(s), NewFrame("remove", s, "other", {})),
                            stopRecurse(s, "other"))
    /\ UNCHANGED <<graphVars, running, stopping, failed, restart, rateLog,
                   reason, starts, recent, bumped>>

ShutdownRemoves ==
    /\ Top.kind = "remove"
    /\ delManager(Top.svc)
    /\ reason' = [reason EXCEPT ![Top.svc] = "other"]
    /\ stack' = Below
    /\ UNCHANGED <<enabled, running, stopping, failed, restart, rateLog,
                   starts, recent, bumped>>

LoopEnds ==
    /\ Top.kind \in {"starting", "monitor", "shutdown"} /\ Top.todo = {}
    /\ stack' = Below
    /\ UNCHANGED <<graphVars, serviceVars, bumped>>

\* One step of the goroutine that holds the lock.
Step ==
    /\ ~Idle
    /\ \/ StartReturns \/ StartRefused \/ StartFails \/ StartSucceeds
       \/ StartNextChild
       \/ StopReturns \/ StopBegins \/ SpareChild \/ StopNextChild \/ StopEnds
       \/ SelfHeal \/ MonitorVisit
       \/ RestartResumes \/ ShutdownVisit \/ ShutdownRemoves \/ LoopEnds
    /\ UNCHANGED <<sick, monitoring, listBumped>>

-----------------------------------------------------------------------------
(* The operations, from the moment they have the lock.  An operation that  *)
(* an early return leaves without effect is not a step.                    *)

AddService(s) ==
    /\ Idle
    /\ NameIsFree(s)
    /\ setManager(s)
    /\ reason' = [reason EXCEPT ![s] = "other"]
    /\ bumped' = {s} /\ listBumped' = TRUE
    /\ UNCHANGED <<enabled, running, stopping, failed, restart, rateLog,
                   starts, recent, monitoring, stack>>

DeleteService(s) ==
    /\ Idle
    /\ s \notin enabled
    /\ delManager(s)
    /\ reason' = IF s \in services THEN [reason EXCEPT ![s] = "other"] ELSE reason
    /\ bumped' = {s} /\ listBumped' = TRUE
    /\ UNCHANGED <<enabled, running, stopping, failed, restart, rateLog,
                   starts, recent, monitoring, stack>>

\* What the operations on a managed service have in common: Service.mgr is
\* set, the lock is taken, and the service gets a new serial.
Operation(s) ==
    /\ Idle /\ s \in services
    /\ bumped' = {s} /\ listBumped' = FALSE
    /\ UNCHANGED <<graphVars, running, stopping, monitoring>>

EnableRefused(s) ==
    /\ Operation(s)
    /\ s \notin enabled /\ incompat[s] \cap enabled # {}
    /\ reason' = [reason EXCEPT ![s] = "other"]
    /\ UNCHANGED <<enabled, failed, restart, rateLog, starts, recent, stack>>

EnableUnchecked(s) ==  \* mutant: no look at the conflicts
    /\ Operation(s)
    /\ s \notin enabled
    /\ reason' = [reason EXCEPT ![s] = "other"]
    /\ enabled' = enabled \cup {s}
    /\ ForgetStarts(s)
    /\ stack' = Call(startRecurse(s))
    /\ UNCHANGED <<failed, restart, rateLog>>

Enable(s) ==
    /\ Operation(s)
    /\ s \notin enabled /\ incompat[s] \cap enabled = {}
    /\ reason' = [reason EXCEPT ![s] = "other"]
    /\ enabled' = enabled \cup {s}
    /\ ForgetStarts(s)
    /\ stack' = Call(startRecurse(s))
    /\ UNCHANGED <<failed, restart, rateLog>>

Disable(s) ==
    /\ Operation(s)
    /\ s \in enabled \/ reason[s] # "Disabled"
    /\ reason' = [reason EXCEPT ![s] = "Disabled"]
    /\ enabled' = enabled \ {s}
    /\ failed' = failed \ {s}
    /\ stack' = Call(stopRecurse(s, "Disabled"))
    /\ UNCHANGED <<restart, rateLog, starts, recent>>

Restart(s) ==
    /\ Operation(s)
    /\ s \in enabled
    /\ enabled' = enabled \ {s}
    /\ stack' = Append(Call(NewFrame("restart", s, "other", {})),
                       stopRecurse(s, "other"))
    /\ UNCHANGED <<failed, restart, rateLog, reason, starts, recent>>

Clear(s) ==
    /\ Operation(s)
    /\ reason' = IF s \in failed THEN [reason EXCEPT ![s] = "other"] ELSE reason
    /\ failed' = failed \ {s}
    /\ ForgetStarts(s)
    /\ stack' = Call(startRecurse(s))
    /\ UNCHANGED <<enabled, restart, rateLog>>

\* SetProperty(PropRestart) and SetProperty(PropRateLimit or PropRatePeriod).
SetRestart(s) ==
    /\ Operation(s)
    /\ restart' \in {restart \cup {s}, restart \ {s}}
    /\ UNCHANGED <<enabled, failed, rateLog, reason, starts, recent, stack>>

SetRate(s) ==
    /\ Operation(s)
    /\ ForgetStarts(s)
    /\ UNCHANGED <<enabled, failed, restart, rateLog, reason, stack>>

\* Manager.notify: a provider reports that something has changed.  checking is
\* set only while the lock is held, so it is never seen here.
Notify(s) ==
    /\ Idle /\ s \in enabled
    /\ CheckService(s, <<>>, {})
    /\ listBumped' = FALSE
    /\ UNCHANGED <<graphVars, enabled, running, stopping, restart, rateLog,
                   starts, recent, monitoring>>

\* One pass of Manager.monitor.
MonitorPass ==
    /\ Idle /\ monitoring
    /\ stack' = Call(NewFrame("monitor", NoService, "other", services))
    /\ bumped' = {} /\ listBumped' = FALSE
    /\ UNCHANGED <<graphVars, serviceVars, monitoring>>

SetMonitoring ==
    /\ Idle
    /\ monitoring' \in BOOLEAN
    /\ bumped' = {} /\ listBumped' = FALSE
    /\ UNCHANGED <<graphVars, serviceVars, stack>>

Shutdown ==
    /\ Idle
    /\ monitoring' = FALSE
    /\ stack' = Call(NewFrame("shutdown", NoService, "other", services))
    /\ bumped' = {} /\ listBumped' = FALSE
    /\ UNCHANGED <<graphVars, serviceVars>>

Lock ==
    /\ \/ \E s \in Service :
            \/ AddService(s) \/ DeleteService(s)
            \/ EnableRefused(s) \/ Enable(s) \/ Disable(s) \/ Restart(s)
            \/ Clear(s) \/ SetRestart(s) \/ SetRate(s) \/ Notify(s)
       \/ MonitorPass \/ SetMonitoring \/ Shutdown
    /\ UNCHANGED sick

-----------------------------------------------------------------------------
(* The environment: providers break and recover, rate periods run out.     *)

Fault(s) == s \notin sick /\ sick' = sick \cup {s} /\ UNCHANGED recent
Recover(s) == s \in sick /\ sick' = sick \ {s} /\ UNCHANGED recent
PeriodElapses(s) == s \in recent /\ recent' = recent \ {s} /\ UNCHANGED sick

Environment ==
    /\ \E s \in Service : Fault(s) \/ Recover(s) \/ PeriodElapses(s)
    /\ UNCHANGED <<graphVars, enabled, running, stopping, failed, restart,
                   rateLog, reason, starts, monitoring, stack, bumped,
                   listBumped>>

Next == Step \/ Lock \/ Environment

Spec == Init /\ [][Next]_vars

\* A provider's Start, Stop and Check return (provider.go:55-70), so whoever
\* holds the lock goes on.
RunningSpec == Spec /\ WF_vars(Step)

\* Besides, rate periods end, and the monitor gets the lock again and again: a
\* Go mutex hands itself to a waiter it has starved for a millisecond.
FairSpec ==
    /\ RunningSpec
    /\ SF_vars(MonitorPass /\ UNCHANGED sick)
    /\ \A s \in Service : WF_vars(PeriodElapses(s) /\ Environment)

-----------------------------------------------------------------------------
(* Properties.                                                             *)

\* Whoever is idle, a service that runs is a member, is enabled, has not
\* failed and has every dependency satisfied.  Disable, Restart, a fault and
\* Shutdown reach the dependents only through the recursion of stopRecurse,
\* and a start in between could revive one of them.
RunningSupported ==
    Idle => \A s \in running :
        s \in services /\ s \in enabled /\ s \notin failed /\ DepsMet(s)

\* No two conflicting services are enabled, even in the middle of a Restart,
\* which sets the flag again without looking at the conflicts (service.go:296).
NoConflictEnabled == \A s \in enabled : incompat[s] \cap enabled = {}

\* Nothing is left behind: an enabled service that could run, has not failed
\* and was not held back by the rate limit runs when the lock is released.
\* Nobody starts it later: the monitor heals only failed services.
NoneLeftBehind ==
    Idle => \A s \in Service :
        canRun(s) /\ s \notin failed /\ s \notin rateLog => s \in running

\* Without cyclic dependencies a service outlives its dependents: at every
\* moment, also in the middle of a cascade, every provider a running service
\* needs is still running (stopRecurse stops the children first).
StopOrder ==
    \A s \in running : \A d \in DependsOn(s) :
        \E p \in parents[s][d] : p \in running

\* A cascade only stops what lost its last provider (the canRun test in
\* stopRecurse): nothing with all its dependencies satisfied is stopped for an
\* unmet one.
NoNeedlessStop ==
    [][\A s \in running \ running' :
         reason'[s] = "Unmet dependency" => ~DepsMet(s)]_vars

\* What the API reports of a service.
Observed(s) ==
    <<s \in services, s \in enabled, s \in running, s \in failed, reason[s]>>

\* A service that looks different has been given a new serial under the same
\* hold of the lock, and so has the list if its members are others: every watcher
\* is woken (manager.go:130-131: the serial "is incremented anytime a service has
\* a state change").  Shutdown is left out: it gives new serials only to the
\* services that ran, and the list none.
ChangesBump ==
    [][\/ ~Idle /\ Top.kind \in {"shutdown", "remove"}
       \/ /\ \A s \in Service : Observed(s)' # Observed(s) => s \in bumped'
          /\ services' # services => listBumped']_vars

\* Every operation ends and releases the lock: the recursions of startRecurse
\* and stopRecurse come to an end on any graph, cyclic ones included.
LockIsReleased == []<>Idle

\* A failed service with the restart property does not stay down for ever while
\* its provider works, its dependencies are met and the monitor is on.
Healable(s) ==
    /\ s \in services /\ s \in enabled /\ s \in failed /\ s \in restart
    /\ DepsMet(s) /\ s \notin sick /\ monitoring
SelfHeals == \A s \in Service : ~<>[]Healable(s)
=============================================================================
