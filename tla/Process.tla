------------------------------ MODULE Process ------------------------------
(***************************************************************************)
(* The provider that runs an operating system process (process.go): Start  *)
(* and Stop as a manager calls them, the stop command, the doWait goroutine *)
(* of every process started, and the timers that kill what does not end in *)
(* time.  All of them meet at p.lock, which Stop holds while it asks the   *)
(* process to end, gives up while it waits, and takes again.               *)
(*                                                                         *)
(* A manager starts a process only when it is stopped and stops it only    *)
(* when its start succeeded (startRecurse and stopRecurse test running).   *)
(* A process may end at any time, well or badly, and need not obey SIGTERM *)
(* or the stop command, which itself need not end.                         *)
(***************************************************************************)
EXTENDS Naturals, FiniteSets

CONSTANTS
    Proc,     \* processes; one that has left no trace can be taken for a new one
    Nobody    \* p.process is nil

ASSUME ProcessAssumption == Nobody \notin Proc

VARIABLES
    stopTime,    \* p.stopTime > 0: Stop kills a process that does not end
    stopCmd,     \* p.stopCmd is set: it is run instead of sending SIGTERM
    failOnExit,  \* p.failOnExit
    process,     \* p.process
    stopped,     \* p.stopped
    failed,      \* p.failed
    locked,      \* Stop holds p.lock
    caller,      \* where the manager is, see Place
    current,     \* the process that was started last
    alive,       \* the processes that run
    broken,      \* the processes that ended badly
    waiter,      \* doWait of each process; p.waiter counts those not "gone"
    timer        \* the kill timer set for each process

settings == <<stopTime, stopCmd, failOnExit>>
state == <<process, stopped, failed>>
children == <<current, alive, broken>>
vars == <<settings, state, locked, caller, children, waiter, timer>>

\* "shutdown": Stop is about to ask the process; "command": the stop command runs;
\* "asked": shutdown() has returned; "waiting": in p.waiter.Wait().
Place == {"down", "up", "shutdown", "command", "asked", "waiting"}
Stopping == Place \ {"down", "up"}

TypeOK ==
    /\ stopTime \in BOOLEAN /\ stopCmd \in BOOLEAN /\ failOnExit \in BOOLEAN
    /\ process \in Proc \cup {Nobody}
    /\ stopped \in BOOLEAN /\ failed \in BOOLEAN /\ locked \in BOOLEAN
    /\ caller \in Place
    /\ current \in Proc \cup {Nobody}
    /\ alive \subseteq Proc /\ broken \subseteq Proc \ alive
    /\ waiter \in [Proc -> {"gone", "waits", "reaped", "noted"}]
    /\ timer \in [Proc -> {"none", "running", "fired"}]

Init ==
    /\ stopTime \in BOOLEAN /\ stopCmd \in BOOLEAN /\ failOnExit \in BOOLEAN
    /\ process = Nobody
    /\ stopped = FALSE /\ failed = FALSE /\ locked = FALSE
    /\ caller = "down"
    /\ current = Nobody /\ alive = {} /\ broken = {}
    /\ waiter = [g \in Proc |-> "gone"]
    /\ timer = [g \in Proc |-> "none"]

-----------------------------------------------------------------------------
(* Process.Start.                                                          *)

StartFails ==
    /\ caller = "down" /\ ~locked
    /\ stopped' = FALSE /\ failed' = TRUE
    /\ UNCHANGED <<settings, process, locked, caller, children, waiter, timer>>

Start(g) ==
    /\ waiter[g] = "gone" /\ timer[g] = "none"   \* g is new
    /\ caller = "down" /\ ~locked
    /\ stopped' = FALSE /\ failed' = FALSE
    /\ current' = g /\ process' = g
    /\ alive' = alive \cup {g} /\ broken' = broken \ {g}
    /\ waiter' = [waiter EXCEPT ![g] = "waits"]
    /\ caller' = "up"
    /\ UNCHANGED <<settings, locked, timer>>

-----------------------------------------------------------------------------
(* Process.Stop, shutdown and runCmdWithTimeout.                           *)

FlagLater == FALSE  \* mutant: p.stopped is not set before the process ends
StopFlag == TRUE

\* A process that is gone already need not be asked.
Stop ==
    /\ caller = "up" /\ ~locked
    /\ stopped' = StopFlag
    /\ IF process = Nobody
       THEN caller' = "down" /\ UNCHANGED locked
       ELSE caller' = "shutdown" /\ locked' = TRUE
    /\ UNCHANGED <<settings, process, failed, children, waiter, timer>>

StopGoes(from, to) ==
    /\ caller = from /\ caller' = to
    /\ UNCHANGED <<settings, state, locked, children, waiter, timer>>

\* SIGTERM is sent, or the stop command cannot be started.
SignalSent == StopGoes("shutdown", "asked")
CommandStarts == stopCmd /\ StopGoes("shutdown", "command")

\* The stop command ends by itself ...
CommandEnds == StopGoes("command", "asked")

NoDefault == IF stopTime THEN "the stop time" ELSE "never"  \* mutant: 0 is for ever
Deadline == IF stopTime THEN "the stop time" ELSE "ten seconds"

\* ... or its timer kills it.
CommandTimesOut == Deadline # "never" /\ StopGoes("command", "asked")

NoTimer == FALSE  \* mutant: the timer is left to the stop command
TimerWanted == stopTime

\* shutdown() has returned: the timer is set and the lock given up.
StopAsked ==
    /\ caller = "asked"
    /\ timer' = IF TimerWanted THEN [timer EXCEPT ![process] = "running"] ELSE timer
    /\ locked' = FALSE
    /\ caller' = "waiting"
    /\ UNCHANGED <<settings, state, children, waiter>>

WaitedForNobody == TRUE  \* mutant: Stop does not wait for the process
WaitedForAll == \A g \in Proc : waiter[g] = "gone"

\* waiter.Wait() has returned; timer.Stop() comes too late for a timer that has
\* fired.
StopReturns ==
    /\ caller = "waiting" /\ ~locked
    /\ WaitedForAll
    /\ timer' = [g \in Proc |-> IF timer[g] = "running" THEN "none" ELSE timer[g]]
    /\ process' = Nobody
    /\ caller' = "down"
    /\ UNCHANGED <<settings, stopped, failed, locked, children, waiter>>

-----------------------------------------------------------------------------
(* The timer of Stop and Process.kill.                                     *)

Fire(g) ==
    /\ timer[g] = "running"
    /\ timer' = [timer EXCEPT ![g] = "fired"]
    /\ UNCHANGED <<settings, state, locked, caller, children, waiter>>

\* The callback gets the lock and kills whatever p.process is by then.
Kill(g) ==
    /\ timer[g] = "fired" /\ ~locked
    /\ timer' = [timer EXCEPT ![g] = "none"]
    /\ alive' = alive \ {process}
    /\ broken' = broken \cup (alive \cap {process})
    /\ UNCHANGED <<settings, state, locked, caller, current, waiter>>

-----------------------------------------------------------------------------
(* Process.doWait.                                                         *)

Waiter(g, from, to) == waiter[g] = from /\ waiter' = [waiter EXCEPT ![g] = to]

Reap(g) ==
    /\ g \notin alive /\ Waiter(g, "waits", "reaped")
    /\ UNCHANGED <<settings, state, locked, caller, children, timer>>

FailsIfAsked(g) == ~stopped /\ failOnExit  \* mutant: the exit status counts for nothing
Fails(g) == ~stopped /\ (g \in broken \/ failOnExit)

\* Whatever p.process is by then; p.reason and its log line go with failed.
Note(g) ==
    /\ ~locked /\ Waiter(g, "reaped", "noted")
    /\ process' = Nobody
    /\ failed' = (failed \/ Fails(g))
    /\ UNCHANGED <<settings, stopped, locked, caller, children, timer>>

\* waiter.Done() comes after the unlock.
Leave(g) ==
    /\ Waiter(g, "noted", "gone")
    /\ UNCHANGED <<settings, state, locked, caller, children, timer>>

-----------------------------------------------------------------------------
\* The environment: a process ends by itself, or because it was asked to.
End(g) ==
    /\ g \in alive
    /\ alive' = alive \ {g}
    /\ broken' \in {broken, broken \cup {g}}
    /\ UNCHANGED <<settings, state, locked, caller, current, waiter, timer>>

doWait(g) == Reap(g) \/ Note(g) \/ Leave(g)

Next ==
    \/ StartFails \/ \E g \in Proc : Start(g)
    \/ Stop \/ SignalSent \/ CommandStarts \/ CommandEnds \/ CommandTimesOut
    \/ StopAsked \/ StopReturns
    \/ \E g \in Proc : doWait(g) \/ Fire(g) \/ Kill(g) \/ End(g)

Spec == Init /\ [][Next]_vars

\* A Stop that has begun goes on, a goroutine that can run does, a timer fires.
\* Nothing makes a process or the stop command end but a kill.
FairSpec ==
    /\ Spec
    /\ WF_vars(SignalSent \/ CommandStarts) /\ WF_vars(CommandTimesOut)
    /\ WF_vars(StopAsked) /\ SF_vars(StopReturns)
    /\ \A g \in Proc : SF_vars(doWait(g)) /\ WF_vars(Fire(g)) /\ SF_vars(Kill(g))

-----------------------------------------------------------------------------
(* Properties.                                                             *)

\* Stop "blocks until the operation is complete" (provider.go:59-60): between a
\* Stop and the next Start no process of this provider runs, and the doWait of
\* an earlier process never touches the state of a later one.
NoOrphans ==
    /\ caller = "down" => alive = {} /\ process = Nobody
    /\ \A g \in Proc : waiter[g] \in {"waits", "reaped"} => process = g

\* The process does what the manager expects of a provider (provider.go:55-70):
\* nothing of it is left running between a Stop and the next Start; Check fails only
\* after a failed start or when the process has ended of itself, never while it runs
\* and never because it is being stopped; whatever doWait and old timers do.
Contract == INSTANCE Provider WITH
    called <- IF caller \in Stopping THEN "stopping" ELSE caller,
    runs <- alive # {},
    faulty <- failed

ImplementsProvider == Contract!ProviderSpec

\* Whatever the stop command does, and with or without a stop time, Stop gives up
\* p.lock, on which doWait and Check wait (process.go:190-192).
LockIsGivenUp == locked ~> ~locked

\* With a stop time, Stop ends although the process ignores SIGTERM: the kill
\* finds it (startRecurse and stopRecurse hold the manager's lock meanwhile).
StopEnds == stopTime /\ caller \in Stopping ~> caller = "down"

\* A process that dies of itself, badly, makes Check fail in the end, unless it
\* is stopped first.
CrashIsSeen ==
    \A g \in Proc : g \in broken /\ g = current /\ caller = "up" ~> failed \/ caller # "up"
=============================================================================
