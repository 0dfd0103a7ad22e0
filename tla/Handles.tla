------------------------------ MODULE Handles ------------------------------
(***************************************************************************)
(* The manager of a service comes and goes: Service.mgr is set by          *)
(* AddService and cleared by DeleteService and Shutdown, with the lock     *)
(* held, and read by every method of the service before it has the lock.   *)
(*                                                                         *)
(* A method that reads the field once (`if m := s.mgr; m != nil`, among    *)
(* them WatchService) locks the manager it found, whatever happens next.   *)
(* Enable, Disable, Restart and Clear read it again at each use.           *)
(***************************************************************************)
EXTENDS Watch

CONSTANT List           \* the source that is the list of services

Service == Source \ {List}
Caller == "caller"      \* a goroutine in Enable, Disable, Restart or Clear

ASSUME HandlesAssumption == List \in Source /\ Caller \notin Watcher

VARIABLES
    managed,   \* the services whose mgr is not nil
    at,        \* where the Caller is
    subject    \* the service whose method it called

handleVars == <<managed, at, subject>>
allVars == <<vars, handleVars>>

HandlesInit ==
    /\ Init
    /\ managed \in SUBSET Service
    /\ at = "away" /\ subject \in Service

-----------------------------------------------------------------------------
(* WatchServices, WatchService.                                            *)

WatchManaged(w) ==
    /\ \E x \in managed \cup {List}, o \in 0 .. MaxSerial, wait \in BOOLEAN :
           o <= value[x] /\ Watch(w, x, o, wait)
    /\ UNCHANGED handleVars

\* Without a manager nobody can wake the caller: it sleeps its time ...
WatchUnmanaged(w) ==
    /\ pc[w] = "away"
    /\ \E x \in Service \ managed :
           src' = [src EXCEPT ![w] = x] /\ old' = [old EXCEPT ![w] = value[x]]
    /\ Goes(w, "napping")
    /\ UNCHANGED <<holder, serial, value, bumping, cvs, expired, timer, handleVars>>

\* ... and returns value[src[w]], read without a lock.
WakeUnmanaged(w) ==
    /\ pc[w] = "napping"
    /\ Forget(w)
    /\ UNCHANGED <<holder, serial, value, bumping, cvs, handleVars>>

-----------------------------------------------------------------------------
(* AddService, DeleteService and Shutdown, with the lock held.             *)

\* Two bumps, the first for the list.
Relist(x) ==
    /\ holder = Writer /\ ~Bumping("writer")
    /\ serial + 2 <= MaxSerial
    /\ serial' = serial + 2
    /\ value' = [value EXCEPT ![List] = NextSerial(List), ![x] = NextSerial(x) + 1]
    /\ wakeUp
    /\ UNCHANGED <<holder, bumping, cvs, callVars, at, subject>>

AddService(x) == x \notin managed /\ Relist(x) /\ managed' = managed \cup {x}

\* A service that has no manager is not removed, but there is news all the same.
DeleteService(x) == Relist(x) /\ managed' = managed \ {x}

\* The services it stops have been bumped before; the list never is.
ShutdownRemoves ==
    /\ holder = Writer /\ ~Bumping("writer")
    /\ managed' = {}
    /\ UNCHANGED <<vars, at, subject>>

-----------------------------------------------------------------------------
(* Enable, Disable, Restart, Clear.                                        *)

\* if s.mgr == nil { return ErrNoManager }
CallOperation(x) ==
    /\ at = "away" /\ holder # Caller
    /\ x \in managed
    /\ at' = "tested" /\ subject' = x
    /\ UNCHANGED <<vars, managed>>

\* s.mgr.lock(): the field is read, and the manager it held is waited for.  A nil
\* one panics here; net/http recovers, and nothing is held.
ReadManager ==
    /\ at = "tested"
    /\ at' = IF subject \in managed THEN "waiting" ELSE "away"
    /\ UNCHANGED <<vars, managed, subject>>

GetLock ==
    /\ at = "waiting" /\ holder = Free
    /\ holder' = Caller /\ at' = "inside"
    /\ UNCHANGED <<serial, value, bumping, cvs, pc, callVars, managed, subject>>

\* defer s.mgr.unlock(), which reads the field right after the lock.
GiveLockBack ==
    /\ at = "inside" /\ subject \in managed
    /\ holder' = Free /\ at' = "away"
    /\ UNCHANGED <<serial, value, bumping, cvs, pc, callVars, managed, subject>>

\* A nil manager: bumpSerial panics, and so does the deferred unlock.
PanicInside ==
    /\ at = "inside" /\ subject \notin managed
    /\ at' = "away"
    /\ UNCHANGED <<vars, managed, subject>>

Operate == \/ ReadManager \/ GetLock \/ GiveLockBack \/ PanicInside
           \/ \E x \in Service : CallOperation(x)

-----------------------------------------------------------------------------
HandlesNext ==
    \/ \E w \in Watcher :
         \/ WatchManaged(w) \/ WatchUnmanaged(w) \/ WakeUnmanaged(w)
         \/ (Enter(w) \/ Inside(w) \/ Resume(w) \/ Expire(w)) /\ UNCHANGED handleVars
    \/ (Lock \/ Writing) /\ UNCHANGED handleVars
    \/ \E x \in managed : Change(x) /\ UNCHANGED handleVars
    \/ \E x \in Service : AddService(x) \/ DeleteService(x)
    \/ ShutdownRemoves

\* A nap is as long as it was asked to be.
NapsEnd == \A w \in Watcher : WF_allVars(WakeUnmanaged(w))

HandlesSpec == HandlesInit /\ [][HandlesNext]_allVars /\ LockFairness /\ NapsEnd

\* An application that calls Service.Check besides; govisord never does.
CheckingSpec ==
    HandlesInit /\ [][\/ HandlesNext
                     \/ \E x \in managed : Check(x) /\ UNCHANGED handleVars]_allVars

\* With callers of the operations besides.
OperatedSpec == HandlesInit /\ [][HandlesNext \/ Operate]_allVars

-----------------------------------------------------------------------------
\* Whoever has the manager's lock is inside an operation (service.go:29-31: "Once
\* the service is added to a Manager, the Manager's lock will protect concurrent
\* accesses"; it does not when the manager goes while the lock is waited for).
LockIsHeldFromWithin == holder = Caller => at = "inside"
=============================================================================
