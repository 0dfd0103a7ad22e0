------------------------------- MODULE Watch -------------------------------
(***************************************************************************)
(* Waiting for a serial number to change: Manager.watchSerial, bumpSerial  *)
(* and wakeUp (manager.go), behind every long poll of the REST server.     *)
(*                                                                         *)
(* A watcher holds the manager's lock from Enter to Sleep or Return; it    *)
(* joins the waiters of its condition variable before it gives the lock    *)
(* up (sync.Cond.Wait).  Whoever changes something bumps the manager's     *)
(* serial, wakes the watchers and only then stores the number with the     *)
(* service or the list that changed.  All do so with the lock held, but    *)
(* for Service.Check, which takes no lock (service.go:327-332).            *)
(***************************************************************************)
EXTENDS Naturals, FiniteSets

CONSTANTS
    Watcher,        \* goroutines that call watchSerial
    Source,         \* whose serials are watched: services and the list
    Free,           \* nobody holds the lock
    MaxSerial       \* bound: bumps of the manager's serial

Writer == "writer"
Nothing == "nothing"    \* watched by a goroutine that is not in a call

ASSUME WatchAssumption ==
    /\ Free \notin Watcher \cup {Writer} /\ Writer \notin Watcher
    /\ MaxSerial \in Nat

VARIABLES
    holder,    \* of Manager.mx
    serial,    \* Manager.serial
    value,     \* listSerial and Service.serial, for each source
    bumping,   \* bumps under way: who bumps, for which source, the new number,
               \* and whether Manager.serial has it yet
    cvs,       \* Manager.cvs: the watchers that wakeUp finds
    pc,        \* where each watcher is
    src, old,  \* the arguments of its call
    expired,   \* its `expired` variable
    timer      \* its timer

vars == <<holder, serial, value, bumping, cvs, pc, src, old, expired, timer>>
callVars == <<src, old, expired, timer>>

\* "away": not in a call; "napping": in one, without a manager; "called": before
\* the lock; "looking": has the lock; "dozing": found nothing, still has it;
\* "asleep"; "woken": wants it back.
Place == {"away", "napping", "called", "looking", "dozing", "asleep", "woken"}

TypeOK ==
    /\ holder \in Watcher \cup {Writer, Free}
    /\ serial \in 0 .. MaxSerial
    /\ value \in [Source -> 0 .. MaxSerial]
    /\ bumping \subseteq [by : {"writer", "check"}, src : Source,
                         rv : 1 .. MaxSerial, done : BOOLEAN]
    /\ cvs \subseteq Watcher
    /\ pc \in [Watcher -> Place]
    /\ src \in [Watcher -> Source \cup {Nothing}] /\ old \in [Watcher -> 0 .. MaxSerial]
    /\ expired \in [Watcher -> BOOLEAN]
    /\ timer \in [Watcher -> {"none", "running", "fired"}]

Init ==
    /\ holder = Free
    /\ serial = 0
    /\ value = [x \in Source |-> 0]
    /\ bumping = {}
    /\ cvs = {}
    /\ pc = [w \in Watcher |-> "away"]
    /\ src = [w \in Watcher |-> Nothing] /\ old = [w \in Watcher |-> 0]
    /\ expired = [w \in Watcher |-> FALSE]
    /\ timer = [w \in Watcher |-> "none"]

Goes(w, place) == pc' = [pc EXCEPT ![w] = place]

-----------------------------------------------------------------------------
(* Manager.watchSerial.                                                    *)

\* With a duration the timer starts before the lock is asked for; without one
\* the call is a poll.  The serial a caller passes is one it was given earlier.
Watch(w, x, o, wait) ==
    /\ pc[w] = "away"
    /\ src' = [src EXCEPT ![w] = x] /\ old' = [old EXCEPT ![w] = o]
    /\ timer' = [timer EXCEPT ![w] = IF wait THEN "running" ELSE "none"]
    /\ expired' = [expired EXCEPT ![w] = ~wait]
    /\ Goes(w, "called")
    /\ UNCHANGED <<holder, serial, value, bumping, cvs>>

JoinsNot(w) == cvs  \* mutant: the watcher does not join Manager.cvs
Joins(w) == cvs \cup {w}

Enter(w) ==
    /\ pc[w] = "called" /\ holder = Free
    /\ holder' = w
    /\ cvs' = Joins(w)
    /\ Goes(w, "looking")
    /\ UNCHANGED <<serial, value, bumping, callVars>>

OverOnWake(w) == TRUE  \* mutant: any wake-up ends the call
Over(w) == value[src[w]] # old[w] \/ expired[w]

\* The test of the loop.
Look(w) ==
    /\ pc[w] = "looking" /\ ~Over(w)
    /\ Goes(w, "dozing")
    /\ UNCHANGED <<holder, serial, value, bumping, cvs, callVars>>

Sleep(w) ==
    /\ pc[w] = "dozing"
    /\ holder' = Free
    /\ Goes(w, "asleep")
    /\ UNCHANGED <<serial, value, bumping, cvs, callVars>>

Resume(w) ==
    /\ pc[w] = "woken" /\ holder = Free
    /\ holder' = w
    /\ Goes(w, "looking")
    /\ UNCHANGED <<serial, value, bumping, cvs, callVars>>

\* The call is over and its variables are gone.
Forget(w) ==
    /\ src' = [src EXCEPT ![w] = Nothing] /\ old' = [old EXCEPT ![w] = 0]
    /\ expired' = [expired EXCEPT ![w] = FALSE]
    /\ timer' = [timer EXCEPT ![w] = "none"]
    /\ Goes(w, "away")

\* The loop ends with value[src[w]]; the timer is stopped, or its callback finds
\* nobody.
Return(w) ==
    /\ pc[w] = "looking" /\ Over(w)
    /\ cvs' = cvs \ {w} /\ holder' = Free
    /\ Forget(w)
    /\ UNCHANGED <<serial, value, bumping>>

Broadcast(ws) ==
    pc' = [w \in Watcher |-> IF w \in ws /\ pc[w] = "asleep" THEN "woken" ELSE pc[w]]

AlarmForgotten(w) == UNCHANGED pc  \* mutant: the timer does not wake its watcher
Alarm(w) == Broadcast({w})

\* The callback of the timer, from lock to unlock.
Expire(w) ==
    /\ timer[w] = "running" /\ holder = Free
    /\ timer' = [timer EXCEPT ![w] = "fired"]
    /\ expired' = [expired EXCEPT ![w] = TRUE]
    /\ Alarm(w)
    /\ UNCHANGED <<holder, serial, value, bumping, cvs, src, old>>

-----------------------------------------------------------------------------
(* Manager.bumpSerial, and what its callers do with the number.            *)

Bumping(by) == \E b \in bumping : b.by = by

OwnNext(x) == value[x] + 1  \* mutant: every source counts for itself
NextSerial(x) == serial + 1

\* m.serial++ reads the serial; without the lock somebody may bump it before it
\* is written back.
StartBump(by, x) ==
    /\ ~Bumping(by) /\ serial < MaxSerial
    /\ bumping' = bumping \cup
                    {[by |-> by, src |-> x, rv |-> NextSerial(x), done |-> FALSE]}
    /\ UNCHANGED <<holder, serial, value, cvs, pc, callVars>>

WakeNobody == UNCHANGED pc  \* mutant: bumpSerial does not call wakeUp
wakeUp == Broadcast(cvs)

\* ... is written back, and the watchers are woken.
bumpSerial(b) ==
    /\ ~b.done
    /\ serial' = b.rv
    /\ wakeUp
    /\ bumping' = (bumping \ {b}) \cup {[b EXCEPT !.done = TRUE]}
    /\ UNCHANGED <<holder, value, cvs, callVars>>

\* s.serial = ..., m.listSerial = ...
Store(b) ==
    /\ b.done
    /\ value' = [value EXCEPT ![b.src] = b.rv]
    /\ bumping' = bumping \ {b}
    /\ UNCHANGED <<holder, serial, cvs, pc, callVars>>

\* Every operation of the manager and of its services.
Lock == /\ holder = Free /\ holder' = Writer
        /\ UNCHANGED <<serial, value, bumping, cvs, pc, callVars>>
Change(x) == holder = Writer /\ StartBump("writer", x)
Unlock == /\ holder = Writer /\ ~Bumping("writer")
          /\ holder' = Free
          /\ UNCHANGED <<serial, value, bumping, cvs, pc, callVars>>

\* Service.Check: a fault, or the first good result, is a bump without the lock.
Check(x) == StartBump("check", x)

Inside(w) == Look(w) \/ Sleep(w) \/ Return(w)
Writing == Unlock \/ \E b \in bumping : bumpSerial(b) \/ Store(b)

\* Whoever has the lock goes on, and whoever wants it gets it in the end (a Go
\* mutex hands itself to a waiter it has starved for a millisecond).  Nobody is
\* obliged to change anything, and a timer may run as long as it likes.
LockFairness ==
    /\ WF_vars(Writing)
    /\ \A w \in Watcher : WF_vars(Inside(w)) /\ SF_vars(Enter(w)) /\ SF_vars(Resume(w))

TimersFire == \A w \in Watcher : SF_vars(Expire(w))

-----------------------------------------------------------------------------
(* Properties.                                                             *)

\* No news is slept through: when nobody holds the lock, a watcher that is asleep
\* has seen the serial it watches as it is, and its time is not up (manager.go:62-64
\* names the risk: "the woken goroutines won't get see the updated serial number").
NoNewsSleptThrough ==
    holder = Free => \A w \in Watcher :
        pc[w] = "asleep" => value[src[w]] = old[w] /\ ~expired[w]

\* A call that comes back with the old serial was a poll or has waited its time
\* (manager.go:83: the old value is returned if it "has not changed in the given
\* duration"); spurious wake-ups do not end it.
OldOnlyAfterTimeout ==
    [][\A w \in Watcher :
         Return(w) /\ value[src[w]] = old[w] => timer[w] # "running"]_vars

\* A number that is stored is new: larger than any that was stored before, for
\* whatever source (manager.go:362-363: "it should be safe for us to use these as
\* unique values"; they are the Etags of the REST server).
NumbersAreFresh ==
    [][\A x \in Source : value'[x] # value[x] =>
         \A y \in Source : value'[x] > value[y]]_vars

\* A change of a watched serial ends the call even if its timer never fires.
NewsEndsTheCall ==
    \A w \in Watcher :
        pc[w] # "away" /\ value[src[w]] # old[w] ~> pc[w] = "away"

\* Every call comes back, at the latest when its timer fires.
EveryCallReturns ==
    TimersFire => \A w \in Watcher : pc[w] # "away" ~> pc[w] = "away"
=============================================================================
