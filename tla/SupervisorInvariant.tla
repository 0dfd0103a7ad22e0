------------------------- MODULE SupervisorInvariant ------------------------
(***************************************************************************)
(* The inductive invariant of Supervisor: what is true of the services and *)
(* of the calls in progress between any two steps of the goroutine that    *)
(* holds the manager's lock.  RunningSupported only speaks of the moments  *)
(* when the lock is free; Supported is what holds in the middle of a       *)
(* cascade: whoever lost its support is still to be visited by it.         *)
(***************************************************************************)
EXTENDS Supervisor

Frames == 1 .. Len(stack)

\* Where the calls can be: the outermost call of an operation is at the bottom,
\* a removal is always Shutdown's, and a call not yet begun is on top.
Shape ==
    \A i \in Frames :
        /\ stack[i].kind \in {"restart", "monitor", "shutdown"} => i = 1
        /\ stack[i].kind = "remove" => i = 2 /\ stack[1].kind = "shutdown"
        /\ stack[i].kind \in {"start", "stop"} => i = Len(stack)
        /\ stack[i].kind \notin {"monitor", "shutdown"} => stack[i].svc \in Service

\* GraphMirrors, and no service is its own neighbour.
GraphInv ==
    /\ GraphMirrors
    /\ \A s \in Service : s \notin children[s] /\ s \notin incompat[s]

\* Only members are enabled; a restart comes back to a service that is still a
\* member and has no enabled rival; Shutdown removes only disabled services.
Pending ==
    /\ enabled \subseteq services
    /\ \A i \in Frames :
         /\ stack[i].kind = "restart" =>
              /\ stack[i].svc \in services
              /\ incompat[stack[i].svc] \cap enabled = {}
         /\ stack[i].kind = "remove" => stack[i].svc \notin enabled

\* The stopping flag is set exactly during the one stopRecurse of the service
\* that is past its guard.
StoppingIsCalled ==
    /\ \A s \in stopping :
         \E i \in Frames : stack[i].kind = "stopping" /\ stack[i].svc = s
    /\ \A i \in Frames : stack[i].kind = "stopping" => stack[i].svc \in stopping
    /\ \A i, j \in Frames :
         /\ stack[i].kind = "stopping" /\ stack[j].kind = "stopping"
         /\ stack[i].svc = stack[j].svc
         => i = j

\* A running service that has failed is being stopped, or is just about to be.
FailedIsStopping ==
    \A s \in failed \cap running :
        \/ s \in stopping
        \/ stack # <<>> /\ Top.kind = "stop" /\ Top.svc = s

\* s is a member, is wanted and has what it needs.
Sound(s) ==
    s \in services /\ s \in enabled /\ s \notin failed /\ DepsMet(s)

\* A stopRecurse in progress is going to visit s: it is about to begin, for s
\* or for one of its parents, or s is a child its loop has still to look at.
Doomed(s) ==
    \E i \in Frames :
        \/ /\ stack[i].kind = "stop"
           /\ stack[i].svc \in running \ stopping
           /\ s = stack[i].svc \/ s \in children[stack[i].svc]
        \/ stack[i].kind = "stopping" /\ s \in stack[i].todo

Supported == \A s \in running \ stopping : Sound(s) \/ Doomed(s)

IInv ==
    /\ TypeOK
    /\ Shape
    /\ GraphInv
    /\ Pending
    /\ NoConflictEnabled
    /\ StoppingIsCalled
    /\ FailedIsStopping
    /\ Supported
=============================================================================
