---------------------------- MODULE ServiceGraph ----------------------------
(***************************************************************************)
(* The dependency and conflict graph a manager keeps between its services  *)
(* (service.go, setManager and delManager; manager.go, AddService and      *)
(* DeleteService).  The three tables are spread over the Service objects   *)
(* and each edge is stored twice, once at either end; the properties say   *)
(* that the two ends agree whatever is added and removed in what order.    *)
(*                                                                         *)
(* Every operation here runs from m.lock() to m.unlock(), so it is one     *)
(* step.  Supervisor extends this module and embeds setManager and         *)
(* delManager in its own operations.                                       *)
(***************************************************************************)
EXTENDS ServiceNames, FiniteSets

VARIABLES
    services,  \* Manager.services
    parents,   \* parents[s][d]: the members recorded as satisfying d for s
    children,  \* children[s]: the members that have s as a parent
    incompat   \* incompat[s]: the members that must not be enabled with s

graphVars == <<services, parents, children, incompat>>

NoLinks == [d \in NameSet |-> {}]

GraphTypeOK ==
    /\ services \in SUBSET Service
    /\ parents \in [Service -> [NameSet -> SUBSET Service]]
    /\ children \in [Service -> SUBSET Service]
    /\ incompat \in [Service -> SUBSET Service]

GraphInit ==
    /\ services = {}
    /\ parents = [s \in Service |-> NoLinks]
    /\ children = [s \in Service |-> {}]
    /\ incompat = [s \in Service |-> {}]

-----------------------------------------------------------------------------
setManagerOneWay(s) ==  \* mutant: nobody who was there before depends on s
    /\ services' = services \cup {s}
    /\ parents' = [parents EXCEPT ![s] =
         [d \in NameSet |-> {p \in services : d \in LinkedBy(s, p)}]]
    /\ children' = [t \in Service |->
         IF t \in services /\ LinkedBy(s, t) # {}
         THEN children[t] \cup {s} ELSE children[t]]
    /\ incompat' = [t \in Service |->
         IF t = s THEN {c \in services : Clash(s, c)}
         ELSE IF t \in services /\ Clash(s, t)
              THEN incompat[t] \cup {s} ELSE incompat[t]]

\* Service.setManager: s starts with empty tables and is compared with every
\* member, in both directions.  A map that has no key d and one whose value at
\* d is empty differ only in which keys canRun visits: that is DependsOn(s).
setManager(s) ==
    /\ services' = services \cup {s}
    /\ parents' = [t \in Service |->
         IF t = s
         THEN [d \in NameSet |-> {p \in services : d \in LinkedBy(s, p)}]
         ELSE [d \in NameSet |->
                 IF t \in services /\ d \in LinkedBy(t, s)
                 THEN parents[t][d] \cup {s} ELSE parents[t][d]]]
    /\ children' = [t \in Service |->
         IF t = s
         THEN {c \in services : LinkedBy(c, s) # {}}
         ELSE IF t \in services /\ LinkedBy(s, t) # {}
              THEN children[t] \cup {s} ELSE children[t]]
    /\ incompat' = [t \in Service |->
         IF t = s
         THEN {c \in services : Clash(s, c)}
         ELSE IF t \in services /\ Clash(s, t)
              THEN incompat[t] \cup {s} ELSE incompat[t]]

delManagerKeepsLinks(s) ==  \* mutant: the parents of s still list it
    IF s \notin services THEN UNCHANGED graphVars ELSE
    /\ services' = services \ {s}
    /\ incompat' = [t \in Service |-> IF t = s THEN {} ELSE incompat[t] \ {s}]
    /\ parents' = [t \in Service |->
         IF t = s THEN NoLinks
         ELSE [d \in NameSet |-> parents[t][d] \ {s}]]
    /\ children' = [children EXCEPT ![s] = {}]

\* Service.delManager: it returns at once for a service without a manager, and
\* otherwise walks the tables of s to find the entries that name s elsewhere.
delManager(s) ==
    IF s \notin services THEN UNCHANGED graphVars ELSE
    /\ services' = services \ {s}
    /\ incompat' = [t \in Service |->
         IF t = s THEN {}
         ELSE IF t \in incompat[s] THEN incompat[t] \ {s} ELSE incompat[t]]
    /\ parents' = [t \in Service |->
         IF t = s THEN NoLinks
         ELSE IF t \in children[s]
              THEN [d \in NameSet |-> parents[t][d] \ {s}] ELSE parents[t]]
    /\ children' = [t \in Service |->
         IF t = s THEN {}
         ELSE IF \E d \in NameSet : t \in parents[s][d]
              THEN children[t] \ {s} ELSE children[t]]

\* The loop at the head of Manager.AddService (ErrNameExists).
NameIsFree(s) == \A t \in services : Name[t] # Name[s]

-----------------------------------------------------------------------------
\* The graph under additions and removals alone.
Join(s) == NameIsFree(s) /\ setManager(s)
Leave(s) == s \in services /\ delManager(s)

GraphNext == \E s \in Service : Join(s) \/ Leave(s)
GraphSpec == GraphInit /\ [][GraphNext]_graphVars

-----------------------------------------------------------------------------
\* The two ends of every edge agree and every edge joins two members: nothing
\* that was removed is still reachable (setManager and delManager update the
\* two ends in different loops, in an order that depends on who came first).
GraphMirrors ==
    \A s, p \in Service :
        /\ s \in children[p] <=> \E d \in NameSet : p \in parents[s][d]
        /\ s \in children[p] => {s, p} \subseteq services
        /\ s \in incompat[p] <=> p \in incompat[s]
        /\ s \in incompat[p] => {s, p} \subseteq services

\* The graph depends only on who is a member, not on the order in which the
\* members came, left and came back: every edge is the one the names call for.
GraphIsCanonical ==
    \A s, p \in services : s # p =>
        /\ \A d \in NameSet : p \in parents[s][d] <=> d \in LinkedBy(s, p)
        /\ s \in incompat[p] <=> Clash(s, p)

\* A member that matches a dependency is recorded as satisfying it.  The doc
\* promises it for each name a service offers (service.go:114-117: "a daemon
\* might offer "http" and "ftp" both"); the break of setManager stops at the
\* first dependency matched.
EveryMatchLinked ==
    \A s, p \in services : \A d \in DependsOn(s) :
        s # p /\ Matches(p, d) => p \in parents[s][d]
=============================================================================
