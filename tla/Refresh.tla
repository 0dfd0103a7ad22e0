------------------------------ MODULE Refresh ------------------------------
(***************************************************************************)
(* The user interface kept up to date: the loop of App.refresh             *)
(* (govisor/ui/app.go), the REST client it calls, with its cache           *)
(* (rest/client.go), and the server of module RestServer.                  *)
(*                                                                         *)
(* The loop lists the services, gets each of them, posts what it has to    *)
(* the goroutine that draws, and waits for another serial of the manager.  *)
(* It makes one request at a time; a request may fail, by a timeout, the   *)
(* network, or the end of the server.                                      *)
(***************************************************************************)
EXTENDS RestServer, SequencesExt

CONSTANTS
    MaxFails,   \* bound: requests that fail although the server runs
    MaxPosted   \* bound: lists that are posted and not yet drawn

ASSUME RefreshAssumption == MaxFails \in Nat /\ MaxPosted \in Nat \ {0}

VARIABLES
    at,      \* where the loop is
    names,   \* Client.names
    ltag,    \* Client.etag, of the list
    mtag,    \* Client.manager.etag
    etag,    \* the etag of the loop
    todo,    \* the names getItems has still to look up
    items,   \* the items it has
    posted,  \* the lists handed to PostFunc and not yet drawn
    shown,   \* App.items
    fails    \* requests that have failed

loopVars == <<at, names, ltag, mtag, etag, todo, items, posted, shown, fails>>
vars == <<restVars, loopVars>>

ItemSet == [svc : Service, tag : Tag, view : View]

TypeOK ==
    /\ RestTypeOK
    /\ at \in {"start", "list", "items", "item", "post", "watch", "manager"}
    /\ names \subseteq Service /\ todo \subseteq Service
    /\ ltag \in Tag /\ mtag \in Tag /\ etag \in Tag
    /\ items \subseteq ItemSet /\ shown \subseteq ItemSet
    /\ posted \in Seq(SUBSET ItemSet)
    /\ fails \in 0 .. MaxFails

Init ==
    /\ RestInit
    /\ at = "start"
    /\ names = {} /\ ltag = NoTag /\ mtag = NoTag /\ etag = NoTag
    /\ todo = {} /\ items = {} /\ posted = <<>> /\ shown = {}
    /\ fails = 0

-----------------------------------------------------------------------------
(* Requests: Client.poll.                                                  *)

Ask(kind, s, tag) ==
    /\ wire' = [kind |-> kind, svc |-> s, tag |-> tag]
    /\ UNCHANGED <<managerVars, reading, been, sn, info, seen, answer>>

\* The request is over: the server forgets it, too.
Over ==
    /\ wire' = NoRequest /\ answer' = NoAnswer /\ reading' = "no"
    /\ been' = {} /\ sn' = 0 /\ info' = Blank /\ seen' = {}
    /\ UNCHANGED managerVars

Answered == answer.code # 0 /\ Over /\ UNCHANGED fails
Modified == answer.code = 200

\* There will be no answer, or it does not arrive.
Lost == wire.kind # "none" /\ answer.code = 0 /\ (wire.kind = "lost" \/ up = "down")
Failed ==
    /\ wire.kind # "none"
    /\ \/ Lost /\ UNCHANGED fails
       \/ ~Lost /\ fails < MaxFails /\ fails' = fails + 1
    /\ Over

-----------------------------------------------------------------------------
(* App.getItems.                                                           *)

\* Client.pollServices.
AskList ==
    /\ at = "start" /\ at' = "list"
    /\ Ask("list", NoService, ltag)
    /\ UNCHANGED <<names, ltag, mtag, etag, todo, items, posted, shown, fails>>

HaveList ==
    /\ at = "list" /\ at' = "items"
    /\ Answered
    /\ IF Modified THEN names' = answer.list /\ ltag' = answer.tag
                   ELSE UNCHANGED <<names, ltag>>
    /\ todo' = names' /\ items' = {}
    /\ UNCHANGED <<mtag, etag, posted, shown>>

NoList ==
    /\ at = "list" /\ at' = "post"
    /\ Failed
    /\ items' = {}
    /\ UNCHANGED <<names, ltag, mtag, etag, todo, posted, shown>>

\* Client.GetService: without an Etag, whatever is cached.
AskItem ==
    /\ at = "items" /\ at' = "item"
    /\ \E s \in todo : Ask("service", s, NoTag) /\ todo' = todo \ {s}
    /\ UNCHANGED <<names, ltag, mtag, etag, items, posted, shown, fails>>

\* An error, 404 for one, leaves the service out.
HaveItem ==
    /\ at = "item" /\ at' = "items"
    /\ Answered
    /\ items' = IF Modified
                THEN items \cup {[svc |-> wire.svc, tag |-> answer.tag,
                                  view |-> answer.view]}
                ELSE items
    /\ UNCHANGED <<names, ltag, mtag, etag, todo, posted, shown>>

NoItem ==
    /\ at = "item" /\ at' = "items"
    /\ Failed
    /\ UNCHANGED <<names, ltag, mtag, etag, todo, items, posted, shown>>

-----------------------------------------------------------------------------
(* App.refresh.                                                            *)

\* PostFunc, which does not wait for what was posted before.
Post ==
    /\ at = "post" \/ (at = "items" /\ todo = {})
    /\ Len(posted) < MaxPosted
    /\ at' = "watch"
    /\ posted' = Append(posted, items) /\ items' = {}
    /\ UNCHANGED <<restVars, names, ltag, mtag, etag, todo, shown, fails>>

Draw ==
    /\ posted # <<>>
    /\ shown' = Head(posted) /\ posted' = Tail(posted)
    /\ UNCHANGED <<restVars, at, names, ltag, mtag, etag, todo, items, fails>>

\* Client.Watch: the serial it knows, or the next one.
WatchCached ==
    /\ at = "watch" /\ at' = "start"
    /\ mtag # NoTag /\ etag = NoTag
    /\ etag' = mtag
    /\ UNCHANGED <<restVars, names, ltag, mtag, todo, items, posted, shown, fails>>

AskManager ==
    /\ at = "watch" /\ at' = "manager"
    /\ mtag = NoTag \/ etag # NoTag
    /\ Ask("manager", NoService, etag)
    /\ UNCHANGED <<names, ltag, mtag, etag, todo, items, posted, shown, fails>>

HaveManager ==
    /\ at = "manager" /\ at' = "start"
    /\ Answered
    /\ IF Modified THEN mtag' = answer.tag /\ etag' = answer.tag
                   ELSE UNCHANGED <<mtag, etag>>
    /\ UNCHANGED <<names, ltag, todo, items, posted, shown>>

\* Watch returns "" with an error; the loop goes on after two seconds.
NoManager ==
    /\ at = "manager" /\ at' = "start"
    /\ Failed
    /\ etag' = NoTag
    /\ UNCHANGED <<names, ltag, mtag, todo, items, posted, shown>>

\* App.SetUserPassword drops the items; it wakes the loop only if it waits after
\* an error.
SetUserPassword ==
    /\ shown' = {}
    /\ UNCHANGED <<restVars, at, names, ltag, mtag, etag, todo, items, posted, fails>>

Failure == NoList \/ NoItem \/ NoManager
Loop ==
    \/ AskList \/ HaveList \/ AskItem \/ HaveItem \/ Post
    \/ WatchCached \/ AskManager \/ HaveManager

Next ==
    \/ Manager /\ UNCHANGED loopVars
    \/ Serving /\ UNCHANGED loopVars
    \/ Loop \/ Failure \/ Draw \/ SetUserPassword

Spec == Init /\ [][Next]_vars

\* The goroutines that can run do.  The manager need not change anything, and
\* nobody promises that a request succeeds but the bound on failures.
FairSpec ==
    /\ Spec
    /\ WF_vars(Serving /\ UNCHANGED loopVars) /\ WF_vars(Loop)
    /\ WF_vars(Lost /\ Failure) /\ WF_vars(Draw)

-----------------------------------------------------------------------------
(* Properties.                                                             *)

\* An Etag says everything: an item with the serial of its service looks like it,
\* so nothing is missed by asking with If-None-Match.
EtagTellsAll ==
    \A i \in items \cup shown \cup UNION ToSet(posted) :
        up = "up" /\ i.svc \in services /\ i.tag = stamp[i.svc] => i.view = Shown(i.svc)

\* The names a client has cached go with the Etag it has for them, also across a
\* restart of the server (manager.go:362-366 on the serials of a new manager).
NamesMatchTag == up = "up" /\ ltag = listSerial => names = services

\* What is drawn of a service never goes back to an earlier state of it, whatever
\* fails or restarts in between; serial 0 says that it was just removed.
NeverBackwards ==
    [][\A i \in shown, j \in shown' :
         i.svc = j.svc => j.tag >= i.tag \/ j.tag = 0]_vars

\* As long as the server stays up, the services are drawn as they are, again and
\* again, although requests fail and the interface drops what it had.
Current ==
    shown = {[svc |-> s, tag |-> stamp[s], view |-> Shown(s)] : s \in services}
KeepsUpToDate == <>[](up = "up") => []<>Current
=============================================================================
