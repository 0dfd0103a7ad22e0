------------------------------ MODULE LogView ------------------------------
(***************************************************************************)
(* A log on the screen: App.ShowLog and App.refreshLog (govisor/ui/app.go) *)
(* with Client.pollLog (rest/client.go) and the log of module Log.         *)
(*                                                                         *)
(* Every ShowLog starts a goroutine that fetches the log, hands it to the  *)
(* goroutine that draws, and waits for news.  The one before it is only    *)
(* told to end: it may still have a request under way, post what it got,   *)
(* and share the cache.  What is posted is a closure over its variables:   *)
(* it shows their value when it runs.  Of all logs but one it only matters *)
(* that they are others.  The readers of Log are these goroutines, of      *)
(* which there are as many as the log is opened.                           *)
(***************************************************************************)
EXTENDS Log

CONSTANTS
    MaxQueue,   \* bound: closures that wait to be run
    MaxFails    \* bound: requests that fail unless they are cancelled

ASSUME ViewAssumption == MaxQueue \in Nat \ {0} /\ MaxFails \in Nat

VARIABLES
    logName,   \* App.logName: "log", or "other" for any other one
    logInfo,   \* App.logInfo
    live,      \* the goroutine whose context is not done: one or none
    at,        \* where a goroutine is
    info,      \* its variable `info`, the `last` of pollLog
    held,      \* the variable `cached` of pollLog
    cache,     \* Client.logs of the log
    queue,     \* closures posted and not run yet, by goroutine
    fails      \* requests that have failed

screenVars == <<logName, logInfo>>
viewVars == <<screenVars, live, at, info, held, cache, queue, fails>>
allVars == <<vars, viewVars>>

NoInfo == [tag |-> NoTag, recs |-> <<>>]     \* nil
LogInfo == [tag : Tag, recs : Seq(LogRecord)]

ViewTypeOK ==
    /\ TypeOK
    /\ logName \in {"log", "other"}
    /\ logInfo \in LogInfo /\ cache \in LogInfo
    /\ live \subseteq Reader /\ Cardinality(live) <= 1
    /\ at \in [Reader -> {"new", "ended", "post", "check", "ask", "asked", "pause"}]
    /\ info \in [Reader -> LogInfo] /\ held \in [Reader -> LogInfo]
    /\ queue \in Seq(Reader) /\ Len(queue) <= MaxQueue
    /\ fails \in 0 .. MaxFails

ViewInit ==
    /\ Init
    /\ logName = "other" /\ logInfo = NoInfo
    /\ live = {}
    /\ at = [r \in Reader |-> "new"]
    /\ info = [r \in Reader |-> NoInfo] /\ held = [r \in Reader |-> NoInfo]
    /\ cache = NoInfo
    /\ queue = <<>>
    /\ fails = 0

-----------------------------------------------------------------------------
(* The goroutine that draws.                                               *)

\* Names for new goroutines.
Free == {r \in Reader : at[r] = "new"}

\* App.ShowLog of the log, with a new goroutine.
ShowLog(r) ==
    /\ Free # {} /\ r = CHOOSE q \in Free : TRUE
    /\ logName' = "log" /\ logInfo' = NoInfo
    /\ live' = {r}
    /\ at' = [at EXCEPT ![r] = "ask"]
    /\ UNCHANGED <<vars, info, held, cache, queue, fails>>

\* App.ShowLog of another one.
ShowOther ==
    /\ logName' = "other" /\ logInfo' = NoInfo
    /\ live' = {}
    /\ UNCHANGED <<vars, at, info, held, cache, queue, fails>>

AnyLog == TRUE  \* mutant: whatever log it is
LogIsWanted == logName = "log"

\* The closure: it shows the log only if it is the one that is asked for.
Draw ==
    /\ queue # <<>>
    /\ queue' = Tail(queue)
    /\ logInfo' = IF LogIsWanted THEN info[Head(queue)] ELSE logInfo
    /\ UNCHANGED <<vars, logName, live, at, info, held, cache, fails>>

\* The hour of the context is over.
HourEnds ==
    /\ live # {} /\ live' = {}
    /\ UNCHANGED <<vars, screenVars, at, info, held, cache, queue, fails>>

-----------------------------------------------------------------------------
(* App.refreshLog and Client.pollLog.                                      *)

\* The poll of GetLog, of WatchLog with the copy it knows, or, if the cache has
\* another copy, without waiting.
Ask(r) ==
    /\ at[r] = "ask"
    /\ at' = [at EXCEPT ![r] = "asked"]
    /\ held' = [held EXCEPT ![r] = cache]
    /\ LET last == info[r] IN
         IF last # NoInfo /\ cache # NoInfo /\ last.tag # cache.tag
         THEN Request(r, cache.tag, FALSE)
         ELSE Request(r, last.tag, last # NoInfo)
    /\ UNCHANGED <<screenVars, live, info, cache, queue, fails>>

KeepOwn(r) == [tag |-> sent[r].tag, recs |-> info[r].recs]  \* mutant: not the cached one
KeepCached(r) == held[r]

Answer(r) ==
    /\ at[r] = "asked" /\ pc[r] = "sent"
    /\ at' = [at EXCEPT ![r] = "post"]
    /\ IF sent[r].modified
       THEN LET v == [tag |-> sent[r].tag, recs |-> sent[r].recs]
            IN info' = [info EXCEPT ![r] = v] /\ cache' = v
       ELSE info' = [info EXCEPT ![r] = KeepCached(r)] /\ UNCHANGED cache
    /\ held' = [held EXCEPT ![r] = NoInfo]
    /\ Hangup(r)
    /\ UNCHANGED <<screenVars, live, queue, fails>>

\* The context is done, or the request fails: the cache is given up.
Fail(r) ==
    /\ at[r] = "asked"
    /\ IF r \in live THEN fails < MaxFails /\ fails' = fails + 1
                     ELSE UNCHANGED fails
    /\ at' = [at EXCEPT ![r] = "pause"]
    /\ info' = [info EXCEPT ![r] = NoInfo]
    /\ held' = [held EXCEPT ![r] = NoInfo]
    /\ cache' = NoInfo
    /\ Hangup(r)
    /\ UNCHANGED <<screenVars, live, queue>>

AfterErrorEnd == "ended"  \* mutant: after an error the goroutine ends
AfterError == "post"

\* Two seconds, or a wake-up, which may come first even if the context is done.
Resume(r) ==
    /\ at[r] = "pause"
    /\ at' = [at EXCEPT ![r] = AfterError]
    /\ UNCHANGED <<vars, screenVars, live, info, held, cache, queue, fails>>

\* PostFunc.
Post(r) ==
    /\ at[r] = "post" /\ Len(queue) < MaxQueue
    /\ queue' = Append(queue, r)
    /\ at' = [at EXCEPT ![r] = "check"]
    /\ UNCHANGED <<vars, screenVars, live, info, held, cache, fails>>

\* ctx.Done: after a post or an error.
GoOn(r) ==
    /\ at[r] = "check" /\ r \in live
    /\ at' = [at EXCEPT ![r] = "ask"]
    /\ UNCHANGED <<vars, screenVars, live, info, held, cache, queue, fails>>

Return(r) ==
    /\ at[r] \in {"check", "pause"} /\ r \notin live
    /\ at' = [at EXCEPT ![r] = "ended"]
    /\ UNCHANGED <<vars, screenVars, live, info, held, cache, queue, fails>>

Session(r) ==
    Ask(r) \/ Answer(r) \/ Resume(r) \/ Post(r) \/ GoOn(r) \/ Return(r)

ViewNext ==
    \/ Logging /\ UNCHANGED viewVars
    \/ \E r \in Reader :
         \/ Serving(r) /\ UNCHANGED viewVars
         \/ Session(r) \/ Fail(r) \/ ShowLog(r)
    \/ ShowOther \/ Draw \/ HourEnds

ViewSpec == ViewInit /\ [][ViewNext]_allVars

\* Goroutines that can run do, and timers fire.  Nobody has to write or to press
\* a key.
FairViewSpec ==
    /\ ViewSpec
    /\ \A r \in Reader :
         /\ WF_allVars(Look(r) /\ UNCHANGED viewVars)
         /\ WF_allVars(Expire(r) /\ UNCHANGED viewVars)
         /\ WF_allVars(getLog(r) /\ UNCHANGED viewVars)
         /\ WF_allVars(Session(r))
    /\ WF_allVars(Draw)

-----------------------------------------------------------------------------
(* Properties.                                                             *)

\* An id says everything about the log: whoever has a copy with its current id,
\* from whatever answer or cache, has the records as they are (log.go:88-92: the
\* ids are "suitable for use as an Etag").
EtagTellsAll ==
    \A v \in {info[r] : r \in Reader} \cup {logInfo, cache} :
        v.tag = id => v.recs = Kept

\* A log is never drawn under the name of another one, although the goroutine of
\* the former still posts.
NoOtherLog == logName = "other" => logInfo = NoInfo

\* A log that stays on the screen is drawn as it is, again and again, whatever
\* failed before and whatever its predecessors still post, until its hour ends.
PanelKeepsUp ==
    <>[](live # {}) => []<>(logInfo = [tag |-> id, recs |-> Kept])
=============================================================================
